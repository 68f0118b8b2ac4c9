-------------------------- MODULE HandleCloneProofs --------------------------
(***************************************************************************)
(* Who owns which block, at every step of a copy.  A handle holds a block   *)
(* at each of its places that is not empty, except that parser_sql may be  *)
(* its sql, and that the spelling of a record that is not counted yet is   *)
(* still the original's.  Every block in use is held at exactly one place; *)
(* the rest of the invariant makes what destroy reaches by the counts and  *)
(* what is held the same.                                                  *)
(***************************************************************************)
EXTENDS HandleClone, RecursionFacts

Holds(x, pl) ==
  /\ x.at[pl] # NoBlock
  /\ pl[1] = "parser" => x.at[pl] # x.at[Part("sql")]
  /\ pl[1] = "spelling" => pl[2] <= x.recordCount

\* The blocks of B are those that are held, each at one place.
Owned(B, hd) ==
  /\ \A k \in Handles : \A pl \in Places : Holds(hd[k], pl) => hd[k].at[pl] \in B
  /\ \A b \in B : \E k \in Handles : \E pl \in Places : Holds(hd[k], pl) /\ hd[k].at[pl] = b
  /\ \A k, l \in Handles : \A pl, q \in Places :
       Holds(hd[k], pl) /\ Holds(hd[l], q) /\ hd[k].at[pl] = hd[l].at[q] => k = l /\ pl = q

\* The counts reach all that is held, but for r records and g groups.
Trim(x, r, g) ==
  /\ \A i \in 1..Elements : x.at[Original(i)] # NoBlock => i <= x.recordCount + r
  /\ \A e \in 1..Elements : \A c \in 1..MaxParts :
       x.at[Component(e, c)] # NoBlock => c <= x.partCount[e]
  /\ \A e \in 1..Elements : x.partCount[e] # 0 => e <= x.groupCount + g

\* The counts are those of the arrays.
Counted(x) == x.recordCount = x.records /\ x.groupCount = x.groups
Arrays(x) ==
  /\ x.records # 0 => x.at[Part("records")] # NoBlock
  /\ x.groups # 0 => x.at[Part("groups")] # NoBlock

Whole(x) == Counted(x) /\ Arrays(x) /\ Trim(x, 0, 0)

\* How far a copy x of the handle s has come: what the steps from i on fill is
\* empty, and what those before i fill is complete.
Pos == [sql |-> 1, parser |-> 2, state |-> 3, tree |-> 4, edits |-> 5,
        records |-> 6, original |-> 7, spelling |-> 7,
        groups |-> 8, component |-> 9, control |-> 10, origins |-> 11]
Done(x, s, i) ==
  /\ \A p \in Parts \ {"struct", "parser"} : i <= Pos[p] => x.at[Part(p)] = NoBlock
  /\ i = 1 => x.at[Part("parser")] = NoBlock
  /\ x.records = IF i <= 6 THEN 0 ELSE s.records
  /\ x.recordCount <= x.records
  /\ i > 7 => x.recordCount = x.records
  /\ x.groups = IF i <= 8 THEN 0 ELSE s.groups
  /\ x.groupCount <= x.groups
  /\ i > 9 => x.groupCount = x.groups
  /\ Arrays(x)

Copying(x, s, p) ==
  /\ Done(x, s, Pos[p])
  /\ p = "parser" => x.at[Part("parser")] = NoBlock
  /\ p \in {"original", "spelling"} => x.recordCount < s.records
  /\ p = "component" => /\ x.groupCount < s.groups
                        /\ x.partCount[x.groupCount + 1] < s.partCount[x.groupCount + 1]
  /\ Trim(x, IF p = "spelling" THEN 1 ELSE 0, IF p = "component" THEN 1 ELSE 0)

Steps == {Order[i] : i \in DOMAIN Order} \union {"spelling", "idle"}

Types ==
  /\ heap \subseteq 1..Blocks
  /\ step \in Steps
  /\ handle \in [Handles -> Handle]

IInv ==
  /\ Types
  /\ wild = FALSE
  /\ \A h \in Handles : Exists(h) \/ handle[h] = NoHandle
  /\ \A h \in Handles : (h # "copy" \/ step = "idle") => Whole(handle[h])
  /\ step # "idle" => /\ Exists("owner") /\ Exists("copy")
                      /\ Copying(Dst, Src, step)
  /\ Owned(heap, handle)

-----------------------------------------------------------------------------
(* Places.                                                                 *)

\* Places of different kinds are different, and each is named by its kind.
LEMMA PlaceKinds ==
    ASSUME Sized, NEW pl \in Places
    PROVE  \/ pl[1] \in Parts /\ pl = Part(pl[1])
           \/ pl[1] = "original" /\ pl[2] \in 1..Elements /\ pl = Original(pl[2])
           \/ pl[1] = "spelling" /\ pl[2] \in 1..Elements /\ pl = Spelling(pl[2])
           \/ /\ pl[1] = "component" /\ pl[2] \in 1..Elements /\ pl[3] \in 1..MaxParts
              /\ pl = Component(pl[2], pl[3])
BY DEF Places, Part, Original, Spelling, Component

\* The places by kind: a field, a string of a record, a component of a group.
LEMMA PlacesOfKinds ==
    /\ \A p \in Parts : Part(p) \in Places /\ Part(p)[1] = p
    /\ \A i \in 1..Elements : Original(i) \in Places /\ Original(i)[1] = "original" /\ Original(i)[2] = i
    /\ \A i \in 1..Elements : Spelling(i) \in Places /\ Spelling(i)[1] = "spelling" /\ Spelling(i)[2] = i
    /\ \A g \in 1..Elements : \A c \in 1..MaxParts :
         /\ Component(g, c) \in Places /\ Component(g, c)[1] = "component"
         /\ Component(g, c)[2] = g /\ Component(g, c)[3] = c
BY DEF Places, Part, Original, Spelling, Component

\* No field is named like a string or a component.
LEMMA KindsDiffer ==
    Parts \cap {"original", "spelling", "component"} = {}
BY DEF Parts, Optional

\* The fields of a handle have their types.
LEMMA HandleFields ==
    ASSUME NEW x \in Handle
    PROVE  /\ x.at \in [Places -> {NoBlock} \union 1..Blocks]
           /\ x.records \in 0..Elements /\ x.recordCount \in 0..Elements
           /\ x.groups \in 0..Elements /\ x.groupCount \in 0..Elements
           /\ x.partCount \in [1..Elements -> 0..MaxParts]
           /\ x.compact \in BOOLEAN
BY DEF Handle

\* The empty handle is a handle that holds nothing.
LEMMA NoHandleIsOne ==
    ASSUME Sized
    PROVE  /\ NoHandle \in Handle
           /\ \A pl \in Places : ~Holds(NoHandle, pl)
           /\ Whole(NoHandle)
<1>1. NoHandle \in Handle
  <2>1. [pl \in Places |-> NoBlock] \in [Places -> {NoBlock} \union 1..Blocks]
    OBVIOUS
  <2>2. [g \in 1..Elements |-> 0] \in [1..Elements -> 0..MaxParts]
    BY DEF Sized
  <2>3. 0 \in 0..Elements
    BY DEF Sized
  <2>4. QED
    BY <2>1, <2>2, <2>3, Zenon DEF NoHandle, Handle
<1>2. \A pl \in Places : NoHandle.at[pl] = NoBlock
  BY DEF NoHandle
<1>3. \A pl \in Places : ~Holds(NoHandle, pl)
  BY <1>2 DEF Holds
<1>4. Trim(NoHandle, 0, 0)
  BY <1>2, PlacesOfKinds DEF Trim, NoHandle
<1>5. Counted(NoHandle) /\ Arrays(NoHandle)
  BY DEF Counted, Arrays, NoHandle
<1>6. QED
  BY <1>1, <1>3, <1>4, <1>5 DEF Whole

-----------------------------------------------------------------------------
(* What destroy reaches is what is held, once the counts reach it.         *)

\* release_contents frees exactly what a handle with true counts holds, but for
\* the handle itself.
LEMMA ReleasedIsHeld ==
    ASSUME Sized, NEW x \in Handle, Trim(x, 0, 0)
    PROVE  Released(x) = {pl \in Places : Holds(x, pl) /\ pl # Part("struct")}
<1>1. SUFFICES ASSUME NEW pl \in Places, x.at[pl] # NoBlock
      PROVE  Reached(x, pl) <=> Holds(x, pl) /\ pl # Part("struct")
  BY DEF Released, Holds
<1>2. CASE pl[1] \in Parts /\ pl = Part(pl[1])
  BY <1>1, <1>2, KindsDiffer DEF Reached, Holds, Part
<1>3. CASE pl[1] = "original" /\ pl[2] \in 1..Elements /\ pl = Original(pl[2])
  <2>1. pl[2] <= x.recordCount
    BY <1>1, <1>3, HandleFields DEF Trim
  <2>2. QED
    BY <1>1, <1>3, <2>1 DEF Reached, Holds, Part
<1>4. CASE pl[1] = "spelling" /\ pl[2] \in 1..Elements /\ pl = Spelling(pl[2])
  BY <1>1, <1>4 DEF Reached, Holds, Part
<1>5. CASE /\ pl[1] = "component" /\ pl[2] \in 1..Elements /\ pl[3] \in 1..MaxParts
           /\ pl = Component(pl[2], pl[3])
  <2>1. pl[3] <= x.partCount[pl[2]]
    BY <1>1, <1>5 DEF Trim
  <2>2. x.partCount[pl[2]] # 0
    BY <1>5, <2>1, HandleFields
  <2>3. pl[2] <= x.groupCount
    BY <1>5, <2>2, HandleFields DEF Trim
  <2>4. QED
    BY <1>1, <1>5, <2>1, <2>3 DEF Reached, Holds, Part
<1>6. QED
  BY <1>2, <1>3, <1>4, <1>5, PlaceKinds

\* ... and destroy frees that too.
LEMMA DestroyedIsHeld ==
    ASSUME Sized, NEW x \in Handle, Trim(x, 0, 0), x.at[Part("struct")] # NoBlock
    PROVE  Destroyed(x) = {pl \in Places : Holds(x, pl)}
<1>1. Part("struct") \in Places /\ Part("struct")[1] = "struct"
  BY PlacesOfKinds DEF Parts
<1>2. Holds(x, Part("struct"))
  BY <1>1 DEF Holds
<1>3. QED
  BY <1>1, <1>2, ReleasedIsHeld DEF Destroyed

-----------------------------------------------------------------------------
(* Ownership.  One handle changes at a time, except when contents move.    *)

\* y holds what x does, but for the places D.
Loses(x, y, D) ==
  \A pl \in Places :
    /\ Holds(y, pl) <=> Holds(x, pl) /\ pl \notin D
    /\ Holds(y, pl) => y.at[pl] = x.at[pl]

\* y holds what x does, and the block b at a place that x left empty.
Gains(x, y, pl, b) ==
  /\ Holds(y, pl) /\ ~Holds(x, pl) /\ y.at[pl] = b
  /\ \A q \in Places \ {pl} :
       /\ Holds(y, q) <=> Holds(x, q)
       /\ Holds(y, q) => y.at[q] = x.at[q]

HeldAt(x) == {pl \in Places : Holds(x, pl)}

\* Every place of D has a block of its own.
Apart(x, D) == \A pl, q \in D : x.at[pl] = x.at[q] => pl = q

\* When a handle loses what it holds at D, its blocks leave the heap.
LEMMA OwnerLoses ==
    ASSUME NEW B, NEW hd \in [Handles -> Handle], Owned(B, hd), NEW h \in Handles, NEW y,
           NEW D, D \subseteq HeldAt(hd[h]), Loses(hd[h], y, D)
    PROVE  /\ Owned(B \ BlocksAt(hd[h], D), [hd EXCEPT ![h] = y])
           /\ BlocksAt(hd[h], D) \subseteq B
           /\ Apart(hd[h], D)
<1> DEFINE new == [hd EXCEPT ![h] = y]
           C == B \ BlocksAt(hd[h], D)
<1>1. \A k \in Handles : new[k] = IF k = h THEN y ELSE hd[k]
  OBVIOUS
<1> HIDE DEF new
<1>2. \A k \in Handles : \A pl \in Places :
        /\ Holds(new[k], pl) <=> Holds(hd[k], pl) /\ ~(k = h /\ pl \in D)
        /\ Holds(new[k], pl) => new[k].at[pl] = hd[k].at[pl]
  BY <1>1 DEF Loses
<1>3. \A b : b \in BlocksAt(hd[h], D) <=> \E pl \in D : b = hd[h].at[pl]
  BY DEF BlocksAt
<1>4. \A pl \in D : pl \in Places /\ Holds(hd[h], pl)
  BY DEF HeldAt
<1>5. ASSUME NEW k \in Handles, NEW pl \in Places, Holds(new[k], pl)
      PROVE  new[k].at[pl] \in C
  <2>1. Holds(hd[k], pl) /\ ~(k = h /\ pl \in D) /\ new[k].at[pl] = hd[k].at[pl]
    BY <1>2, <1>5
  <2>2. hd[k].at[pl] \in B
    BY <2>1 DEF Owned
  <2>3. ASSUME NEW q \in D, hd[k].at[pl] = hd[h].at[q] PROVE FALSE
    BY <1>4, <2>1, <2>3 DEF Owned
  <2>4. QED
    BY <1>3, <2>1, <2>2, <2>3
<1>6. ASSUME NEW b \in C
      PROVE  \E k \in Handles : \E pl \in Places : Holds(new[k], pl) /\ new[k].at[pl] = b
  <2>1. PICK k \in Handles, pl \in Places : Holds(hd[k], pl) /\ hd[k].at[pl] = b
    BY <1>6 DEF Owned
  <2>2. ~(k = h /\ pl \in D)
    BY <1>3, <2>1
  <2>3. QED
    BY <1>2, <2>1, <2>2
<1>7. \A k, l \in Handles : \A pl, q \in Places :
        Holds(new[k], pl) /\ Holds(new[l], q) /\ new[k].at[pl] = new[l].at[q] => k = l /\ pl = q
  BY <1>2 DEF Owned
<1>8. Owned(C, new)
  BY <1>5, <1>6, <1>7 DEF Owned
<1>9. BlocksAt(hd[h], D) \subseteq B
  BY <1>3, <1>4 DEF Owned
<1>10. Apart(hd[h], D)
  BY <1>4 DEF Owned, Apart
<1>11. QED
  BY <1>8, <1>9, <1>10 DEF new

\* When a handle gains a block that was not in use, the block enters the heap.
LEMMA OwnerGains ==
    ASSUME NEW B, NEW hd \in [Handles -> Handle], Owned(B, hd), NEW h \in Handles, NEW y,
           NEW p \in Places, NEW b, b \notin B, Gains(hd[h], y, p, b)
    PROVE  Owned(B \union {b}, [hd EXCEPT ![h] = y])
<1> DEFINE new == [hd EXCEPT ![h] = y]
<1>1. \A k \in Handles : new[k] = IF k = h THEN y ELSE hd[k]
  OBVIOUS
<1> HIDE DEF new
<1>2. \A k \in Handles : \A pl \in Places :
        ~(k = h /\ pl = p) => /\ Holds(new[k], pl) <=> Holds(hd[k], pl)
                              /\ Holds(new[k], pl) => new[k].at[pl] = hd[k].at[pl]
  BY <1>1 DEF Gains
<1>3. Holds(new[h], p) /\ ~Holds(hd[h], p) /\ new[h].at[p] = b
  BY <1>1 DEF Gains
<1>4. ASSUME NEW k \in Handles, NEW pl \in Places, Holds(new[k], pl), ~(k = h /\ pl = p)
      PROVE  Holds(hd[k], pl) /\ new[k].at[pl] = hd[k].at[pl] /\ new[k].at[pl] \in B
  BY <1>2, <1>4 DEF Owned
<1>5. \A k \in Handles : \A pl \in Places : Holds(new[k], pl) => new[k].at[pl] \in B \union {b}
  BY <1>3, <1>4
<1>6. ASSUME NEW c \in B
      PROVE  \E k \in Handles : \E pl \in Places : Holds(new[k], pl) /\ new[k].at[pl] = c
  <2>1. PICK k \in Handles, pl \in Places : Holds(hd[k], pl) /\ hd[k].at[pl] = c
    BY <1>6 DEF Owned
  <2>2. QED
    BY <1>2, <1>3, <2>1
<1>7. ASSUME NEW k \in Handles, NEW l \in Handles, NEW pl \in Places, NEW q \in Places,
             Holds(new[k], pl), Holds(new[l], q), new[k].at[pl] = new[l].at[q]
      PROVE  k = l /\ pl = q
  <2>1. CASE (k = h /\ pl = p) \/ (l = h /\ q = p)
    BY <1>3, <1>4, <1>7, <2>1
  <2>2. CASE ~(k = h /\ pl = p) /\ ~(l = h /\ q = p)
    <3>1. Holds(hd[k], pl) /\ Holds(hd[l], q) /\ hd[k].at[pl] = hd[l].at[q]
      BY <1>4, <1>7, <2>2
    <3>2. QED
      BY <3>1 DEF Owned
  <2>3. QED
    BY <2>1, <2>2
<1>8. Owned(B \union {b}, new)
  <2>1. \A c \in B \union {b} : \E k \in Handles : \E pl \in Places : Holds(new[k], pl) /\ new[k].at[pl] = c
    BY <1>3, <1>6
  <2>2. QED
    BY <1>5, <1>7, <2>1 DEF Owned
<1>9. QED
  BY <1>8 DEF new

\* A handle that held nothing is given blocks nobody uses.
LEMMA OwnerArrives ==
    ASSUME NEW B, NEW hd \in [Handles -> Handle], Owned(B, hd), NEW h \in Handles, NEW y,
           \A pl \in Places : ~Holds(hd[h], pl),
           \A pl \in HeldAt(y) : y.at[pl] \notin B,
           Apart(y, HeldAt(y))
    PROVE  Owned(B \union BlocksAt(y, HeldAt(y)), [hd EXCEPT ![h] = y])
<1> DEFINE new == [hd EXCEPT ![h] = y]
           C == BlocksAt(y, HeldAt(y))
<1>1. \A k \in Handles : new[k] = IF k = h THEN y ELSE hd[k]
  OBVIOUS
<1>2. \A b : b \in C <=> \E pl \in Places : Holds(y, pl) /\ b = y.at[pl]
  BY DEF BlocksAt, HeldAt
<1>3. \A pl \in Places : Holds(y, pl) => y.at[pl] \notin B
  BY DEF HeldAt
<1>4. \A pl, q \in Places : Holds(y, pl) /\ Holds(y, q) /\ y.at[pl] = y.at[q] => pl = q
  BY DEF HeldAt, Apart
<1> HIDE DEF new, C
<1>5. \A k \in Handles : \A pl \in Places : Holds(new[k], pl) => new[k].at[pl] \in B \union C
  BY <1>1, <1>2 DEF Owned
<1>6. ASSUME NEW b \in B \union C
      PROVE  \E k \in Handles : \E pl \in Places : Holds(new[k], pl) /\ new[k].at[pl] = b
  <2>1. CASE b \in C
    BY <1>1, <1>2, <2>1
  <2>2. CASE b \in B
    <3>1. PICK k \in Handles, pl \in Places : Holds(hd[k], pl) /\ hd[k].at[pl] = b
      BY <2>2 DEF Owned
    <3>2. QED
      BY <1>1, <3>1
  <2>3. QED
    BY <2>1, <2>2
<1>7. ASSUME NEW k \in Handles, NEW l \in Handles, NEW pl \in Places, NEW q \in Places,
             Holds(new[k], pl), Holds(new[l], q), new[k].at[pl] = new[l].at[q]
      PROVE  k = l /\ pl = q
  <2>1. CASE k = h /\ l = h
    BY <1>1, <1>4, <1>7, <2>1
  <2>2. CASE k # h /\ l # h
    <3>1. Holds(hd[k], pl) /\ Holds(hd[l], q) /\ hd[k].at[pl] = hd[l].at[q]
      BY <1>1, <1>7, <2>2
    <3>2. QED
      BY <3>1 DEF Owned
  <2>3. CASE k = h /\ l # h
    <3>1. Holds(y, pl) /\ Holds(hd[l], q) /\ y.at[pl] = hd[l].at[q]
      BY <1>1, <1>7, <2>3
    <3>2. QED
      BY <1>3, <3>1 DEF Owned
  <2>4. CASE k # h /\ l = h
    <3>1. Holds(hd[k], pl) /\ Holds(y, q) /\ hd[k].at[pl] = y.at[q]
      BY <1>1, <1>7, <2>4
    <3>2. QED
      BY <1>3, <3>1 DEF Owned
  <2>5. QED
    BY <2>1, <2>2, <2>3, <2>4
<1>8. Owned(B \union C, new)
  BY <1>5, <1>6, <1>7 DEF Owned
<1>9. QED
  BY <1>8 DEF new, C
\* What one handle holds, besides itself, becomes another's.
Moves(hd, new, h, s) ==
  \A pl \in Places :
    /\ pl # s => /\ Holds(new["owner"], pl) <=> Holds(hd[h], pl)
                 /\ Holds(new["owner"], pl) => new["owner"].at[pl] = hd[h].at[pl]
                 /\ ~Holds(new[h], pl)
    /\ pl = s => /\ Holds(hd["owner"], pl)
                 /\ Holds(new["owner"], pl) <=> Holds(hd["owner"], pl)
                 /\ Holds(new["owner"], pl) => new["owner"].at[pl] = hd["owner"].at[pl]
                 /\ Holds(new[h], pl) <=> Holds(hd[h], pl)
                 /\ Holds(new[h], pl) => new[h].at[pl] = hd[h].at[pl]
    /\ Holds(hd["owner"], pl) => pl = s
SameElsewhere(hd, new, h) == \A k \in Handles : k # h /\ k # "owner" => new[k] = hd[k]

\* When a handle gives what it holds to the owner, all but at s, the heap stays.
LEMMA OwnerMoves ==
    ASSUME NEW B, NEW hd, Owned(B, hd), NEW h \in Handles, h # "owner", NEW new,
           NEW s \in Places, Moves(hd, new, h, s), SameElsewhere(hd, new, h)
    PROVE  Owned(B, new)
<1> DEFINE Was(k, pl) == IF k = "owner" /\ pl # s THEN h ELSE k
<1>1. "owner" \in Handles
  BY DEF Handles
<1>2. ASSUME NEW k \in Handles, NEW pl \in Places, Holds(new[k], pl)
      PROVE  /\ Was(k, pl) \in Handles /\ Holds(hd[Was(k, pl)], pl)
             /\ new[k].at[pl] = hd[Was(k, pl)].at[pl]
             /\ k = h => pl = s
  <2>1. CASE k = "owner"
    BY <1>2, <2>1 DEF Moves
  <2>2. CASE k = h
    BY <1>2, <2>2 DEF Moves
  <2>3. CASE k # "owner" /\ k # h
    BY <1>2, <2>3 DEF SameElsewhere
  <2>4. QED
    BY <2>1, <2>2, <2>3
<1>3. ASSUME NEW k \in Handles, NEW pl \in Places, Holds(hd[k], pl)
      PROVE  \E l \in Handles : Holds(new[l], pl) /\ new[l].at[pl] = hd[k].at[pl]
  <2>1. CASE k = h
    BY <1>1, <1>3, <2>1 DEF Moves
  <2>2. CASE k = "owner"
    BY <1>1, <1>3, <2>2 DEF Moves
  <2>3. CASE k # "owner" /\ k # h
    BY <1>3, <2>3 DEF SameElsewhere
  <2>4. QED
    BY <2>1, <2>2, <2>3
<1> HIDE DEF Was
<1>4. \A k \in Handles : \A pl \in Places : Holds(new[k], pl) => new[k].at[pl] \in B
  BY <1>2 DEF Owned
<1>5. ASSUME NEW b \in B
      PROVE  \E k \in Handles : \E pl \in Places : Holds(new[k], pl) /\ new[k].at[pl] = b
  <2>1. PICK k \in Handles, pl \in Places : Holds(hd[k], pl) /\ hd[k].at[pl] = b
    BY DEF Owned
  <2>2. QED
    BY <1>3, <2>1
<1>6. ASSUME NEW k \in Handles, NEW l \in Handles, NEW pl \in Places, NEW q \in Places,
             Holds(new[k], pl), Holds(new[l], q), new[k].at[pl] = new[l].at[q]
      PROVE  k = l /\ pl = q
  <2>1. Was(k, pl) = Was(l, q) /\ pl = q
    BY <1>2, <1>6 DEF Owned
  <2>2. (k = h => pl = s) /\ (l = h => q = s)
    BY <1>2, <1>6
  <2>3. QED
    BY <2>1, <2>2 DEF Was
<1>7. QED
  BY <1>4, <1>5, <1>6 DEF Owned

-----------------------------------------------------------------------------
(* Blocks and their numbers.                                               *)

\* A block that is allocated was not in use.
LEMMA NewBlockIsFree ==
    ASSUME Sized, heap \subseteq 1..Blocks, heap # 1..Blocks
    PROVE  NewBlock \in 1..Blocks /\ NewBlock \notin heap /\ NewBlock # NoBlock
<1> DEFINE S == 1..Blocks \ heap
<1>1. S # {} /\ S \subseteq Nat
  <2>1. 1..Blocks \subseteq Nat
    BY DEF Sized
  <2>2. QED
    BY <2>1
<1>2. PICK b \in S : \A c \in S : b <= c
  BY <1>1, LeastNatural
<1>3. NewBlock \in S
  BY <1>2 DEF NewBlock
<1>4. QED
  BY <1>3 DEF NoBlock, Sized

\* Rows of C cells do not overlap: the addresses of components.
LEMMA Rows ==
    ASSUME NEW C \in Nat \ {0}, NEW a \in Nat, NEW b \in Nat, NEW c \in 1..C, NEW d \in 1..C,
           a * C + c = b * C + d
    PROVE  a = b /\ c = d
<1>1. ASSUME NEW m \in Nat, NEW n \in Nat, NEW i \in 1..C, NEW j \in 1..C, m < n
      PROVE  m * C + i < n * C + j
  <2>1. PICK k \in Nat : n = m + 1 + k
    <3>1. n - m - 1 \in Nat /\ n = m + 1 + (n - m - 1)
      BY <1>1
    <3>2. QED
      BY <3>1
  <2>2. n * C = m * C + C + k * C /\ k * C \in Nat /\ m * C \in Nat
    BY <2>1
  <2>3. QED
    BY <2>2
<1>2. ~(a < b) /\ ~(b < a)
  <2>1. a * C + c \in Int /\ b * C + d \in Int
    OBVIOUS
  <2>2. QED
    BY <1>1, <2>1
<1>3. a = b
  BY <1>2
<1>4. a * C \in Int
  OBVIOUS
<1>5. QED
  BY <1>3, <1>4

\* Equal sums from the same start.
LEMMA SameOffset ==
    ASSUME NEW k \in Int, NEW a \in Int, NEW b \in Int, k + a = k + b
    PROVE  a = b
OBVIOUS

\* The place numbers by kind.
LEMMA NumberIsPositive ==
    ASSUME Sized, NEW pl \in Places
    PROVE  /\ Number(pl) \in Nat \ {0}
           /\ pl[1] \in Parts => Number(pl) <= 10
           /\ pl[1] = "original" => Number(pl) = 10 + pl[2]
           /\ pl[1] = "spelling" => Number(pl) = 10 + Elements + pl[2]
           /\ pl[1] = "component" =>
                Number(pl) = 10 + 2 * Elements + (pl[2] - 1) * MaxParts + pl[3]
<1>1. CASE pl[1] \in Parts
  <2>1. Number(pl) = PartNumber[pl[1]]
    BY <1>1, KindsDiffer DEF Number
  <2>2. PartNumber[pl[1]] \in 1..10
    BY <1>1 DEF PartNumber, Parts, Optional
  <2>3. QED
    BY <1>1, <2>1, <2>2, KindsDiffer
<1>2. CASE pl[1] = "original" /\ pl[2] \in 1..Elements
  <2>1. Number(pl) = 10 + pl[2]
    BY <1>2, KindsDiffer DEF Number
  <2>2. QED
    BY <1>2, <2>1, KindsDiffer DEF Sized
<1>3. CASE pl[1] = "spelling" /\ pl[2] \in 1..Elements
  <2>1. Number(pl) = 10 + Elements + pl[2]
    BY <1>3, KindsDiffer DEF Number
  <2>2. QED
    BY <1>3, <2>1, KindsDiffer DEF Sized
<1>4. CASE pl[1] = "component" /\ pl[2] \in 1..Elements /\ pl[3] \in 1..MaxParts
  <2>1. Number(pl) = 10 + 2 * Elements + (pl[2] - 1) * MaxParts + pl[3]
    BY <1>4, KindsDiffer DEF Number
  <2>2. (pl[2] - 1) * MaxParts \in Nat
    BY <1>4 DEF Sized
  <2>3. QED
    BY <1>4, <2>1, <2>2, KindsDiffer DEF Sized
<1>5. QED
  BY <1>1, <1>2, <1>3, <1>4, PlaceKinds

\* Two places of a parsed handle never have the same address.
LEMMA NumbersDiffer ==
    ASSUME Sized, NEW pl \in Places, NEW q \in Places, NEW n \in Nat,
           Number(pl) = n, Number(q) = n
    PROVE  pl = q
<1> DEFINE Row(r) == (r[2] - 1) * MaxParts
<1>0. Elements \in Nat
  BY DEF Sized
<1>1. \A r \in Places : r[1] = "component" =>
        /\ Row(r) \in Nat /\ r[2] \in 1..Elements /\ r[3] \in 1..MaxParts
        /\ Number(r) = 10 + 2 * Elements + Row(r) + r[3]
  <2>1. SUFFICES ASSUME NEW r \in Places, r[1] = "component"
        PROVE  /\ Row(r) \in Nat /\ r[2] \in 1..Elements /\ r[3] \in 1..MaxParts
               /\ Number(r) = 10 + 2 * Elements + Row(r) + r[3]
    OBVIOUS
  <2>2. r[2] \in 1..Elements /\ r[3] \in 1..MaxParts
    BY <2>1, PlaceKinds, KindsDiffer
  <2>3. QED
    BY <2>1, <2>2, NumberIsPositive DEF Sized
<1> HIDE DEF Row
<1>2. \A r \in Places :
        \/ r[1] \in Parts /\ Number(r) <= 10 /\ r = Part(r[1]) /\ Number(r) = PartNumber[r[1]]
        \/ /\ r[1] = "original" /\ r[2] \in 1..Elements /\ Number(r) = 10 + r[2] /\ r = Original(r[2])
        \/ /\ r[1] = "spelling" /\ r[2] \in 1..Elements /\ Number(r) = 10 + Elements + r[2]
           /\ r = Spelling(r[2])
        \/ /\ r[1] = "component" /\ Number(r) > 10 + 2 * Elements /\ r = Component(r[2], r[3])
  <2>1. SUFFICES ASSUME NEW r \in Places
        PROVE
        \/ r[1] \in Parts /\ Number(r) <= 10 /\ r = Part(r[1]) /\ Number(r) = PartNumber[r[1]]
        \/ /\ r[1] = "original" /\ r[2] \in 1..Elements /\ Number(r) = 10 + r[2] /\ r = Original(r[2])
        \/ /\ r[1] = "spelling" /\ r[2] \in 1..Elements /\ Number(r) = 10 + Elements + r[2]
           /\ r = Spelling(r[2])
        \/ /\ r[1] = "component" /\ Number(r) > 10 + 2 * Elements /\ r = Component(r[2], r[3])
    OBVIOUS
  <2>2. CASE r[1] \in Parts /\ r = Part(r[1])
    <3>1. Number(r) = PartNumber[r[1]]
      BY <2>2, KindsDiffer DEF Number
    <3>2. QED
      BY <2>2, <3>1, NumberIsPositive
  <2>3. CASE r[1] = "original" /\ r[2] \in 1..Elements /\ r = Original(r[2])
    BY <2>3, NumberIsPositive
  <2>4. CASE r[1] = "spelling" /\ r[2] \in 1..Elements /\ r = Spelling(r[2])
    BY <2>4, NumberIsPositive
  <2>5. CASE r[1] = "component" /\ r[3] \in 1..MaxParts /\ r = Component(r[2], r[3])
    BY <1>1, <2>5 DEF Sized
  <2>6. QED
    BY <2>2, <2>3, <2>4, <2>5, PlaceKinds
<1>3. CASE pl[1] \in Parts
  <2>1. n <= 10 /\ pl = Part(pl[1]) /\ n = PartNumber[pl[1]]
    BY <1>2, <1>3, KindsDiffer
  <2>2. q[1] \in Parts
    <3>1. n <= 10
      BY <1>0, <2>1
    <3>2. QED
      BY <1>0, <1>1, <1>2, <3>1
  <2>3. q = Part(q[1]) /\ n = PartNumber[q[1]]
    BY <1>2, <2>2, KindsDiffer
  <2>4. \A p, r \in Parts : PartNumber[p] = PartNumber[r] => p = r
    BY DEF PartNumber, Parts, Optional
  <2>5. pl[1] = q[1]
    BY <1>3, <2>1, <2>2, <2>3, <2>4
  <2>6. QED
    BY <2>1, <2>3, <2>5
<1>4. CASE pl[1] = "original"
  <2>1. pl[2] \in 1..Elements /\ n = 10 + pl[2] /\ pl = Original(pl[2])
    BY <1>2, <1>4, KindsDiffer
  <2>2. n \in 11..(10 + Elements)
    BY <1>0, <2>1
  <2>3. n = 10 + q[2] /\ q[2] \in 1..Elements /\ q = Original(q[2])
    BY <1>0, <1>1, <1>2, <2>2
  <2>4. 10 + pl[2] = 10 + q[2] /\ pl[2] \in Int /\ q[2] \in Int
    BY <1>0, <2>1, <2>3
  <2>5. pl[2] = q[2]
    BY <2>4, SameOffset
  <2>6. QED
    BY <2>1, <2>3, <2>5
<1>5. CASE pl[1] = "spelling"
  <2>1. pl[2] \in 1..Elements /\ n = 10 + Elements + pl[2] /\ pl = Spelling(pl[2])
    BY <1>2, <1>5, KindsDiffer
  <2>2. n \in (11 + Elements)..(10 + 2 * Elements)
    BY <1>0, <2>1
  <2>3. n = 10 + Elements + q[2] /\ q[2] \in 1..Elements /\ q = Spelling(q[2])
    BY <1>0, <1>1, <1>2, <2>2
  <2>4. 10 + Elements + pl[2] = 10 + Elements + q[2] /\ pl[2] \in Int /\ q[2] \in Int
    BY <1>0, <2>1, <2>3
  <2>5. pl[2] = q[2]
    BY <1>0, <2>4, SameOffset
  <2>6. QED
    BY <2>1, <2>3, <2>5
<1>6. CASE pl[1] = "component"
  <2>1. n > 10 + 2 * Elements /\ pl = Component(pl[2], pl[3])
    BY <1>2, <1>6, KindsDiffer
  <2>2. q[1] = "component" /\ q = Component(q[2], q[3])
    BY <1>0, <1>2, <2>1
  <2>3. /\ n = 10 + 2 * Elements + Row(pl) + pl[3] /\ Row(pl) \in Nat
        /\ n = 10 + 2 * Elements + Row(q) + q[3] /\ Row(q) \in Nat
        /\ pl[2] \in 1..Elements /\ pl[3] \in 1..MaxParts
        /\ q[2] \in 1..Elements /\ q[3] \in 1..MaxParts
    BY <1>1, <1>6, <2>2
  <2>4. Row(pl) + pl[3] = Row(q) + q[3]
    BY <1>0, <2>3
  <2>5. PICK a \in Nat, b \in Nat : a = pl[2] - 1 /\ b = q[2] - 1
    <3>1. pl[2] - 1 \in Nat /\ q[2] - 1 \in Nat
      BY <1>0, <2>3
    <3>2. QED
      BY <3>1
  <2>6. Row(pl) = a * MaxParts /\ Row(q) = b * MaxParts
    BY <2>5 DEF Row
  <2>7. a = b /\ pl[3] = q[3]
    <3>1. a * MaxParts + pl[3] = b * MaxParts + q[3]
      BY <2>4, <2>6
    <3>2. QED
      BY <2>3, <3>1, Rows DEF Sized
  <2>8. pl[2] = q[2]
    BY <1>0, <2>3, <2>5, <2>7
  <2>9. QED
    BY <2>1, <2>2, <2>7, <2>8
<1>7. QED
  BY <1>2, <1>3, <1>4, <1>5, <1>6
\* A parsed handle holds what its shape fills, each block under its number.
LEMMA ParsedPlaces ==
    ASSUME Sized, NEW s, IsShape(s), NEW n \in Nat, NEW pl \in Places
    PROVE  /\ Fills(s, pl) => Parsed(s, n).at[pl] = n + Number(pl)
           /\ ~Fills(s, pl) /\ pl # Part("parser") => Parsed(s, n).at[pl] = NoBlock
           /\ ~Fills(s, pl) /\ pl = Part("parser") =>
                Parsed(s, n).at[pl] = Parsed(s, n).at[Part("sql")]
           /\ n + Number(pl) \in Nat /\ n + Number(pl) # NoBlock
<1>1. Part("sql") \in Places /\ Fills(s, Part("sql"))
  BY PlacesOfKinds DEF Fills, Part, Parts, Optional
<1>2. \A q \in Places : Parsed(s, n).at[q] = IF Fills(s, q) THEN n + Number(q)
             ELSE IF q = Part("parser") THEN n + Number(Part("sql")) ELSE NoBlock
  BY DEF Parsed
<1>3. n + Number(pl) \in Nat /\ n + Number(pl) # NoBlock
  BY NumberIsPositive DEF NoBlock
<1>4. QED
  BY <1>1, <1>2, <1>3

\* The counts of a parsed handle are those of its shape.
LEMMA ParsedCounts ==
    ASSUME Sized, NEW s, IsShape(s), NEW n
    PROVE  /\ Parsed(s, n).records = s.records /\ Parsed(s, n).recordCount = s.records
           /\ Parsed(s, n).groups = s.groups /\ Parsed(s, n).groupCount = s.groups
           /\ \A g \in 1..Elements :
                Parsed(s, n).partCount[g] = IF g <= s.groups THEN s.parts[g] ELSE 0
           /\ s.records \in 0..Elements /\ s.groups \in 0..Elements
           /\ s.parts \in [1..Elements -> 0..MaxParts]
           /\ Parsed(s, n).compact \in BOOLEAN
BY DEF Parsed, IsShape

\* A parsed handle holds the places its shape fills, and destroy reaches them.
LEMMA ParsedHolds ==
    ASSUME Sized, NEW s, IsShape(s), NEW n \in Nat, NEW pl \in Places
    PROVE  /\ Holds(Parsed(s, n), pl) <=> Fills(s, pl)
           /\ Fills(s, pl) => pl \in Destroyed(Parsed(s, n))
<1>1. Part("sql") \in Places /\ Fills(s, Part("sql"))
  BY PlacesOfKinds DEF Fills, Part, Parts, Optional
<1>2. ASSUME Fills(s, pl), pl[1] = "parser"
      PROVE  Parsed(s, n).at[pl] # Parsed(s, n).at[Part("sql")]
  <2>1. Number(pl) \in Nat /\ Number(Part("sql")) \in Nat
    BY <1>1, NumberIsPositive
  <2>2. pl # Part("sql")
    BY <1>2 DEF Part
  <2>3. Number(pl) # Number(Part("sql"))
    BY <1>1, <2>1, <2>2, NumbersDiffer
  <2>4. n + Number(pl) # n + Number(Part("sql"))
    BY <2>1, <2>3
  <2>5. QED
    BY <1>1, <1>2, <2>4, ParsedPlaces
<1>3. ASSUME Fills(s, pl) PROVE Reached(Parsed(s, n), pl) \/ pl = Part("struct")
  <2>1. pl[1] = "component" => pl[2] \in 1..Elements
    BY PlaceKinds, KindsDiffer
  <2>2. pl[1] = "component" => pl[3] <= Parsed(s, n).partCount[pl[2]]
    BY <1>3, <2>1, ParsedCounts DEF Fills
  <2>3. pl[1] = "struct" => pl = Part("struct")
    BY PlaceKinds
  <2>4. QED
    BY <1>2, <1>3, <2>2, <2>3, ParsedCounts DEF Fills, Reached
<1>4. Fills(s, pl) => Holds(Parsed(s, n), pl)
  BY <1>2, ParsedPlaces, ParsedCounts DEF Fills, Holds
<1>5. ~Fills(s, pl) => ~Holds(Parsed(s, n), pl)
  <2>1. Part("parser")[1] = "parser"
    BY DEF Part
  <2>2. QED
    BY <2>1, ParsedPlaces DEF Holds
<1>6. Fills(s, pl) => pl \in Destroyed(Parsed(s, n))
  BY <1>3, ParsedPlaces DEF Destroyed, Released
<1>7. QED
  BY <1>4, <1>5, <1>6

\* The counts of a parsed handle reach all it holds.
LEMMA ParsedIsWhole ==
    ASSUME Sized, NEW s, IsShape(s), NEW n \in Nat
    PROVE  Whole(Parsed(s, n)) /\ Parsed(s, n).at[Part("struct")] # NoBlock
<1> DEFINE x == Parsed(s, n)
<1>1. \A pl \in Places : pl[1] # "parser" /\ x.at[pl] # NoBlock => Fills(s, pl)
  BY ParsedPlaces DEF Part
<1>2. \A p \in {"records", "groups", "struct"} : Part(p) \in Places /\ Part(p)[1] = p
  BY PlacesOfKinds DEF Parts
<1>3. Counted(x)
  BY ParsedCounts DEF Counted
<1>4. Arrays(x)
  <2>1. s.records # 0 => Fills(s, Part("records"))
    BY DEF Fills, Part, Optional
  <2>2. s.groups # 0 => Fills(s, Part("groups"))
    BY DEF Fills, Part, Optional
  <2>3. s.records # 0 => x.at[Part("records")] # NoBlock
    BY <1>2, <2>1, ParsedPlaces
  <2>4. s.groups # 0 => x.at[Part("groups")] # NoBlock
    BY <1>2, <2>2, ParsedPlaces
  <2>5. x.records = s.records /\ x.groups = s.groups
    BY ParsedCounts
  <2>6. QED
    BY <2>3, <2>4, <2>5 DEF Arrays
<1>5. Fills(s, Part("struct"))
  BY DEF Fills, Part, Optional
<1>6. x.at[Part("struct")] # NoBlock
  BY <1>2, <1>5, ParsedPlaces
<1>7. \A i \in 1..Elements : x.at[Original(i)] # NoBlock => i <= x.recordCount + 0
  <2>1. SUFFICES ASSUME NEW i \in 1..Elements, x.at[Original(i)] # NoBlock
        PROVE  i <= x.recordCount + 0
    OBVIOUS
  <2>2. Fills(s, Original(i))
    BY <1>1, <2>1, PlacesOfKinds
  <2>3. i <= s.records
    BY <2>2, PlacesOfKinds DEF Fills
  <2>4. QED
    BY <2>1, <2>3, ParsedCounts DEF Sized
<1>8. ASSUME NEW g \in 1..Elements, NEW c \in 1..MaxParts, x.at[Component(g, c)] # NoBlock
      PROVE  c <= x.partCount[g]
  <2>1. Fills(s, Component(g, c))
    BY <1>1, <1>8, PlacesOfKinds
  <2>2. g <= s.groups /\ c <= s.parts[g]
    BY <2>1, PlacesOfKinds DEF Fills
  <2>3. QED
    BY <2>2, ParsedCounts
<1>9. \A g \in 1..Elements : x.partCount[g] # 0 => g <= x.groupCount + 0
  BY ParsedCounts DEF Sized
<1>10. Trim(x, 0, 0)
  BY <1>7, <1>8, <1>9 DEF Trim
<1>11. QED
  BY <1>3, <1>4, <1>6, <1>10 DEF Whole

\* A parsed handle whose blocks are in the heap is a handle.
LEMMA ParsedIsTyped ==
    ASSUME Sized, NEW s, IsShape(s), NEW n \in Nat,
           BlocksAt(Parsed(s, n), Destroyed(Parsed(s, n))) \subseteq 1..Blocks
    PROVE  Parsed(s, n) \in Handle
<1> DEFINE x == Parsed(s, n)
<1>1. \A pl \in Places : Fills(s, pl) => x.at[pl] \in 1..Blocks
  BY ParsedHolds DEF BlocksAt
<1>2. \A pl \in Places : x.at[pl] \in {NoBlock} \union 1..Blocks
  <2>1. Part("sql") \in Places /\ Fills(s, Part("sql"))
    BY PlacesOfKinds DEF Fills, Part, Parts, Optional
  <2>2. QED
    BY <1>1, <2>1, ParsedPlaces
<1>3. x.at \in [Places -> {NoBlock} \union 1..Blocks]
  <2>1. x.at = [pl \in Places |-> x.at[pl]]
    BY DEF Parsed
  <2>2. QED
    BY <1>2, <2>1
<1>4. x.partCount \in [1..Elements -> 0..MaxParts]
  <2>1. x.partCount = [g \in 1..Elements |-> x.partCount[g]]
    BY DEF Parsed
  <2>2. \A g \in 1..Elements : x.partCount[g] \in 0..MaxParts
    BY ParsedCounts DEF Sized
  <2>3. QED
    BY <2>1, <2>2
<1>5. x = [at |-> x.at, compact |-> x.compact, records |-> x.records,
           recordCount |-> x.recordCount, groups |-> x.groups, groupCount |-> x.groupCount,
           partCount |-> x.partCount]
  BY DEF Parsed
<1>6. x.compact \in BOOLEAN /\ x.records \in 0..Elements /\ x.recordCount \in 0..Elements
      /\ x.groups \in 0..Elements /\ x.groupCount \in 0..Elements
  BY ParsedCounts
<1> HIDE DEF x
<1>7. x \in Handle
  BY <1>3, <1>4, <1>5, <1>6, ZenonT(40) DEF Handle
<1>8. QED
  BY <1>7 DEF x
-----------------------------------------------------------------------------
(* The order of the copy.                                                  *)

\* The order in which a copy takes its parts.
LEMMA OrderPositions ==
    /\ Len(Order) = 11 /\ DOMAIN Order = 1..11
    /\ \A k \in 1..11 : Pos[Order[k]] = k /\ Order[k] # "spelling" /\ Order[k] # "idle"
    /\ \A k, l \in 1..11 : Order[k] = Order[l] => k = l
    /\ Order[7] = "original" /\ Order[9] = "component"
    /\ \A k \in 1..11 : k # 7 /\ k # 9 => Order[k] \in Parts \ {"struct"}
BY DEF Order, Pos, Parts, Optional

\* The position of every part.
LEMMA PositionsInOrder ==
    /\ \A p \in Parts \ {"struct"} : Pos[p] \in 1..11 /\ Order[Pos[p]] = p
    /\ Pos["original"] = 7 /\ Pos["spelling"] = 7 /\ Pos["component"] = 9
    /\ \A p \in Parts \ {"struct"} : Pos[p] # 7 /\ Pos[p] # 9
    /\ Pos["sql"] = 1 /\ Pos["parser"] = 2 /\ Pos["records"] = 6 /\ Pos["groups"] = 8
BY DEF Order, Pos, Parts, Optional

\* A step copies a part, a string or a component.
LEMMA StepNames ==
    ASSUME NEW p \in Steps
    PROVE  \/ p = "idle" \/ p = "original" \/ p = "spelling" \/ p = "component"
           \/ p \in Parts \ {"struct"}
BY OrderPositions DEF Steps

\* What is in the order is a step.
LEMMA PartsAreSteps ==
    /\ \A k \in 1..11 : Order[k] \in Steps
    /\ "spelling" \in Steps /\ "idle" \in Steps
BY OrderPositions DEF Steps

\* A step is found where it stands in the order.
LEMMA IndexIsPosition ==
    ASSUME NEW k \in 1..11
    PROVE  IndexOfStep(Order[k]) = k
BY OrderPositions DEF IndexOfStep

\* The copy goes on with the first step that has something to copy.
LEMMA NextStepIsFirstWanted ==
    ASSUME NEW i \in 1..12, NEW x
    PROVE  \/ /\ NextStep(i, x) = "idle"
              /\ \A k \in i..11 : ~Wanted(Order[k], x)
           \/ \E j \in i..11 : /\ NextStep(i, x) = Order[j] /\ Wanted(Order[j], x)
                               /\ \A k \in i..(j - 1) : ~Wanted(Order[k], x)
<1> DEFINE left == {j \in i..Len(Order) : Wanted(Order[j], x)}
<1>1. NextStep(i, x) =
        IF left = {} THEN "idle" ELSE Order[CHOOSE j \in left : \A l \in left : j <= l]
  BY DEF NextStep
<1>2. \A j : j \in left <=> j \in i..11 /\ Wanted(Order[j], x)
  BY OrderPositions
<1> HIDE DEF left
<1>3. CASE left = {}
  BY <1>1, <1>2, <1>3
<1>4. CASE left # {}
  <2>1. left \in SUBSET Nat
    BY <1>2
  <2>2. PICK j \in left : \A l \in left : j <= l
    BY <1>4, <2>1, LeastNatural
  <2>3. \A m \in left : (\A l \in left : m <= l) => m = j
    BY <2>1, <2>2
  <2>4. NextStep(i, x) = Order[j]
    BY <1>1, <1>4, <2>2, <2>3
  <2>5. \A k \in i..(j - 1) : k \notin left
    BY <2>1, <2>2
  <2>6. j \in i..11 /\ \A k \in i..(j - 1) : k \in i..11
    BY <1>2, <2>2
  <2>7. QED
    BY <1>2, <2>2, <2>4, <2>5, <2>6
<1>5. QED
  BY <1>3, <1>4

\* When a step has something to copy, by kind.
LEMMA WantedIs ==
    ASSUME NEW x
    PROVE  /\ Wanted("original", x) <=> x.recordCount < Src.records
           /\ Wanted("component", x) <=> x.groupCount < Src.groups
           /\ Wanted("parser", x) <=> x.at[Part("parser")] = NoBlock
           /\ \A p \in Parts \ {"struct", "parser"} : Wanted(p, x) <=> Src.at[Part(p)] # NoBlock
BY KindsDiffer DEF Wanted

\* Steps with nothing to copy may be passed over.
LEMMA PassedOver ==
    ASSUME Sized, NEW x \in Handle, Src \in Handle, Arrays(Src),
           NEW i \in 2..12, NEW j \in i..12, Done(x, Src, i),
           \A k \in i..(j - 1) : ~Wanted(Order[k], x)
    PROVE  Done(x, Src, j)
<1>1. /\ x.records \in Nat /\ x.recordCount \in Nat /\ x.groups \in Nat /\ x.groupCount \in Nat
      /\ Src.records \in Nat /\ Src.groups \in Nat
  BY HandleFields DEF Sized
<1>2. i <= 6 /\ 6 < j => Src.records = 0
  <2>1. SUFFICES ASSUME i <= 6, 6 < j PROVE Src.records = 0
    OBVIOUS
  <2>2. ~Wanted("records", x) /\ "records" \in Parts \ {"struct", "parser"}
    BY <2>1 DEF Order, Parts
  <2>3. QED
    BY <2>2, WantedIs DEF Arrays
<1>3. i <= 7 /\ 7 < j => ~(x.recordCount < Src.records)
  <2>1. SUFFICES ASSUME i <= 7, 7 < j PROVE ~(x.recordCount < Src.records)
    OBVIOUS
  <2>2. ~Wanted("original", x)
    BY <2>1 DEF Order
  <2>3. QED
    BY <2>2, WantedIs
<1>4. i <= 8 /\ 8 < j => Src.groups = 0
  <2>1. SUFFICES ASSUME i <= 8, 8 < j PROVE Src.groups = 0
    OBVIOUS
  <2>2. ~Wanted("groups", x) /\ "groups" \in Parts \ {"struct", "parser"}
    BY <2>1 DEF Order, Parts
  <2>3. QED
    BY <2>2, WantedIs DEF Arrays
<1>5. i <= 9 /\ 9 < j => ~(x.groupCount < Src.groups)
  <2>1. SUFFICES ASSUME i <= 9, 9 < j PROVE ~(x.groupCount < Src.groups)
    OBVIOUS
  <2>2. ~Wanted("component", x)
    BY <2>1 DEF Order
  <2>3. QED
    BY <2>2, WantedIs
<1>6. \A p \in Parts \ {"struct", "parser"} : j <= Pos[p] => i <= Pos[p]
  BY PositionsInOrder
<1>7. QED
  BY <1>1, <1>2, <1>3, <1>4, <1>5, <1>6 DEF Done

\* Groups without parts are counted as they are met.
LEMMA HolesSkipped ==
    ASSUME Sized, NEW x \in Handle, Src \in Handle, Done(x, Src, 9)
    PROVE  \E n \in x.groupCount..Src.groups :
             /\ SkipHoles(x) = [x EXCEPT !.groupCount = n]
             /\ n < Src.groups => Src.partCount[n + 1] > 0
             /\ x.groupCount < Src.groups /\ Src.partCount[x.groupCount + 1] > 0
                => n = x.groupCount
<1> DEFINE full == {g \in (x.groupCount + 1)..Src.groups : Src.partCount[g] > 0}
           n == IF x.groups = 0 THEN 0
                ELSE IF full = {} THEN Src.groups
                ELSE (CHOOSE g \in full : \A f \in full : g <= f) - 1
<1>1. SkipHoles(x) = [x EXCEPT !.groupCount = n]
  BY DEF SkipHoles
<1>2. x.groups = Src.groups /\ x.groupCount \in Nat /\ Src.groups \in Nat /\ x.groupCount <= Src.groups
  BY HandleFields DEF Done, Sized
<1>3. \A g : g \in full <=> g \in (x.groupCount + 1)..Src.groups /\ Src.partCount[g] > 0
  OBVIOUS
<1>4. x.groups # 0 /\ full # {} => n = (CHOOSE g \in full : \A f \in full : g <= f) - 1
  OBVIOUS
<1>5. x.groups = 0 => n = 0
  OBVIOUS
<1>6. x.groups # 0 /\ full = {} => n = Src.groups
  OBVIOUS
<1> HIDE DEF full, n
<1>7. CASE x.groups = 0
  BY <1>1, <1>2, <1>5, <1>7
<1>8. CASE x.groups # 0 /\ full = {}
  <2>1. x.groupCount < Src.groups => ~(Src.partCount[x.groupCount + 1] > 0)
    BY <1>2, <1>3, <1>8
  <2>2. n \in x.groupCount..Src.groups /\ ~(n < Src.groups)
    BY <1>2, <1>6, <1>8
  <2>3. QED
    BY <1>1, <2>1, <2>2
<1>9. CASE x.groups # 0 /\ full # {}
  <2>1. full \in SUBSET Nat
    BY <1>2, <1>3
  <2>2. PICK m \in full : \A f \in full : m <= f
    BY <1>9, <2>1, LeastNatural
  <2>3. \A g \in full : (\A f \in full : g <= f) => g = m
    BY <2>1, <2>2
  <2>4. (CHOOSE g \in full : \A f \in full : g <= f) = m
    BY <2>2, <2>3
  <2>5. n = m - 1 /\ m \in (x.groupCount + 1)..Src.groups /\ Src.partCount[m] > 0
    BY <1>3, <1>4, <1>9, <2>2, <2>4
  <2>6. n \in x.groupCount..Src.groups /\ n + 1 = m
    BY <1>2, <2>5
  <2>7. ASSUME x.groupCount < Src.groups, Src.partCount[x.groupCount + 1] > 0
        PROVE  n = x.groupCount
    <3>1. x.groupCount + 1 \in full
      BY <1>2, <1>3, <2>7
    <3>2. m <= x.groupCount + 1
      BY <2>2, <3>1
    <3>3. QED
      BY <1>2, <2>5, <3>2
  <2>8. QED
    BY <1>1, <2>5, <2>6, <2>7
<1>10. QED
  BY <1>7, <1>8, <1>9
-----------------------------------------------------------------------------
(* One more block for the copy.                                            *)

\* Counts that reach everything reach all but one group.
LEMMA TrimGrows ==
    ASSUME Sized, NEW x \in Handle, Trim(x, 0, 0)
    PROVE  Trim(x, 0, 1)
<1>1. x.groupCount \in Int /\ x.recordCount \in Int
  BY HandleFields DEF Sized
<1>2. QED
  BY <1>1 DEF Trim, Sized

\* The group the copy is at has fewer components than the original's.
Unfinished(x) ==
  /\ x.groupCount < Src.groups
  /\ x.partCount[x.groupCount + 1] < Src.partCount[x.groupCount + 1]

\* What remains of a copy is the same, but for the groups it has counted.
SameBut(x, y) ==
  /\ y \in Handle
  /\ y.at = x.at /\ y.records = x.records /\ y.recordCount = x.recordCount
  /\ y.groups = x.groups /\ y.partCount = x.partCount /\ y.compact = x.compact

Ready(y, i) ==
  /\ Done(y, Src, i)
  /\ Trim(y, 0, 1)
  /\ i = 9 /\ y.groupCount < Src.groups => Unfinished(y)
  /\ ~(i = 9 /\ y.groupCount < Src.groups) => Trim(y, 0, 0)

\* Groups without components are counted as they are met, none with
\* components is (sqlparser_handle_clone).
LEMMA ReadyAfterHoles ==
    ASSUME Sized, NEW x \in Handle, Src \in Handle, Done(x, Src, 9),
           Trim(x, 0, 0) \/ (Trim(x, 0, 1) /\ Unfinished(x))
    PROVE  SameBut(x, SkipHoles(x)) /\ Ready(SkipHoles(x), 9)
<1>1. /\ x.groupCount \in Nat /\ Src.groups \in 0..Elements /\ x.recordCount \in Int
      /\ x.groups = Src.groups /\ x.groupCount <= Src.groups
      /\ x.partCount \in [1..Elements -> 0..MaxParts]
      /\ Src.partCount \in [1..Elements -> 0..MaxParts]
  <2>1. /\ x.groupCount \in 0..Elements /\ Src.groups \in 0..Elements /\ x.recordCount \in 0..Elements
        /\ x.partCount \in [1..Elements -> 0..MaxParts]
        /\ Src.partCount \in [1..Elements -> 0..MaxParts]
    BY HandleFields
  <2>2. x.groups = Src.groups /\ x.groupCount <= x.groups
    BY DEF Done
  <2>3. QED
    BY <2>1, <2>2 DEF Sized
<1>2. PICK n \in x.groupCount..Src.groups :
             /\ SkipHoles(x) = [x EXCEPT !.groupCount = n]
             /\ n < Src.groups => Src.partCount[n + 1] > 0
             /\ x.groupCount < Src.groups /\ Src.partCount[x.groupCount + 1] > 0
                => n = x.groupCount
  BY HolesSkipped
<1> DEFINE y == [x EXCEPT !.groupCount = n]
<1>3. SameBut(x, y) /\ y.groupCount = n
  <2>1. n \in 0..Elements
    BY <1>1 DEF Sized
  <2>2. y \in Handle
    BY <2>1, ZenonT(40) DEF Handle
  <2>3. y.groupCount = n
    BY DEF Handle
  <2>4. QED
    BY <2>2, <2>3 DEF SameBut, Handle
<1> HIDE DEF y
<1>4. n \in Int /\ x.groupCount <= n /\ n <= Src.groups
  BY <1>1
<1>5. Done(y, Src, 9)
  <2>1. Arrays(y)
    BY <1>3 DEF SameBut, Arrays, Done
  <2>2. QED
    BY <1>1, <1>3, <1>4, <2>1 DEF Done, SameBut
<1>6. ASSUME Trim(x, 0, 0)
      PROVE  Trim(y, 0, 0) /\ (n < Src.groups => Unfinished(y))
  <2>1. Trim(y, 0, 0)
    BY <1>1, <1>3, <1>4, <1>6 DEF Trim, SameBut, Sized
  <2>2. ASSUME n < Src.groups PROVE Unfinished(y)
    <3>1. n + 1 \in 1..Elements /\ ~(n + 1 <= n + 0)
      BY <1>1, <1>4, <2>2 DEF Sized
    <3>2. y.partCount[n + 1] = 0
      BY <1>3, <2>1, <3>1 DEF Trim
    <3>3. QED
      BY <1>2, <1>3, <2>2, <3>2 DEF Unfinished
  <2>3. QED
    BY <2>1, <2>2
<1>7. ASSUME Trim(x, 0, 1), Unfinished(x)
      PROVE  Trim(y, 0, 1) /\ n < Src.groups /\ Unfinished(y)
  <2>1. x.groupCount + 1 \in 1..Elements
    <3>1. x.groupCount \in Nat /\ Src.groups \in 0..Elements
      BY <1>1
    <3>2. x.groupCount < Src.groups
      BY <1>7 DEF Unfinished
    <3>3. QED
      BY <3>1, <3>2 DEF Sized
  <2>2. Src.partCount[x.groupCount + 1] > 0
    <3>1. x.partCount[x.groupCount + 1] \in 0..MaxParts /\ Src.partCount[x.groupCount + 1] \in 0..MaxParts
      BY <1>1, <2>1
    <3>2. x.partCount[x.groupCount + 1] < Src.partCount[x.groupCount + 1]
      BY <1>7 DEF Unfinished
    <3>3. QED
      BY <3>1, <3>2 DEF Sized
  <2>3. n = x.groupCount
    BY <1>2, <1>7, <2>2 DEF Unfinished
  <2>4. QED
    BY <1>3, <1>7, <2>3 DEF Unfinished, Trim, SameBut
<1>8. CASE Trim(x, 0, 0)
  <2>1. Trim(y, 0, 1)
    BY <1>3, <1>6, <1>8, TrimGrows DEF SameBut
  <2>2. QED
    BY <1>2, <1>3, <1>5, <1>6, <1>8, <2>1 DEF Ready, y
<1>9. CASE Trim(x, 0, 1) /\ Unfinished(x)
  BY <1>2, <1>3, <1>5, <1>7, <1>9 DEF Ready, y
<1>10. QED
  BY <1>8, <1>9

\* What comes next after a step of the copy.
LEMMA ReadyForNext ==
    ASSUME Sized, NEW y \in Handle, Src \in Handle, Whole(Src),
           NEW i \in 2..12, Ready(y, i)
    PROVE  /\ NextStep(i, y) \in Steps /\ NextStep(i, y) # "spelling"
           /\ NextStep(i, y) = "idle" => Whole(y)
           /\ NextStep(i, y) # "idle" => Copying(y, Src, NextStep(i, y))
<1>1. Arrays(Src)
  BY DEF Whole
<1>2. CASE NextStep(i, y) = "idle" /\ \A k \in i..11 : ~Wanted(Order[k], y)
  <2>1. Done(y, Src, 12)
    BY <1>1, <1>2, PassedOver DEF Ready
  <2>2. Counted(y) /\ Arrays(y)
    BY <2>1 DEF Done, Counted
  <2>3. ~(i = 9 /\ y.groupCount < Src.groups)
    <3>1. i = 9 => ~Wanted("component", y)
      BY <1>2, OrderPositions
    <3>2. QED
      BY <3>1, WantedIs
  <2>4. Trim(y, 0, 0)
    BY <2>3 DEF Ready
  <2>5. QED
    BY <1>2, <2>2, <2>4, PartsAreSteps DEF Whole
<1>3. ASSUME NEW j \in i..11, NextStep(i, y) = Order[j], Wanted(Order[j], y),
             \A k \in i..(j - 1) : ~Wanted(Order[k], y)
      PROVE  /\ NextStep(i, y) \in Steps /\ NextStep(i, y) # "spelling" /\ NextStep(i, y) # "idle"
             /\ Copying(y, Src, NextStep(i, y))
  <2>1. j \in i..12 /\ j \in 1..11
    OBVIOUS
  <2>2. Done(y, Src, j)
    BY <1>1, <1>3, <2>1, PassedOver DEF Ready
  <2>3. Pos[Order[j]] = j /\ Order[j] \in Steps /\ Order[j] # "spelling" /\ Order[j] # "idle"
    BY <2>1, OrderPositions, PartsAreSteps
  <2>4. Order[j] = "parser" => y.at[Part("parser")] = NoBlock
    BY <1>3, WantedIs
  <2>5. Order[j] = "original" => y.recordCount < Src.records
    BY <1>3, WantedIs
  <2>6. Order[j] = "component" => Unfinished(y)
    <3>1. SUFFICES ASSUME Order[j] = "component" PROVE Unfinished(y)
      OBVIOUS
    <3>2. j = 9 /\ y.groupCount < Src.groups
      BY <1>3, <2>1, <3>1, OrderPositions, WantedIs
    <3>3. ~(i <= 8)
      <4>1. SUFFICES ASSUME i <= 8 PROVE FALSE
        OBVIOUS
      <4>2. ~Wanted("groups", y) /\ "groups" \in Parts \ {"struct", "parser"}
        BY <1>3, <3>2, <4>1 DEF Order, Parts
      <4>3. Src.groups = 0
        BY <1>1, <4>2, WantedIs DEF Arrays
      <4>4. y.groupCount \in Nat
        BY HandleFields DEF Sized
      <4>5. QED
        BY <3>2, <4>3, <4>4
    <3>4. QED
      BY <3>2, <3>3 DEF Ready
  <2>7. Trim(y, 0, IF Order[j] = "component" THEN 1 ELSE 0)
    <3>1. CASE Order[j] = "component"
      BY <3>1 DEF Ready
    <3>2. CASE Order[j] # "component"
      <4>1. j # 9
        BY <3>2, OrderPositions
      <4>2. ~(i = 9 /\ y.groupCount < Src.groups)
        <5>1. i = 9 => ~Wanted("component", y)
          BY <1>3, <4>1, OrderPositions
        <5>2. QED
          BY <5>1, WantedIs
      <4>3. QED
        BY <3>2, <4>2 DEF Ready
    <3>3. QED
      BY <3>1, <3>2
  <2>8. Copying(y, Src, Order[j])
    BY <2>2, <2>3, <2>4, <2>5, <2>6, <2>7 DEF Copying, Unfinished
  <2>9. QED
    BY <1>3, <2>3, <2>8
<1>4. QED
  BY <1>2, <1>3, NextStepIsFirstWanted
\* What the invariant says during a copy.
LEMMA DuringCopy ==
    ASSUME IInv, step # "idle"
    PROVE  /\ Src \in Handle /\ Dst \in Handle
           /\ Src.at[Part("struct")] # NoBlock /\ Dst.at[Part("struct")] # NoBlock
           /\ Whole(Src) /\ Copying(Dst, Src, step)
           /\ Owned(heap, handle) /\ heap \subseteq 1..Blocks
           /\ handle \in [Handles -> Handle] /\ "copy" \in Handles /\ "owner" \in Handles
BY DEF IInv, Types, Src, Dst, Exists, Handles

\* Counting groups changes nothing of what is held.
LEMMA SameButGains ==
    ASSUME NEW x, NEW y, NEW z, NEW pl, NEW b, SameBut(y, z), Gains(x, y, pl, b)
    PROVE  Gains(x, z, pl, b)
BY DEF SameBut, Gains, Holds

\* The copy takes a block and is ready for the step that is next, or whole.
LEMMA CopyTakes ==
    ASSUME Sized, IInv, step # "idle", NEW met \in Handle, NEW pl \in Places,
           heap # 1..Blocks, handle' = [handle EXCEPT !["copy"] = met],
           heap' = heap \union {NewBlock}, wild' = wild, step' \in Steps,
           met.at[Part("struct")] # NoBlock, Gains(Dst, met, pl, NewBlock),
           step' = "idle" => Whole(met), step' # "idle" => Copying(met, Src, step')
    PROVE  IInv'
<1>1. \A h \in Handles : handle'[h] = IF h = "copy" THEN met ELSE handle[h]
  BY DuringCopy
<1>2. Types'
  <2>1. heap' \subseteq 1..Blocks
    BY DuringCopy, NewBlockIsFree
  <2>2. handle' \in [Handles -> Handle]
    BY DuringCopy
  <2>3. QED
    BY <2>1, <2>2 DEF Types
<1>3. (wild = FALSE)'
  BY DEF IInv
<1>4. \A h \in Handles : Exists(h)' \/ handle'[h] = NoHandle
  BY <1>1 DEF IInv, Exists
<1>5. \A h \in Handles : (h # "copy" \/ step' = "idle") => Whole(handle'[h])
  BY <1>1 DEF IInv
<1>6. step' # "idle" => /\ Exists("owner")' /\ Exists("copy")'
                        /\ Copying(Dst, Src, step)'
  <2>1. Dst' = met /\ Src' = Src
    BY <1>1, DuringCopy DEF Dst, Src
  <2>2. Exists("owner")' /\ Exists("copy")'
    BY <1>1, DuringCopy DEF Exists, Src
  <2>3. QED
    BY <2>1, <2>2
<1>7. Owned(heap, handle)'
  <2>1. NewBlock \notin heap
    BY DuringCopy, NewBlockIsFree
  <2>2. Owned(heap \union {NewBlock}, [handle EXCEPT !["copy"] = met])
    BY <2>1, DuringCopy, OwnerGains DEF Dst
  <2>3. QED
    BY <2>2
<1>8. QED
  BY <1>2, <1>3, <1>4, <1>5, <1>6, <1>7 DEF IInv

\* A step that took a block and goes on keeps the invariant.
LEMMA ProceedKeeps ==
    ASSUME Sized, IInv, step # "idle", NEW x \in Handle, NEW i \in 2..12,
           NEW pl \in Places, heap # 1..Blocks, Proceed(x, i),
           x.at[Part("struct")] # NoBlock, Done(x, Src, i), Gains(Dst, x, pl, NewBlock),
           i # 9 => Trim(x, 0, 0),
           i = 9 => Trim(x, 0, 0) \/ (Trim(x, 0, 1) /\ Unfinished(x))
    PROVE  IInv'
<1> DEFINE met == IF i = 9 THEN SkipHoles(x) ELSE x
<1>1. /\ handle' = [handle EXCEPT !["copy"] = met]
      /\ heap' = heap \union {NewBlock}
      /\ step' = NextStep(i, met)
      /\ wild' = wild
  <2>1. IndexOfStep("component") = 9
    BY OrderPositions, IndexIsPosition
  <2>2. QED
    BY <2>1 DEF Proceed
<1>2. SameBut(x, met) /\ Ready(met, i)
  <2>1. CASE i = 9
    BY <2>1, DuringCopy, ReadyAfterHoles
  <2>2. CASE i # 9
    <3>1. SameBut(x, x) /\ Ready(x, i)
      BY <2>2, TrimGrows DEF SameBut, Ready
    <3>2. QED
      BY <2>2, <3>1
  <2>3. QED
    BY <2>1, <2>2
<1> HIDE DEF met
<1>3. met \in Handle /\ met.at[Part("struct")] # NoBlock
  BY <1>2 DEF SameBut
<1>4. Gains(Dst, met, pl, NewBlock)
  BY <1>2, SameButGains
<1>5. /\ step' \in Steps
      /\ step' = "idle" => Whole(met)
      /\ step' # "idle" => Copying(met, Src, step')
  BY <1>1, <1>2, <1>3, DuringCopy, ReadyForNext
<1>6. QED
  BY <1>1, <1>3, <1>4, <1>5, CopyTakes

\* A handle is destroyed: all it holds is freed, each block once.
LEMMA DestroyFrees ==
    ASSUME Sized, NEW h \in Handles, NEW x \in Handle,
           handle \in [Handles -> Handle], Owned(heap, handle), wild = FALSE,
           Trim(x, 0, 0), x.at[Part("struct")] # NoBlock,
           \A pl \in Places : /\ Holds(x, pl) <=> Holds(handle[h], pl)
                              /\ Holds(x, pl) => x.at[pl] = handle[h].at[pl],
           FreeAll(x, Destroyed(x)), handle' = [handle EXCEPT ![h] = NoHandle]
    PROVE  Owned(heap, handle)' /\ wild' = FALSE /\ heap' \subseteq heap
<1> DEFINE D == HeldAt(x)
<1>1. Destroyed(x) = D
  BY DestroyedIsHeld DEF HeldAt
<1>2. D = HeldAt(handle[h])
  BY DEF HeldAt
<1>3. BlocksAt(x, D) = BlocksAt(handle[h], D)
  <2>1. \A pl \in D : x.at[pl] = handle[h].at[pl]
    BY DEF HeldAt
  <2>2. QED
    BY <2>1 DEF BlocksAt
<1>4. Loses(handle[h], NoHandle, D)
  BY <1>2, NoHandleIsOne DEF Loses, HeldAt
<1> HIDE DEF D
<1>5. /\ Owned(heap \ BlocksAt(handle[h], D), [handle EXCEPT ![h] = NoHandle])
      /\ BlocksAt(handle[h], D) \subseteq heap
      /\ Apart(handle[h], D)
  <2>1. D \subseteq HeldAt(handle[h])
    BY <1>2
  <2>2. /\ handle \in [Handles -> Handle] /\ Owned(heap, handle) /\ h \in Handles
    OBVIOUS
  <2>3. QED
    BY ONLY <1>4, <2>1, <2>2, OwnerLoses, ZenonT(30)
<1>6. heap' = heap \ BlocksAt(x, D)
  BY <1>1 DEF FreeAll
<1>7. Apart(x, D)
  BY <1>5 DEF D, HeldAt, Apart
<1>8. wild' = FALSE
  BY <1>1, <1>3, <1>5, <1>7 DEF FreeAll, Apart
<1>9. QED
  BY <1>3, <1>5, <1>6, <1>8

\* A copy that is given up leaves nothing behind.
LEMMA AbandonKeeps ==
    ASSUME Sized, IInv, step # "idle", NEW x \in Handle, Abandon(x),
           Trim(x, 0, 0), x.at[Part("struct")] # NoBlock,
           \A pl \in Places : /\ Holds(x, pl) <=> Holds(Dst, pl)
                              /\ Holds(x, pl) => x.at[pl] = Dst.at[pl]
    PROVE  IInv'
<1>1. /\ handle' = [handle EXCEPT !["copy"] = NoHandle] /\ step' = "idle"
      /\ FreeAll(x, Destroyed(x))
  BY DEF Abandon
<1>2. Owned(heap, handle)' /\ wild' = FALSE /\ heap' \subseteq heap
  BY <1>1, DuringCopy, DestroyFrees DEF IInv, Dst
<1>3. \A h \in Handles : handle'[h] = IF h = "copy" THEN NoHandle ELSE handle[h]
  BY <1>1, DuringCopy
<1>4. Types'
  BY <1>1, <1>2, DuringCopy, NoHandleIsOne, PartsAreSteps DEF Types
<1>5. \A h \in Handles : (Exists(h)' \/ handle'[h] = NoHandle) /\ Whole(handle'[h])
  BY <1>3, NoHandleIsOne DEF IInv, Exists
<1>6. QED
  BY <1>1, <1>2, <1>4, <1>5 DEF IInv
-----------------------------------------------------------------------------
(* The steps of the copy.                                                  *)

\* Putting a block at some places of a handle changes nothing else.
LEMMA PutIsHandle ==
    ASSUME NEW x \in Handle, NEW places, NEW b \in {NoBlock} \union 1..Blocks
    PROVE  /\ Put(x, places, b) \in Handle
           /\ \A q \in Places : Put(x, places, b).at[q] = IF q \in places THEN b ELSE x.at[q]
           /\ Put(x, places, b).recordCount = x.recordCount
           /\ Put(x, places, b).groupCount = x.groupCount
           /\ Put(x, places, b).partCount = x.partCount
           /\ Put(x, places, b).records = x.records
           /\ Put(x, places, b).groups = x.groups
           /\ Put(x, places, b).compact = x.compact
<1>1. x.at \in [Places -> {NoBlock} \union 1..Blocks]
  BY HandleFields
<1> DEFINE m == [pl \in Places |-> IF pl \in places THEN b ELSE x.at[pl]]
           y == [x EXCEPT !.at = m]
<1>2. \A q \in Places : m[q] = IF q \in places THEN b ELSE x.at[q]
  OBVIOUS
<1>3. m \in [Places -> {NoBlock} \union 1..Blocks]
  BY <1>1
<1>4. Put(x, places, b) = y
  BY DEF Put
<1> HIDE DEF m
<1>5. y \in Handle
  BY <1>3, ZenonT(40) DEF Handle
<1>6. /\ y.at = m /\ y.recordCount = x.recordCount /\ y.groupCount = x.groupCount
      /\ y.partCount = x.partCount /\ y.records = x.records /\ y.groups = x.groups
      /\ y.compact = x.compact
  BY DEF Handle
<1> HIDE DEF y
<1>7. QED
  BY <1>2, <1>4, <1>5, <1>6

\* The place of a part is none of a string or of a component.
LEMMA PartPlaces ==
    ASSUME NEW p \in Parts, NEW q \in Parts
    PROVE  /\ Part(p) \in Places
           /\ Part(p) = Part(q) <=> p = q
           /\ \A i : Part(p) # Original(i) /\ Part(p) # Spelling(i)
           /\ \A e, c : Part(p) # Component(e, c)
<1>1. Part(p) \in Places
  BY PlacesOfKinds
<1>2. p # "original" /\ p # "spelling" /\ p # "component"
  BY KindsDiffer
<1>3. QED
  BY <1>1, <1>2 DEF Part, Original, Spelling, Component

\* Copying a block the handle has one of.
LEMMA ClonePartKeeps ==
    ASSUME Sized, IInv, ClonePart
    PROVE  IInv'
<1>1. step \in Parts \ {"struct"} /\ step # "idle" /\ step # "spelling" /\ step # "component"
  <2>1. step \in Parts /\ step \in Steps
    BY DEF ClonePart, IInv, Types
  <2>2. \A k \in 1..11 : Order[k] # "struct"
    BY DEF Order
  <2>3. step # "idle" /\ step # "spelling" /\ step # "component"
    BY <2>1 DEF Parts, Optional
  <2>4. step # "struct"
    BY <2>1, <2>2, OrderPositions DEF Steps
  <2>5. QED
    BY <2>1, <2>3, <2>4
<1>2. Done(Dst, Src, Pos[step]) /\ Trim(Dst, 0, 0)
  BY <1>1, DuringCopy DEF Copying
<1>3. Pos[step] \in 1..11 /\ Pos[step] # 7 /\ Pos[step] # 9 /\ IndexOfStep(step) = Pos[step]
  BY <1>1, PositionsInOrder, IndexIsPosition
<1>4. CASE Abandon(Dst)
  BY <1>1, <1>2, <1>4, DuringCopy, AbandonKeeps
<1>5. ASSUME NEW same \in BOOLEAN, heap # 1..Blocks, same => step = "sql",
             NEW x, Proceed(x, IndexOfStep(step) + 1),
             x = [Put(Dst, {Part(step), Part(IF same THEN "parser" ELSE step)}, NewBlock) EXCEPT
                    !.records = IF step = "records" THEN Src.records ELSE @,
                    !.groups = IF step = "groups" THEN Src.groups ELSE @]
      PROVE  IInv'
  <2>1. NewBlock \in 1..Blocks /\ NewBlock \notin heap /\ NewBlock # NoBlock
    BY <1>1, <1>5, DuringCopy, NewBlockIsFree
  <2> DEFINE r == IF step = "records" THEN Src.records ELSE Dst.records
             g == IF step = "groups" THEN Src.groups ELSE Dst.groups
             y == Put(Dst, {Part(step), Part(IF same THEN "parser" ELSE step)}, NewBlock)
  <2>2. r \in 0..Elements /\ g \in 0..Elements
    BY <1>1, DuringCopy, HandleFields
  <2>3. /\ y \in Handle
        /\ \A q \in Places : y.at[q] =
             IF q \in {Part(step), Part(IF same THEN "parser" ELSE step)} THEN NewBlock ELSE Dst.at[q]
        /\ y.recordCount = Dst.recordCount /\ y.groupCount = Dst.groupCount
        /\ y.partCount = Dst.partCount /\ y.records = Dst.records /\ y.groups = Dst.groups
    BY <1>1, <2>1, DuringCopy, PutIsHandle
  <2> HIDE DEF y
  <2>4. x = [y EXCEPT !.records = r, !.groups = g]
    BY <1>5, <2>3 DEF y
  <2>5. /\ r = IF step = "records" THEN Src.records ELSE Dst.records
        /\ g = IF step = "groups" THEN Src.groups ELSE Dst.groups
    OBVIOUS
  <2> HIDE DEF r, g
  <2>6. /\ x \in Handle
        /\ \A q \in Places : x.at[q] =
             IF q = Part(step) \/ (same /\ q = Part("parser")) THEN NewBlock ELSE Dst.at[q]
        /\ x.recordCount = Dst.recordCount /\ x.groupCount = Dst.groupCount
        /\ x.partCount = Dst.partCount /\ x.records = r /\ x.groups = g
    <3>1. x \in Handle
      BY <2>2, <2>3, <2>4, ZenonT(40) DEF Handle
    <3>2. /\ x.at = y.at /\ x.recordCount = y.recordCount /\ x.groupCount = y.groupCount
          /\ x.partCount = y.partCount /\ x.records = r /\ x.groups = g
      BY <2>3, <2>4 DEF Handle
    <3>3. QED
      BY <2>3, <3>1, <3>2
  <2>7. \A p \in Parts : /\ Part(p) \in Places /\ Part(p)[1] = p
                         /\ Part(p) = Part(step) <=> p = step
                         /\ Part(p) = Part("parser") <=> p = "parser"
    BY <1>1, PartPlaces DEF Part
  <2>8. "parser" \in Parts /\ "sql" \in Parts /\ "struct" \in Parts
        /\ "records" \in Parts /\ "groups" \in Parts
    BY DEF Parts
  <2>9. x.at[Part("struct")] # NoBlock
    BY <1>1, <2>6, <2>7, <2>8, DuringCopy
  <2>10. Arrays(x)
    <3>1. Arrays(Dst)
      BY <1>2 DEF Done
    <3>2. x.records # 0 => x.at[Part("records")] # NoBlock
      <4>1. CASE step = "records"
        BY <2>1, <2>6, <2>7, <2>8, <4>1
      <4>2. CASE step # "records"
        <5>1. x.at[Part("records")] = Dst.at[Part("records")]
          BY <2>6, <2>7, <2>8, <4>2
        <5>2. x.records = Dst.records
          BY <2>5, <2>6, <4>2
        <5>3. QED
          BY <3>1, <5>1, <5>2 DEF Arrays
      <4>3. QED
        BY <4>1, <4>2
    <3>3. x.groups # 0 => x.at[Part("groups")] # NoBlock
      <4>1. CASE step = "groups"
        BY <2>1, <2>6, <2>7, <2>8, <4>1
      <4>2. CASE step # "groups"
        <5>1. x.at[Part("groups")] = Dst.at[Part("groups")]
          BY <2>6, <2>7, <2>8, <4>2
        <5>2. x.groups = Dst.groups
          BY <2>5, <2>6, <4>2
        <5>3. QED
          BY <3>1, <5>1, <5>2 DEF Arrays
      <4>3. QED
        BY <4>1, <4>2
    <3>4. QED
      BY <3>2, <3>3 DEF Arrays
  <2>11. Done(x, Src, Pos[step] + 1)
    <3>1. \A p \in Parts \ {"struct", "parser"} : Pos[step] + 1 <= Pos[p] => x.at[Part(p)] = NoBlock
      <4>1. SUFFICES ASSUME NEW p \in Parts \ {"struct", "parser"}, Pos[step] + 1 <= Pos[p]
            PROVE  x.at[Part(p)] = NoBlock
        OBVIOUS
      <4>2. Pos[p] \in Int /\ Pos[step] <= Pos[p] /\ p # step
        BY <1>3, <4>1, PositionsInOrder
      <4>3. Dst.at[Part(p)] = NoBlock
        BY <1>2, <4>2 DEF Done
      <4>4. QED
        BY <2>6, <2>7, <4>2, <4>3
    <3>2. step = "records" <=> Pos[step] = 6
      BY <1>1, PositionsInOrder DEF Order
    <3>3. step = "groups" <=> Pos[step] = 8
      BY <1>1, PositionsInOrder DEF Order
    <3>4. x.records = IF Pos[step] + 1 <= 6 THEN 0 ELSE Src.records
      BY <1>2, <1>3, <2>5, <2>6, <3>2 DEF Done
    <3>5. x.groups = IF Pos[step] + 1 <= 8 THEN 0 ELSE Src.groups
      BY <1>2, <1>3, <2>5, <2>6, <3>3 DEF Done
    <3>6. Dst.recordCount \in Nat /\ Dst.groupCount \in Nat /\ Src.records \in Nat /\ Src.groups \in Nat
      BY <1>1, DuringCopy, HandleFields DEF Sized
    <3>7. x.recordCount <= x.records /\ (Pos[step] + 1 > 7 => x.recordCount = x.records)
      BY <1>2, <1>3, <2>6, <3>4, <3>6 DEF Done
    <3>8. x.groupCount <= x.groups /\ (Pos[step] + 1 > 9 => x.groupCount = x.groups)
      BY <1>2, <1>3, <2>6, <3>5, <3>6 DEF Done
    <3>9. Pos[step] + 1 # 1
      BY <1>3
    <3>10. QED
      BY <2>10, <3>1, <3>4, <3>5, <3>7, <3>8, <3>9 DEF Done
  <2>12. Trim(x, 0, 0)
    <3>1. \A i \in 1..Elements : Original(i) \in Places /\ x.at[Original(i)] = Dst.at[Original(i)]
      BY <1>1, <2>6, <2>8, PlacesOfKinds, PartPlaces
    <3>2. \A e \in 1..Elements : \A c \in 1..MaxParts : x.at[Component(e, c)] = Dst.at[Component(e, c)]
      BY <1>1, <2>6, <2>8, PlacesOfKinds, PartPlaces
    <3>3. QED
      BY <1>2, <2>6, <3>1, <3>2 DEF Trim
  <2>13. Gains(Dst, x, Part(step), NewBlock)
    <3>1. Dst.at[Part(step)] = NoBlock
      <4>1. CASE step = "parser"
        BY <4>1, DuringCopy DEF Copying
      <4>2. CASE step # "parser"
        BY <1>1, <1>2, <1>3, <4>2 DEF Done
      <4>3. QED
        BY <4>1, <4>2
    <3>2. same => Dst.at[Part("parser")] = NoBlock
      BY <1>2, <1>5, PositionsInOrder DEF Done
    <3>3. Dst.at[Part("sql")] # NewBlock
      <4>1. SUFFICES ASSUME Dst.at[Part("sql")] = NewBlock PROVE FALSE
        OBVIOUS
      <4>2. Holds(handle["copy"], Part("sql"))
        BY <2>1, <2>7, <2>8, <4>1 DEF Holds, Dst
      <4>3. NewBlock \in heap
        BY <1>1, <2>7, <2>8, <4>1, <4>2, DuringCopy DEF Owned, Dst
      <4>4. QED
        BY <2>1, <4>3
    <3>4. Holds(x, Part(step)) /\ x.at[Part(step)] = NewBlock
      <4>1. x.at[Part(step)] = NewBlock
        BY <1>1, <2>6, <2>7
      <4>2. step = "parser" => x.at[Part("sql")] = Dst.at[Part("sql")]
        BY <1>5, <2>6, <2>7, <2>8
      <4>3. QED
        BY <1>1, <2>1, <2>7, <3>3, <4>1, <4>2 DEF Holds
    <3>5. ~Holds(Dst, Part(step))
      BY <3>1 DEF Holds
    <3>6. ASSUME NEW q \in Places \ {Part(step)}
          PROVE  /\ Holds(x, q) <=> Holds(Dst, q)
                 /\ Holds(x, q) => x.at[q] = Dst.at[q]
      <4>1. CASE same /\ q = Part("parser")
        <5>1. x.at[q] = NewBlock /\ x.at[Part("sql")] = NewBlock
          BY <1>5, <2>6, <2>7, <2>8, <4>1
        <5>2. ~Holds(x, q)
          BY <2>7, <2>8, <4>1, <5>1 DEF Holds
        <5>3. ~Holds(Dst, q)
          BY <3>2, <4>1 DEF Holds
        <5>4. QED
          BY <5>2, <5>3
      <4>2. CASE ~(same /\ q = Part("parser"))
        <5>1. x.at[q] = Dst.at[q]
          BY <2>6, <3>6, <4>2
        <5>2. q[1] = "parser" /\ step = "sql" => Dst.at[q] = NoBlock
          <6>1. SUFFICES ASSUME q[1] = "parser", step = "sql" PROVE Dst.at[q] = NoBlock
            OBVIOUS
          <6>2. q = Part("parser")
            BY <3>6, <6>1, <2>8, PlaceKinds
          <6>3. QED
            BY <1>2, <6>1, <6>2, PositionsInOrder DEF Done
        <5>3. q[1] = "parser" /\ step # "sql" => x.at[Part("sql")] = Dst.at[Part("sql")]
          BY <1>5, <2>6, <2>7, <2>8
        <5>4. QED
          BY <2>6, <5>1, <5>2, <5>3 DEF Holds
      <4>3. QED
        BY <4>1, <4>2
    <3>7. QED
      BY <3>4, <3>5, <3>6 DEF Gains
  <2>14. Pos[step] + 1 \in 2..12 /\ Proceed(x, Pos[step] + 1) /\ Part(step) \in Places
    BY <1>1, <1>3, <1>5, <2>7
  <2>15. Pos[step] + 1 = 9 => Trim(x, 0, 0)
    BY <2>12
  <2>16. QED
    BY <1>1, <1>5, <2>6, <2>9, <2>11, <2>12, <2>13, <2>14, ProceedKeeps
<1>6. QED
  BY <1>4, <1>5 DEF ClonePart
\* Counting one more record, or component, of a handle.
LEMMA CountedIsHandle ==
    ASSUME NEW x \in Handle, NEW r \in 0..Elements
    PROVE  /\ [x EXCEPT !.recordCount = r] \in Handle
           /\ [x EXCEPT !.recordCount = r].at = x.at
           /\ [x EXCEPT !.recordCount = r].recordCount = r
           /\ [x EXCEPT !.recordCount = r].groupCount = x.groupCount
           /\ [x EXCEPT !.recordCount = r].partCount = x.partCount
           /\ [x EXCEPT !.recordCount = r].records = x.records
           /\ [x EXCEPT !.recordCount = r].groups = x.groups
<1>1. [x EXCEPT !.recordCount = r] \in Handle
  BY ZenonT(40) DEF Handle
<1>2. QED
  BY <1>1 DEF Handle

\* Only the strings of a record, or of a component, and the counts differ.
LEMMA DoneWithStrings ==
    ASSUME Sized, NEW x \in Handle, NEW y \in Handle, NEW s, NEW i \in 1..12,
           Done(x, s, i), y.records = x.records, y.groups = x.groups,
           \A p \in Parts : y.at[Part(p)] = x.at[Part(p)],
           y.recordCount <= y.records, i > 7 => y.recordCount = y.records,
           y.groupCount <= y.groups, i > 9 => y.groupCount = y.groups
    PROVE  Done(y, s, i) /\ y.at[Part("struct")] = x.at[Part("struct")]
<1>1. "records" \in Parts /\ "groups" \in Parts /\ "parser" \in Parts /\ "struct" \in Parts
  BY DEF Parts
<1>2. Arrays(y)
  BY <1>1 DEF Done, Arrays
<1>3. QED
  BY <1>1, <1>2 DEF Done

\* The places of a record's strings are its own.
LEMMA StringPlaces ==
    ASSUME NEW r \in 1..Elements
    PROVE  /\ Original(r) \in Places /\ Spelling(r) \in Places
           /\ \A i : Original(i) # Spelling(r)
           /\ \A i : Original(i) = Original(r) <=> i = r
           /\ \A i : Spelling(i) = Spelling(r) <=> i = r
           /\ \A e, c : Component(e, c) # Original(r) /\ Component(e, c) # Spelling(r)
           /\ \A p \in Parts : Part(p) # Original(r) /\ Part(p) # Spelling(r)
<1>1. \A p \in Parts : p # "original" /\ p # "spelling"
  BY KindsDiffer
<1>2. QED
  BY <1>1, PlacesOfKinds DEF Original, Spelling, Component, Part

\* y's blocks are x's, but for the strings of record r.
OtherStrings(x, y, r, a, b) ==
  \A q \in Places : y.at[q] =
    IF q = Original(r) THEN a ELSE IF q = Spelling(r) THEN b ELSE x.at[q]

\* A record with strings of its own, or none, counted or not.
LEMMA RecordIsHandle ==
    ASSUME NEW x \in Handle, NEW r \in 1..Elements,
           NEW a \in {NoBlock} \union 1..Blocks, NEW b \in {NoBlock} \union 1..Blocks
    PROVE  /\ Record(x, r, a, b) \in Handle
           /\ OtherStrings(x, Record(x, r, a, b), r, a, b)
           /\ Record(x, r, a, b).recordCount = x.recordCount
           /\ Record(x, r, a, b).groupCount = x.groupCount
           /\ Record(x, r, a, b).partCount = x.partCount
           /\ Record(x, r, a, b).records = x.records
           /\ Record(x, r, a, b).groups = x.groups
<1> DEFINE y == Put(x, {Original(r)}, a)
           z == Put(y, {Spelling(r)}, b)
<1>1. y \in Handle /\ (\A q \in Places : y.at[q] = IF q \in {Original(r)} THEN a ELSE x.at[q])
      /\ y.recordCount = x.recordCount /\ y.groupCount = x.groupCount
      /\ y.partCount = x.partCount /\ y.records = x.records /\ y.groups = x.groups
  BY PutIsHandle
<1> HIDE DEF y
<1>2. z \in Handle /\ (\A q \in Places : z.at[q] = IF q \in {Spelling(r)} THEN b ELSE y.at[q])
      /\ z.recordCount = y.recordCount /\ z.groupCount = y.groupCount
      /\ z.partCount = y.partCount /\ z.records = y.records /\ z.groups = y.groups
  BY <1>1, PutIsHandle
<1>3. Record(x, r, a, b) = z
  BY DEF Record, y
<1> HIDE DEF z
<1>4. OtherStrings(x, z, r, a, b)
  BY <1>1, <1>2, StringPlaces DEF OtherStrings
<1>5. QED
  BY <1>1, <1>2, <1>3, <1>4
\* The record the copy is at, and its places.
LEMMA AtRecord ==
    ASSUME Sized, IInv, step \in {"original", "spelling"}
    PROVE  /\ Dst.recordCount + 1 \in 1..Elements
           /\ Dst.recordCount \in Nat /\ Src.records \in Nat
           /\ Dst.records = Src.records /\ Dst.recordCount + 1 <= Src.records
           /\ Dst.groupCount \in Nat /\ Dst.groupCount <= Dst.groups
           /\ Done(Dst, Src, 7)
           /\ Trim(Dst, IF step = "spelling" THEN 1 ELSE 0, 0)
           /\ Src.at[Spelling(Dst.recordCount + 1)] \in {NoBlock} \union 1..Blocks
<1>1. step # "idle" /\ step # "component"
  OBVIOUS
<1>2. Copying(Dst, Src, step) /\ Src \in Handle /\ Dst \in Handle
  BY <1>1, DuringCopy
<1>3. Pos[step] = 7
  BY PositionsInOrder
<1>4. Done(Dst, Src, 7) /\ Dst.recordCount < Src.records
  BY <1>2, <1>3 DEF Copying
<1>5. Trim(Dst, IF step = "spelling" THEN 1 ELSE 0, 0)
  BY <1>1, <1>2 DEF Copying
<1>6. Dst.recordCount \in Nat /\ Src.records \in 0..Elements /\ Dst.groupCount \in Nat
  BY <1>2, HandleFields DEF Sized
<1>7. Dst.recordCount + 1 \in 1..Elements
  BY <1>4, <1>6 DEF Sized
<1>8. Spelling(Dst.recordCount + 1) \in Places
  BY <1>7, PlacesOfKinds
<1>9. Src.at[Spelling(Dst.recordCount + 1)] \in {NoBlock} \union 1..Blocks
  BY <1>2, <1>8, HandleFields
<1>10. QED
  BY <1>4, <1>5, <1>6, <1>7, <1>9 DEF Done, Sized

\* Copying a record and its first string; the second is still the original's
\* when that fails, and is not counted.
LEMMA CloneOriginalKeeps ==
    ASSUME Sized, IInv, CloneOriginal
    PROVE  IInv'
<1> DEFINE r == Dst.recordCount + 1
           spelling == Src.at[Spelling(r)]
           mine == Record(Dst, r, NewBlock, spelling)
<1>1. step = "original" /\ step # "idle"
  BY DEF CloneOriginal
<1>2. /\ r \in 1..Elements /\ r <= Src.records /\ Dst.records = Src.records
      /\ spelling \in {NoBlock} \union 1..Blocks /\ Done(Dst, Src, 7) /\ Trim(Dst, 0, 0)
      /\ Dst.recordCount \in Nat /\ Src.records \in Nat /\ r = Dst.recordCount + 1
      /\ Dst.groupCount \in Nat /\ Dst.groupCount <= Dst.groups
  BY <1>1, AtRecord
<1>3. \/ /\ heap # 1..Blocks /\ spelling = NoBlock
         /\ Proceed([mine EXCEPT !.recordCount = r], IndexOfStep("original"))
      \/ /\ heap # 1..Blocks /\ spelling # NoBlock
         /\ handle' = [handle EXCEPT !["copy"] = mine]
         /\ heap' = heap \union {NewBlock}
         /\ step' = "spelling"
         /\ UNCHANGED wild
      \/ Abandon(Record(Dst, r, NoBlock, spelling))
  BY DEF CloneOriginal
<1> HIDE DEF r, spelling
<1>4. Dst \in Handle /\ Dst.at[Part("struct")] # NoBlock
  BY <1>1, DuringCopy
<1>5. IndexOfStep("original") = 7
  BY OrderPositions, IndexIsPosition
<1>6. /\ Original(r) \in Places /\ Spelling(r) \in Places /\ Original(r) # Spelling(r)
      /\ Original(r)[1] = "original" /\ Spelling(r)[1] = "spelling" /\ Spelling(r)[2] = r
      /\ \A p \in Parts : Part(p) \in Places /\ Part(p) # Original(r) /\ Part(p) # Spelling(r)
      /\ Part("sql") \in Places /\ Part("struct") \in Places
  BY <1>2, PlacesOfKinds, StringPlaces DEF Parts
<1>7. Dst.at[Original(r)] = NoBlock
  BY <1>2 DEF Trim
<1>8. \A q \in Places : q[1] = "spelling" /\ q # Spelling(r) => (q[2] <= r <=> q[2] <= Dst.recordCount)
  <2>1. SUFFICES ASSUME NEW q \in Places, q[1] = "spelling", q # Spelling(r)
        PROVE  q[2] <= r <=> q[2] <= Dst.recordCount
    OBVIOUS
  <2>2. q[2] \in 1..Elements /\ q = Spelling(q[2])
    BY <2>1, PlaceKinds, KindsDiffer
  <2>3. q[2] # r /\ q[2] \in Int
    BY <2>1, <2>2 DEF Sized
  <2>4. QED
    BY <1>2, <2>3
\* What changing the strings of record r does.
<1>9. ASSUME NEW a \in {NoBlock} \union 1..Blocks, NEW y \in Handle,
             y.at = Record(Dst, r, a, spelling).at,
             y.recordCount = Dst.recordCount \/ (y.recordCount = r /\ spelling = NoBlock),
             y.groupCount = Dst.groupCount, y.partCount = Dst.partCount,
             y.records = Dst.records, y.groups = Dst.groups
      PROVE  /\ Done(y, Src, 7) /\ y.at[Part("struct")] # NoBlock
             /\ y.at[Original(r)] = a
             /\ \A q \in Places \ {Original(r)} :
                  /\ Holds(y, q) <=> Holds(Dst, q)
                  /\ Holds(y, q) => y.at[q] = Dst.at[q]
             /\ Trim(y, 1, 0)
             /\ y.recordCount = r \/ a = NoBlock => Trim(y, 0, 0)
  <2>1. \A q \in Places : y.at[q] =
          IF q = Original(r) THEN a ELSE IF q = Spelling(r) THEN spelling ELSE Dst.at[q]
    <3>1. OtherStrings(Dst, Record(Dst, r, a, spelling), r, a, spelling)
      BY <1>2, <1>4, RecordIsHandle
    <3>2. QED
      BY <1>9, <3>1 DEF OtherStrings
  <2>2. \A p \in Parts : y.at[Part(p)] = Dst.at[Part(p)]
    BY <1>6, <2>1
  <2>3. y.recordCount <= y.records
    BY <1>2, <1>9
  <2>4. Done(y, Src, 7) /\ y.at[Part("struct")] # NoBlock
    BY <1>2, <1>4, <1>9, <2>2, <2>3, DoneWithStrings
  <2>5. y.at[Original(r)] = a
    BY <1>6, <2>1
  <2>6. ASSUME NEW q \in Places \ {Original(r)}
        PROVE  /\ Holds(y, q) <=> Holds(Dst, q)
               /\ Holds(y, q) => y.at[q] = Dst.at[q]
    <3>1. CASE q = Spelling(r)
      <4>1. ~Holds(Dst, q)
        BY <1>2, <1>6, <3>1 DEF Holds
      <4>2. ~Holds(y, q)
        BY <1>2, <1>6, <1>9, <2>1, <3>1 DEF Holds
      <4>3. QED
        BY <4>1, <4>2
    <3>2. CASE q # Spelling(r)
      <4>1. y.at[q] = Dst.at[q] /\ y.at[Part("sql")] = Dst.at[Part("sql")]
        BY <2>1, <2>2, <2>6, <3>2 DEF Parts
      <4>2. q[1] = "spelling" => (q[2] <= y.recordCount <=> q[2] <= Dst.recordCount)
        BY <1>8, <1>9, <3>2
      <4>3. QED
        BY <4>1, <4>2 DEF Holds
    <3>3. QED
      BY <3>1, <3>2
  <2>7. \A i \in 1..Elements : /\ Original(i) \in Places
                               /\ y.at[Original(i)] # NoBlock => (i = r /\ a # NoBlock) \/ i <= Dst.recordCount
    <3>1. SUFFICES ASSUME NEW i \in 1..Elements, y.at[Original(i)] # NoBlock, ~(i = r /\ a # NoBlock)
          PROVE  i <= Dst.recordCount
      BY PlacesOfKinds
    <3>2. Original(i) \in Places /\ Original(i) # Spelling(r) /\ (Original(i) = Original(r) <=> i = r)
      BY <1>2, PlacesOfKinds, StringPlaces
    <3>3. Dst.at[Original(i)] # NoBlock
      BY <2>1, <3>1, <3>2
    <3>4. i <= Dst.recordCount + 0
      BY <1>2, <3>3 DEF Trim
    <3>5. QED
      BY <1>2, <3>4
  <2>8. \A e \in 1..Elements : \A c \in 1..MaxParts : y.at[Component(e, c)] = Dst.at[Component(e, c)]
    BY <1>2, <2>1, PlacesOfKinds, StringPlaces
  <2>9. Trim(y, 1, 0)
    BY <1>2, <1>9, <2>7, <2>8 DEF Trim, Sized
  <2>10. y.recordCount = r \/ a = NoBlock => Trim(y, 0, 0)
    BY <1>2, <1>9, <2>7, <2>8 DEF Trim, Sized
  <2>11. QED
    BY <2>4, <2>5, <2>6, <2>9, <2>10
<1>10. ASSUME heap # 1..Blocks
       PROVE  /\ NewBlock \in 1..Blocks /\ NewBlock # NoBlock
              /\ mine \in Handle /\ mine.recordCount = Dst.recordCount
              /\ mine.groupCount = Dst.groupCount /\ mine.partCount = Dst.partCount
              /\ mine.records = Dst.records /\ mine.groups = Dst.groups
  <2>1. NewBlock \in 1..Blocks /\ NewBlock # NoBlock
    BY <1>1, <1>10, DuringCopy, NewBlockIsFree
  <2>2. QED
    BY <1>2, <1>4, <2>1, RecordIsHandle
<1>11. ~Holds(Dst, Original(r))
  BY <1>7 DEF Holds
<1>12. CASE /\ heap # 1..Blocks /\ spelling = NoBlock
            /\ Proceed([mine EXCEPT !.recordCount = r], IndexOfStep("original"))
  <2> DEFINE x == [mine EXCEPT !.recordCount = r]
  <2>1. r \in 0..Elements
    BY <1>2
  <2>2. /\ x \in Handle /\ x.at = mine.at /\ x.recordCount = r
        /\ x.groupCount = mine.groupCount /\ x.partCount = mine.partCount
        /\ x.records = mine.records /\ x.groups = mine.groups
    BY <1>10, <1>12, <2>1, CountedIsHandle
  <2>3. Proceed(x, 7)
    BY <1>5, <1>12
  <2> HIDE DEF x
  <2>4. /\ Done(x, Src, 7) /\ x.at[Part("struct")] # NoBlock
        /\ x.at[Original(r)] = NewBlock
        /\ \A q \in Places \ {Original(r)} :
             /\ Holds(x, q) <=> Holds(Dst, q)
             /\ Holds(x, q) => x.at[q] = Dst.at[q]
        /\ Trim(x, 0, 0)
    BY <1>9, <1>10, <1>12, <2>2
  <2>5. Holds(x, Original(r))
    BY <1>6, <1>10, <1>12, <2>4 DEF Holds
  <2>6. Gains(Dst, x, Original(r), NewBlock)
    BY <1>11, <2>4, <2>5 DEF Gains
  <2>7. QED
    BY <1>1, <1>6, <1>12, <2>2, <2>3, <2>4, <2>6, ProceedKeeps
<1>13. CASE /\ heap # 1..Blocks /\ spelling # NoBlock
            /\ handle' = [handle EXCEPT !["copy"] = mine]
            /\ heap' = heap \union {NewBlock}
            /\ step' = "spelling"
            /\ UNCHANGED wild
  <2> HIDE DEF mine
  <2>1. /\ Done(mine, Src, 7) /\ mine.at[Part("struct")] # NoBlock
        /\ mine.at[Original(r)] = NewBlock
        /\ \A q \in Places \ {Original(r)} :
             /\ Holds(mine, q) <=> Holds(Dst, q)
             /\ Holds(mine, q) => mine.at[q] = Dst.at[q]
        /\ Trim(mine, 1, 0)
    BY <1>9, <1>10, <1>13 DEF mine
  <2>2. Holds(mine, Original(r))
    BY <1>6, <1>10, <1>13, <2>1 DEF Holds
  <2>3. Gains(Dst, mine, Original(r), NewBlock)
    BY <1>11, <2>1, <2>2 DEF Gains
  <2>4. mine.recordCount < Src.records
    BY <1>2, <1>10, <1>13
  <2>5. Copying(mine, Src, "spelling")
    BY <2>1, <2>4, PositionsInOrder DEF Copying
  <2>6. step' \in Steps /\ step' # "idle"
    BY <1>13, PartsAreSteps
  <2>7. QED
    BY <1>1, <1>6, <1>10, <1>13, <2>1, <2>3, <2>5, <2>6, CopyTakes
<1>14. CASE Abandon(Record(Dst, r, NoBlock, spelling))
  <2> DEFINE x == Record(Dst, r, NoBlock, spelling)
  <2>1. /\ x \in Handle /\ x.recordCount = Dst.recordCount
        /\ x.groupCount = Dst.groupCount /\ x.partCount = Dst.partCount
        /\ x.records = Dst.records /\ x.groups = Dst.groups
    <3>1. NoBlock \in {NoBlock} \union 1..Blocks
      OBVIOUS
    <3>2. QED
      BY <1>2, <1>4, <3>1, RecordIsHandle
  <2>2. /\ x.at[Part("struct")] # NoBlock
        /\ x.at[Original(r)] = NoBlock
        /\ \A q \in Places \ {Original(r)} :
             /\ Holds(x, q) <=> Holds(Dst, q)
             /\ Holds(x, q) => x.at[q] = Dst.at[q]
        /\ Trim(x, 0, 0)
    BY <1>9, <2>1
  <2>3. ~Holds(x, Original(r))
    BY <2>2 DEF Holds
  <2>4. Abandon(x)
    BY <1>14
  <2> HIDE DEF x
  <2>5. \A q \in Places : /\ Holds(x, q) <=> Holds(Dst, q)
                          /\ Holds(x, q) => x.at[q] = Dst.at[q]
    BY <1>11, <2>2, <2>3
  <2>6. QED
    BY <1>1, <2>1, <2>2, <2>4, <2>5, AbandonKeeps
<1>15. QED
  BY <1>3, <1>12, <1>13, <1>14
\* Copying a record's second string, which is counted, or emptied, either way.
LEMMA CloneSpellingKeeps ==
    ASSUME Sized, IInv, CloneSpelling
    PROVE  IInv'
<1> DEFINE r == Dst.recordCount + 1
           given(b) == [Put(Dst, {Spelling(r)}, b) EXCEPT !.recordCount = r]
<1>1. step = "spelling" /\ step # "idle"
  BY DEF CloneSpelling
<1>2. /\ r \in 1..Elements /\ r <= Src.records /\ Dst.records = Src.records
      /\ Done(Dst, Src, 7) /\ Trim(Dst, 1, 0)
      /\ Dst.recordCount \in Nat /\ Src.records \in Nat /\ r = Dst.recordCount + 1
      /\ Dst.groupCount \in Nat /\ Dst.groupCount <= Dst.groups
  BY <1>1, AtRecord
<1>3. \/ heap # 1..Blocks /\ Proceed(given(NewBlock), IndexOfStep("original"))
      \/ Abandon(given(NoBlock))
  BY DEF CloneSpelling
<1> HIDE DEF r
<1>4. Dst \in Handle /\ Dst.at[Part("struct")] # NoBlock
  BY <1>1, DuringCopy
<1>5. IndexOfStep("original") = 7
  BY OrderPositions, IndexIsPosition
<1>6. /\ Spelling(r) \in Places /\ Spelling(r)[1] = "spelling" /\ Spelling(r)[2] = r
      /\ \A p \in Parts : Part(p) \in Places /\ Part(p) # Spelling(r)
  BY <1>2, PlacesOfKinds, StringPlaces
<1>7. \A q \in Places : q[1] = "spelling" /\ q # Spelling(r) => (q[2] <= r <=> q[2] <= Dst.recordCount)
  <2>1. SUFFICES ASSUME NEW q \in Places, q[1] = "spelling", q # Spelling(r)
        PROVE  q[2] <= r <=> q[2] <= Dst.recordCount
    OBVIOUS
  <2>2. q[2] \in 1..Elements /\ q = Spelling(q[2])
    BY <2>1, PlaceKinds, KindsDiffer
  <2>3. q[2] # r /\ q[2] \in Int
    BY <2>1, <2>2 DEF Sized
  <2>4. QED
    BY <1>2, <2>3
<1>8. ~Holds(Dst, Spelling(r))
  BY <1>2, <1>6 DEF Holds
\* What counting record r with the spelling b does.
<1>9. ASSUME NEW b \in {NoBlock} \union 1..Blocks
      PROVE  /\ given(b) \in Handle
             /\ Done(given(b), Src, 7) /\ given(b).at[Part("struct")] # NoBlock
             /\ given(b).at[Spelling(r)] = b /\ given(b).recordCount = r
             /\ \A q \in Places \ {Spelling(r)} :
                  /\ Holds(given(b), q) <=> Holds(Dst, q)
                  /\ Holds(given(b), q) => given(b).at[q] = Dst.at[q]
             /\ Trim(given(b), 0, 0)
  <2> DEFINE m == Put(Dst, {Spelling(r)}, b)
             y == given(b)
  <2>1. /\ m \in Handle
        /\ \A q \in Places : m.at[q] = IF q \in {Spelling(r)} THEN b ELSE Dst.at[q]
        /\ m.groupCount = Dst.groupCount /\ m.partCount = Dst.partCount
        /\ m.records = Dst.records /\ m.groups = Dst.groups
    BY <1>4, PutIsHandle
  <2>2. r \in 0..Elements
    BY <1>2
  <2>3. y = [m EXCEPT !.recordCount = r]
    OBVIOUS
  <2> HIDE DEF m, y
  <2>4. /\ y \in Handle /\ y.at = m.at /\ y.recordCount = r
        /\ y.groupCount = m.groupCount /\ y.partCount = m.partCount
        /\ y.records = m.records /\ y.groups = m.groups
    BY <2>1, <2>2, <2>3, CountedIsHandle
  <2>5. \A q \in Places : q # Spelling(r) => y.at[q] = Dst.at[q]
    BY <2>1, <2>4
  <2>6. y.at[Spelling(r)] = b
    BY <1>6, <2>1, <2>4
  <2>7. \A p \in Parts : y.at[Part(p)] = Dst.at[Part(p)]
    BY <1>6, <2>5
  <2>8. y.recordCount <= y.records
    BY <1>2, <2>1, <2>4
  <2>9. Done(y, Src, 7) /\ y.at[Part("struct")] # NoBlock
    BY <1>2, <1>4, <2>1, <2>4, <2>7, <2>8, DoneWithStrings
  <2>10. ASSUME NEW q \in Places \ {Spelling(r)}
         PROVE  /\ Holds(y, q) <=> Holds(Dst, q)
                /\ Holds(y, q) => y.at[q] = Dst.at[q]
    <3>1. y.at[q] = Dst.at[q] /\ y.at[Part("sql")] = Dst.at[Part("sql")]
      BY <2>5, <2>7, <2>10 DEF Parts
    <3>2. q[1] = "spelling" => (q[2] <= y.recordCount <=> q[2] <= Dst.recordCount)
      BY <1>7, <2>4, <2>10
    <3>3. QED
      BY <3>1, <3>2 DEF Holds
  <2>11. \A i \in 1..Elements : y.at[Original(i)] = Dst.at[Original(i)]
    BY <1>2, <2>5, PlacesOfKinds, StringPlaces
  <2>12. \A e \in 1..Elements : \A c \in 1..MaxParts : y.at[Component(e, c)] = Dst.at[Component(e, c)]
    BY <1>2, <2>5, PlacesOfKinds, StringPlaces
  <2>13. Trim(y, 0, 0)
    BY <1>2, <2>1, <2>4, <2>11, <2>12 DEF Trim, Sized
  <2>14. QED
    BY <2>4, <2>6, <2>9, <2>10, <2>13 DEF y
<1> HIDE DEF given
<1>10. CASE heap # 1..Blocks /\ Proceed(given(NewBlock), IndexOfStep("original"))
  <2>1. NewBlock \in {NoBlock} \union 1..Blocks /\ NewBlock # NoBlock
    BY <1>1, <1>10, DuringCopy, NewBlockIsFree
  <2> DEFINE x == given(NewBlock)
  <2>2. /\ x \in Handle
        /\ Done(x, Src, 7) /\ x.at[Part("struct")] # NoBlock
        /\ x.at[Spelling(r)] = NewBlock /\ x.recordCount = r
        /\ \A q \in Places \ {Spelling(r)} :
             /\ Holds(x, q) <=> Holds(Dst, q)
             /\ Holds(x, q) => x.at[q] = Dst.at[q]
        /\ Trim(x, 0, 0)
    BY <1>9, <2>1
  <2>3. Proceed(x, 7)
    BY <1>5, <1>10
  <2> HIDE DEF x
  <2>4. Holds(x, Spelling(r))
    BY <1>2, <1>6, <2>1, <2>2 DEF Holds
  <2>5. Gains(Dst, x, Spelling(r), NewBlock)
    BY <1>8, <2>2, <2>4 DEF Gains
  <2>6. QED
    BY <1>1, <1>6, <1>10, <2>2, <2>3, <2>5, ProceedKeeps
<1>11. CASE Abandon(given(NoBlock))
  <2>1. NoBlock \in {NoBlock} \union 1..Blocks
    OBVIOUS
  <2> DEFINE x == given(NoBlock)
  <2>2. /\ x \in Handle
        /\ x.at[Part("struct")] # NoBlock /\ x.at[Spelling(r)] = NoBlock
        /\ \A q \in Places \ {Spelling(r)} :
             /\ Holds(x, q) <=> Holds(Dst, q)
             /\ Holds(x, q) => x.at[q] = Dst.at[q]
        /\ Trim(x, 0, 0)
    BY <1>9, <2>1
  <2>3. Abandon(x)
    BY <1>11
  <2> HIDE DEF x
  <2>4. ~Holds(x, Spelling(r))
    BY <2>2 DEF Holds
  <2>5. \A q \in Places : /\ Holds(x, q) <=> Holds(Dst, q)
                          /\ Holds(x, q) => x.at[q] = Dst.at[q]
    BY <1>8, <2>2, <2>4
  <2>6. QED
    BY <1>1, <2>2, <2>3, <2>5, AbandonKeeps
<1>12. QED
  BY <1>3, <1>10, <1>11

\* The group the copy is at, and its places.
LEMMA ClonePartOfGroupKeeps ==
    ASSUME Sized, IInv, ClonePartOfGroup
    PROVE  IInv'
<1> DEFINE g == Dst.groupCount + 1
           c == Dst.partCount[g] + 1
           m == Put(Dst, {Component(g, c)}, NewBlock)
           x == [m EXCEPT !.partCount = [@ EXCEPT ![g] = c],
                          !.groupCount = IF c = Src.partCount[g] THEN g ELSE @]
           y == [Dst EXCEPT !.groupCount = g]
<1>1. step = "component" /\ step # "idle"
  BY DEF ClonePartOfGroup
<1>2. \/ heap # 1..Blocks /\ Proceed(x, IndexOfStep("component"))
      \/ Abandon(y)
  BY DEF ClonePartOfGroup
<1>3. /\ Src \in Handle /\ Dst \in Handle /\ Dst.at[Part("struct")] # NoBlock
      /\ Copying(Dst, Src, "component")
  BY <1>1, DuringCopy
<1>4. Done(Dst, Src, 9) /\ Trim(Dst, 0, 1) /\ Dst.groupCount < Src.groups
      /\ Dst.partCount[g] < Src.partCount[g]
  BY <1>3, PositionsInOrder DEF Copying
<1>5. /\ Dst.groupCount \in Nat /\ Src.groups \in 0..Elements /\ Dst.groups = Src.groups
      /\ Dst.partCount \in [1..Elements -> 0..MaxParts]
      /\ Src.partCount \in [1..Elements -> 0..MaxParts]
      /\ Dst.recordCount \in Nat /\ Dst.recordCount <= Dst.records
      /\ Dst.recordCount = Dst.records
  <2>1. /\ Dst.groupCount \in 0..Elements /\ Src.groups \in 0..Elements
        /\ Dst.recordCount \in 0..Elements
        /\ Dst.partCount \in [1..Elements -> 0..MaxParts]
        /\ Src.partCount \in [1..Elements -> 0..MaxParts]
    BY <1>3, HandleFields
  <2>2. Dst.groups = Src.groups /\ Dst.recordCount <= Dst.records /\ Dst.recordCount = Dst.records
    BY <1>4 DEF Done
  <2>3. QED
    BY <2>1, <2>2 DEF Sized
<1>6. g \in 1..Elements /\ g <= Src.groups /\ g = Dst.groupCount + 1
  <2>1. Dst.groupCount \in Nat /\ Src.groups \in 0..Elements /\ Dst.groupCount < Src.groups
    BY <1>4, <1>5
  <2>2. QED
    BY <2>1 DEF Sized
<1>7. Dst.partCount[g] \in Nat /\ Src.partCount[g] \in 0..MaxParts
  <2>1. Dst.partCount[g] \in 0..MaxParts /\ Src.partCount[g] \in 0..MaxParts
    BY <1>5, <1>6
  <2>2. QED
    BY <2>1 DEF Sized
<1>8. c \in 1..MaxParts /\ c <= Src.partCount[g] /\ c = Dst.partCount[g] + 1
  <2>1. Dst.partCount[g] < Src.partCount[g]
    BY <1>4
  <2>2. QED
    BY <1>7, <2>1 DEF Sized
<1> HIDE DEF g, c
<1>9. IndexOfStep("component") = 9
  BY OrderPositions, IndexIsPosition
<1>10. /\ Component(g, c) \in Places /\ Component(g, c)[1] = "component"
       /\ \A p \in Parts : Part(p) \in Places /\ Part(p) # Component(g, c)
       /\ \A i : Original(i) # Component(g, c)
       /\ \A e, f : Component(e, f) = Component(g, c) <=> e = g /\ f = c
  BY <1>6, <1>8, PlacesOfKinds, PartPlaces DEF Component, Original
<1>11. Dst.at[Component(g, c)] = NoBlock /\ ~Holds(Dst, Component(g, c))
  <2>1. ~(c <= Dst.partCount[g])
    BY <1>7, <1>8
  <2>2. Dst.at[Component(g, c)] = NoBlock
    BY <1>4, <1>6, <1>8, <2>1 DEF Trim
  <2>3. QED
    BY <2>2 DEF Holds
<1>12. CASE heap # 1..Blocks /\ Proceed(x, IndexOfStep("component"))
  <2>1. NewBlock \in 1..Blocks /\ NewBlock # NoBlock
    BY <1>1, <1>12, DuringCopy, NewBlockIsFree
  <2>2. /\ m \in Handle
        /\ \A q \in Places : m.at[q] = IF q \in {Component(g, c)} THEN NewBlock ELSE Dst.at[q]
        /\ m.recordCount = Dst.recordCount /\ m.groupCount = Dst.groupCount
        /\ m.partCount = Dst.partCount /\ m.records = Dst.records /\ m.groups = Dst.groups
    BY <1>3, <2>1, PutIsHandle
  <2> HIDE DEF m
  <2> DEFINE n == IF c = Src.partCount[g] THEN g ELSE Dst.groupCount
             pc == [Dst.partCount EXCEPT ![g] = c]
  <2>3. x = [m EXCEPT !.partCount = pc, !.groupCount = n]
    BY <2>2
  <2>4. pc \in [1..Elements -> 0..MaxParts] /\ n \in 0..Elements
    <3>1. c \in 0..MaxParts /\ g \in 0..Elements /\ Dst.groupCount \in 0..Elements
      BY <1>3, <1>6, <1>8, HandleFields DEF Sized
    <3>2. QED
      BY <1>5, <3>1
  <2>5. \A e \in 1..Elements : pc[e] = IF e = g THEN c ELSE Dst.partCount[e]
    BY <1>5
  <2>6. n = IF c = Src.partCount[g] THEN g ELSE Dst.groupCount
    OBVIOUS
  <2>7. Proceed(x, 9)
    BY <1>9, <1>12
  <2> HIDE DEF x, pc, n
  <2>8. /\ x \in Handle /\ x.at = m.at /\ x.recordCount = Dst.recordCount
        /\ x.groupCount = n /\ x.partCount = pc /\ x.records = Dst.records /\ x.groups = Dst.groups
    <3>1. x \in Handle
      BY <2>2, <2>3, <2>4, ZenonT(40) DEF Handle
    <3>2. /\ x.at = m.at /\ x.recordCount = m.recordCount
          /\ x.groupCount = n /\ x.partCount = pc /\ x.records = m.records /\ x.groups = m.groups
      BY <2>2, <2>3 DEF Handle
    <3>3. QED
      BY <2>2, <3>1, <3>2
  <2>9. x.at[Component(g, c)] = NewBlock
        /\ \A q \in Places : q # Component(g, c) => x.at[q] = Dst.at[q]
    BY <1>10, <2>2, <2>8
  <2>10. \A p \in Parts : x.at[Part(p)] = Dst.at[Part(p)]
    BY <1>10, <2>9
  <2>11. n \in Nat /\ n <= Src.groups /\ Dst.groupCount <= n
    BY <1>4, <1>5, <1>6, <2>6
  <2>12. Done(x, Src, 9) /\ x.at[Part("struct")] # NoBlock
    BY <1>3, <1>4, <1>5, <2>8, <2>10, <2>11, DoneWithStrings
  <2>13. Gains(Dst, x, Component(g, c), NewBlock)
    <3>1. Holds(x, Component(g, c))
      BY <1>10, <2>1, <2>9 DEF Holds
    <3>2. \A q \in Places \ {Component(g, c)} :
            /\ Holds(x, q) <=> Holds(Dst, q)
            /\ Holds(x, q) => x.at[q] = Dst.at[q]
      BY <2>8, <2>9, <2>10 DEF Holds, Parts
    <3>3. QED
      BY <1>11, <2>9, <3>1, <3>2 DEF Gains
  <2>14. \A i \in 1..Elements : x.at[Original(i)] # NoBlock => i <= x.recordCount + 0
    BY <1>4, <1>10, <2>8, <2>9, PlacesOfKinds DEF Trim
  <2>15. \A e \in 1..Elements : \A f \in 1..MaxParts :
           x.at[Component(e, f)] # NoBlock => f <= x.partCount[e]
    <3>1. SUFFICES ASSUME NEW e \in 1..Elements, NEW f \in 1..MaxParts,
                          x.at[Component(e, f)] # NoBlock
          PROVE  f <= x.partCount[e]
      OBVIOUS
    <3>2. CASE e = g /\ f = c
      BY <1>8, <2>5, <2>8, <3>2
    <3>3. CASE ~(e = g /\ f = c)
      <4>1. f <= Dst.partCount[e]
        BY <1>4, <1>10, <2>9, <3>1, <3>3, PlacesOfKinds DEF Trim
      <4>2. QED
        BY <1>5, <1>7, <1>8, <2>5, <2>8, <4>1
    <3>4. QED
      BY <3>2, <3>3
  <2>16. \A e \in 1..Elements : x.partCount[e] # 0 => e <= Dst.groupCount + 1
    <3>1. \A e \in 1..Elements : Dst.partCount[e] # 0 => e <= Dst.groupCount + 1
      BY <1>4 DEF Trim
    <3>2. QED
      BY <1>6, <2>5, <2>8, <3>1
  <2>17. CASE c = Src.partCount[g]
    <3>1. x.groupCount = Dst.groupCount + 1
      BY <1>6, <2>6, <2>8, <2>17
    <3>2. Trim(x, 0, 0)
      BY <1>5, <2>14, <2>15, <2>16, <3>1 DEF Trim
    <3>3. QED
      BY <1>1, <1>10, <1>12, <2>7, <2>8, <2>12, <2>13, <3>2, ProceedKeeps
  <2>18. CASE c # Src.partCount[g]
    <3>1. x.groupCount = Dst.groupCount
      BY <2>6, <2>8, <2>18
    <3>2. Trim(x, 0, 1)
      BY <1>5, <2>14, <2>15, <2>16, <3>1 DEF Trim
    <3>3. Unfinished(x)
      <4>1. x.partCount[g] = c /\ c < Src.partCount[g]
        BY <1>6, <1>7, <1>8, <2>5, <2>8, <2>18
      <4>2. QED
        BY <1>4, <1>6, <3>1, <4>1 DEF Unfinished
    <3>4. QED
      BY <1>1, <1>10, <1>12, <2>7, <2>8, <2>12, <2>13, <3>2, <3>3, ProceedKeeps
  <2>19. QED
    BY <2>17, <2>18
<1>13. CASE Abandon(y)
  <2>1. g \in 0..Elements
    BY <1>6
  <2>2. /\ y \in Handle /\ y.at = Dst.at /\ y.recordCount = Dst.recordCount
        /\ y.groupCount = Dst.groupCount + 1 /\ y.partCount = Dst.partCount
    <3>1. y \in Handle
      BY <1>3, <2>1, ZenonT(40) DEF Handle
    <3>2. QED
      BY <1>3, <1>6, <3>1 DEF Handle
  <2>3. Abandon(y)
    BY <1>13
  <2> HIDE DEF y
  <2>4. Trim(y, 0, 0)
    BY <1>4, <1>5, <2>2 DEF Trim
  <2>5. \A q \in Places : /\ Holds(y, q) <=> Holds(Dst, q)
                          /\ Holds(y, q) => y.at[q] = Dst.at[q]
    BY <2>2 DEF Holds
  <2>6. QED
    BY <1>1, <1>3, <2>2, <2>3, <2>4, <2>5, AbandonKeeps
<1>14. QED
  BY <1>2, <1>12, <1>13
-----------------------------------------------------------------------------
(* The steps outside a copy.                                               *)

\* Outside a copy the invariant asks for whole handles.
LEMMA IdleKeeps ==
    ASSUME Types', (wild = FALSE)', (step = "idle")', Owned(heap, handle)',
           \A h \in Handles : (Exists(h)' \/ handle'[h] = NoHandle) /\ Whole(handle'[h])
    PROVE  IInv'
BY DEF IInv

\* What the invariant says outside a copy.
LEMMA BetweenCopies ==
    ASSUME IInv, step = "idle"
    PROVE  /\ handle \in [Handles -> Handle] /\ heap \subseteq 1..Blocks /\ wild = FALSE
           /\ Owned(heap, handle) /\ Src \in Handle /\ "owner" \in Handles
           /\ \A h \in Handles : /\ handle[h] \in Handle /\ Whole(handle[h])
                                 /\ Exists(h) \/ handle[h] = NoHandle
BY DEF IInv, Types, Src, Handles

\* y is x in the block b.
Housed(x, y, b) ==
  /\ Part("struct") \in Places
  /\ Holds(y, Part("struct")) /\ y.at[Part("struct")] = b
  /\ \A pl \in Places \ {Part("struct")} :
       /\ Holds(y, pl) <=> Holds(x, pl)
       /\ y.at[pl] = x.at[pl]
  /\ y.records = x.records /\ y.recordCount = x.recordCount
  /\ y.groups = x.groups /\ y.groupCount = x.groupCount /\ y.partCount = x.partCount

\* A handle that is given a block for itself.
LEMMA StructIsPut ==
    ASSUME Sized, NEW x \in Handle, Whole(x), NEW b \in 1..Blocks, NEW y,
           y = Put(x, {Part("struct")}, b)
    PROVE  y \in Handle /\ Whole(y) /\ y.at[Part("struct")] # NoBlock /\ Housed(x, y, b)
<1>1. b \in {NoBlock} \union 1..Blocks /\ b # NoBlock
  BY DEF NoBlock
<1>2. /\ y \in Handle
      /\ \A q \in Places : y.at[q] = IF q \in {Part("struct")} THEN b ELSE x.at[q]
      /\ y.recordCount = x.recordCount /\ y.groupCount = x.groupCount
      /\ y.partCount = x.partCount /\ y.records = x.records /\ y.groups = x.groups
  BY <1>1, PutIsHandle
<1>3. "struct" \in Parts /\ "sql" \in Parts /\ "records" \in Parts /\ "groups" \in Parts
  BY DEF Parts
<1>4. /\ Part("struct") \in Places /\ Part("struct")[1] = "struct"
      /\ \A p \in Parts : Part(p) \in Places /\ (Part(p) = Part("struct") <=> p = "struct")
  BY <1>3, PartPlaces DEF Part
<1>5. \A q \in Places : q # Part("struct") => y.at[q] = x.at[q]
  BY <1>2
<1>6. y.at[Part("struct")] = b /\ Holds(y, Part("struct"))
  BY <1>1, <1>2, <1>4 DEF Holds
<1>7. y.at[Part("sql")] = x.at[Part("sql")] /\ y.at[Part("records")] = x.at[Part("records")]
      /\ y.at[Part("groups")] = x.at[Part("groups")]
  BY <1>3, <1>4, <1>5
<1>8. \A pl \in Places \ {Part("struct")} : Holds(y, pl) <=> Holds(x, pl)
  BY <1>2, <1>5, <1>7 DEF Holds
<1>9. \A i \in 1..Elements : y.at[Original(i)] = x.at[Original(i)]
  <2>1. SUFFICES ASSUME NEW i \in 1..Elements
        PROVE  y.at[Original(i)] = x.at[Original(i)]
    OBVIOUS
  <2>2. Original(i) \in Places
    BY PlacesOfKinds
  <2>3. Original(i) # Part("struct")
    BY <1>3, StringPlaces
  <2>4. QED
    BY <1>5, <2>2, <2>3
<1>10. \A e \in 1..Elements : \A c \in 1..MaxParts : y.at[Component(e, c)] = x.at[Component(e, c)]
  <2>1. SUFFICES ASSUME NEW e \in 1..Elements, NEW c \in 1..MaxParts
        PROVE  y.at[Component(e, c)] = x.at[Component(e, c)]
    OBVIOUS
  <2>2. Component(e, c) \in Places
    BY PlacesOfKinds
  <2>3. Component(e, c) # Part("struct")
    BY <1>3, PartPlaces
  <2>4. QED
    BY <1>5, <2>2, <2>3
<1>11. Trim(y, 0, 0)
  BY <1>2, <1>9, <1>10 DEF Whole, Trim
<1>12. Counted(y) /\ Arrays(y)
  BY <1>2, <1>7 DEF Whole, Counted, Arrays
<1>13. QED
  BY <1>1, <1>2, <1>4, <1>5, <1>6, <1>8, <1>11, <1>12 DEF Whole, Housed

\* A new tree for a compact INSERT.
LEMMA PromoteKeeps ==
    ASSUME Sized, IInv, Promote
    PROVE  IInv'
<1> DEFINE tree == Part("tree")
           b == NewBlock
           y == Put(Src, {tree}, NoBlock)
           z == Put(Src, {tree}, b)
           x == [z EXCEPT !.compact = FALSE]
           D == {pl \in Places : Holds(Src, pl) /\ pl = tree}
<1>1. /\ step = "idle" /\ Exists("owner") /\ heap # 1..Blocks
      /\ handle' = [handle EXCEPT !["owner"] = x]
      /\ heap' = (heap \ {Src.at[tree]}) \union {b}
      /\ wild' = wild /\ step' = step
  BY DEF Promote, Src
<1>2. /\ handle \in [Handles -> Handle] /\ heap \subseteq 1..Blocks /\ wild = FALSE
      /\ Owned(heap, handle) /\ Src \in Handle /\ "owner" \in Handles
      /\ \A h \in Handles : /\ handle[h] \in Handle /\ Whole(handle[h])
                            /\ Exists(h) \/ handle[h] = NoHandle
  BY <1>1, BetweenCopies
<1>3. b \in 1..Blocks /\ b \notin heap /\ b # NoBlock
  BY <1>1, <1>2, NewBlockIsFree
<1> HIDE DEF b
<1>4. "struct" \in Parts /\ "sql" \in Parts /\ "records" \in Parts /\ "groups" \in Parts
      /\ "tree" \in Parts
  BY DEF Parts
<1>5. /\ tree \in Places /\ tree[1] = "tree"
      /\ \A p \in Parts : Part(p) \in Places /\ (Part(p) = tree <=> p = "tree")
  BY <1>4, PartPlaces DEF Part
<1>6. y \in Handle /\ (\A q \in Places : y.at[q] = IF q \in {tree} THEN NoBlock ELSE Src.at[q])
      /\ y.recordCount = Src.recordCount
  <2>1. NoBlock \in {NoBlock} \union 1..Blocks
    OBVIOUS
  <2>2. QED
    BY <1>2, <2>1, PutIsHandle
<1>7. z \in Handle /\ (\A q \in Places : z.at[q] = IF q \in {tree} THEN b ELSE Src.at[q])
      /\ z.recordCount = Src.recordCount /\ z.groupCount = Src.groupCount
      /\ z.partCount = Src.partCount /\ z.records = Src.records /\ z.groups = Src.groups
  BY <1>2, <1>3, PutIsHandle
<1> HIDE DEF y, z
<1>8. x \in Handle /\ x.at = z.at /\ x.recordCount = Src.recordCount
      /\ x.groupCount = Src.groupCount
      /\ x.partCount = Src.partCount /\ x.records = Src.records /\ x.groups = Src.groups
  <2>1. x \in Handle
    BY <1>7, ZenonT(40) DEF Handle
  <2>2. QED
    BY <1>7, <2>1 DEF Handle
<1> HIDE DEF x, tree
<1>9. \A q \in Places : q # tree => y.at[q] = Src.at[q] /\ x.at[q] = Src.at[q]
  BY <1>6, <1>7, <1>8
<1>10. \A p \in Parts : p # "tree" => y.at[Part(p)] = Src.at[Part(p)] /\ x.at[Part(p)] = Src.at[Part(p)]
  BY <1>5, <1>9
<1>11. y.at[tree] = NoBlock /\ x.at[tree] = b
  BY <1>5, <1>6, <1>7, <1>8
<1>12. Loses(Src, y, D)
  <2>1. ~Holds(y, tree)
    BY <1>11 DEF Holds
  <2>2. \A q \in Places : q # tree => (Holds(y, q) <=> Holds(Src, q)) /\ y.at[q] = Src.at[q]
    BY <1>4, <1>6, <1>9, <1>10 DEF Holds
  <2>3. QED
    BY <2>1, <2>2 DEF Loses
<1>13. Gains(y, x, tree, b)
  <2>1. Holds(x, tree) /\ ~Holds(y, tree)
    BY <1>3, <1>5, <1>11 DEF Holds
  <2>2. \A q \in Places : q # tree => (Holds(x, q) <=> Holds(y, q)) /\ x.at[q] = y.at[q]
    BY <1>4, <1>6, <1>8, <1>9, <1>10 DEF Holds
  <2>3. QED
    BY <1>11, <2>1, <2>2 DEF Gains
<1>14. Owned((heap \ {Src.at[tree]}) \union {b}, [handle EXCEPT !["owner"] = x])
  <2>1. D \subseteq HeldAt(handle["owner"])
    BY DEF HeldAt, Src
  <2>2. BlocksAt(Src, D) \subseteq {Src.at[tree]}
    BY DEF BlocksAt
  <2>3. heap \ BlocksAt(Src, D) = heap \ {Src.at[tree]}
    <3>1. CASE Holds(Src, tree)
      <4>1. tree \in D
        BY <1>5, <3>1
      <4>2. QED
        BY <2>2, <4>1 DEF BlocksAt
    <3>2. CASE ~Holds(Src, tree)
      <4>1. Src.at[tree] = NoBlock
        BY <1>5, <3>2 DEF Holds
      <4>2. NoBlock \notin heap
        BY <1>2 DEF NoBlock
      <4>3. QED
        BY <2>2, <4>1, <4>2
    <3>3. QED
      BY <3>1, <3>2
  <2> HIDE DEF D
  <2> DEFINE hd == [handle EXCEPT !["owner"] = y]
  <2>4. Owned(heap \ BlocksAt(Src, D), hd)
    BY <1>2, <1>12, <2>1, OwnerLoses DEF Src
  <2>5. hd \in [Handles -> Handle] /\ hd["owner"] = y
    BY <1>2, <1>6
  <2>6. [hd EXCEPT !["owner"] = x] = [handle EXCEPT !["owner"] = x]
    BY <1>2
  <2> HIDE DEF hd
  <2>7. b \notin heap \ {Src.at[tree]}
    BY <1>3
  <2>8. Owned((heap \ {Src.at[tree]}) \union {b}, [hd EXCEPT !["owner"] = x])
    BY <1>2, <1>5, <1>13, <2>3, <2>4, <2>5, <2>7, OwnerGains
  <2>9. QED
    BY <2>6, <2>8
<1>15. Whole(x) /\ x.at[Part("struct")] # NoBlock
  <2>1. Whole(Src)
    BY <1>2 DEF Src
  <2>2. \A i \in 1..Elements : x.at[Original(i)] = Src.at[Original(i)]
    BY <1>4, <1>9, PlacesOfKinds, PartPlaces DEF tree
  <2>3. \A e \in 1..Elements : \A c \in 1..MaxParts : x.at[Component(e, c)] = Src.at[Component(e, c)]
    BY <1>4, <1>9, PlacesOfKinds, PartPlaces DEF tree
  <2>4. Trim(x, 0, 0)
    BY <1>8, <2>1, <2>2, <2>3 DEF Whole, Trim
  <2>5. Counted(x) /\ Arrays(x)
    BY <1>4, <1>8, <1>10, <2>1 DEF Whole, Counted, Arrays
  <2>6. x.at[Part("struct")] # NoBlock
    BY <1>1, <1>4, <1>10 DEF Exists, Src
  <2>7. QED
    BY <2>4, <2>5, <2>6 DEF Whole
<1>16. \A h \in Handles : handle'[h] = IF h = "owner" THEN x ELSE handle[h]
  BY <1>1, <1>2
<1>17. Types'
  <2>1. heap' \subseteq 1..Blocks
    BY <1>1, <1>2, <1>3
  <2>2. handle' \in [Handles -> Handle]
    BY <1>1, <1>2, <1>8
  <2>3. QED
    BY <1>1, <2>1, <2>2, PartsAreSteps DEF Types
<1>18. \A h \in Handles : (Exists(h)' \/ handle'[h] = NoHandle) /\ Whole(handle'[h])
  BY <1>2, <1>15, <1>16 DEF Exists
<1>19. QED
  BY <1>1, <1>2, <1>14, <1>17, <1>18, IdleKeeps

\* The first block of a copy.
LEMMA BeginCloneKeeps ==
    ASSUME Sized, IInv, BeginClone
    PROVE  IInv'
<1> DEFINE b == NewBlock
           x == Put(NoHandle, {Part("struct")}, b)
<1>1. /\ step = "idle" /\ Exists("owner") /\ heap # 1..Blocks /\ ~Exists("copy")
      /\ heap' = heap \union {b} /\ step' = "sql" /\ wild' = wild
      /\ handle' = [handle EXCEPT !["copy"] = Put(@, {Part("struct")}, b)]
  BY DEF BeginClone
<1>2. /\ handle \in [Handles -> Handle] /\ heap \subseteq 1..Blocks /\ wild = FALSE
      /\ Owned(heap, handle) /\ Src \in Handle /\ "owner" \in Handles
      /\ \A h \in Handles : /\ handle[h] \in Handle /\ Whole(handle[h])
                            /\ Exists(h) \/ handle[h] = NoHandle
  BY <1>1, BetweenCopies
<1>3. b \in 1..Blocks /\ b \notin heap /\ b # NoBlock
  BY <1>1, <1>2, NewBlockIsFree
<1>4. "copy" \in Handles /\ handle["copy"] = NoHandle
  BY <1>1, <1>2 DEF Handles
<1>5. handle' = [handle EXCEPT !["copy"] = x]
  BY <1>1, <1>2, <1>4
<1>6. /\ x \in Handle /\ Whole(x) /\ x.at[Part("struct")] # NoBlock
      /\ Part("struct") \in Places
      /\ Holds(x, Part("struct")) /\ x.at[Part("struct")] = b
      /\ \A pl \in Places \ {Part("struct")} :
           /\ Holds(x, pl) <=> Holds(NoHandle, pl)
           /\ x.at[pl] = NoHandle.at[pl]
      /\ x.records = 0 /\ x.recordCount = 0 /\ x.groups = 0 /\ x.groupCount = 0
  <2>1. /\ NoHandle \in Handle /\ Whole(NoHandle)
        /\ NoHandle.records = 0 /\ NoHandle.recordCount = 0
        /\ NoHandle.groups = 0 /\ NoHandle.groupCount = 0
    BY NoHandleIsOne DEF NoHandle
  <2>2. x = Put(NoHandle, {Part("struct")}, b)
    OBVIOUS
  <2> HIDE DEF x, b
  <2>3. x \in Handle /\ Whole(x) /\ x.at[Part("struct")] # NoBlock /\ Housed(NoHandle, x, b)
    BY <1>3, <2>1, <2>2, StructIsPut
  <2>4. QED
    BY <2>1, <2>3 DEF Housed
<1> HIDE DEF x, b
<1>7. \A pl \in Places : ~Holds(NoHandle, pl)
  BY NoHandleIsOne
<1>8. Gains(NoHandle, x, Part("struct"), b)
  BY <1>6, <1>7 DEF Gains
<1>9. Owned(heap, handle)'
  <2>1. Owned(heap \union {b}, [handle EXCEPT !["copy"] = x])
    BY <1>2, <1>3, <1>4, <1>6, <1>8, OwnerGains
  <2>2. QED
    BY <1>1, <1>5, <2>1
<1>10. Done(x, Src, 1)
  <2>1. \A p \in Parts \ {"struct"} : x.at[Part(p)] = NoBlock
    <3>1. SUFFICES ASSUME NEW p \in Parts \ {"struct"} PROVE x.at[Part(p)] = NoBlock
      OBVIOUS
    <3>2. Part(p) \in Places \ {Part("struct")}
      BY PartPlaces DEF Parts
    <3>3. NoHandle.at[Part(p)] = NoBlock
      BY <3>2 DEF NoHandle
    <3>4. QED
      BY <1>6, <3>2, <3>3
  <2>2. Arrays(x)
    BY <1>6 DEF Arrays
  <2>3. "parser" \in Parts \ {"struct"}
    BY DEF Parts
  <2>4. QED
    BY <1>6, <2>1, <2>2, <2>3 DEF Done
<1>11. Copying(x, Src, "sql")
  BY <1>6, <1>10, PositionsInOrder DEF Copying, Whole
<1>12. \A h \in Handles : handle'[h] = IF h = "copy" THEN x ELSE handle[h]
  BY <1>2, <1>5
<1>13. Types'
  <2>1. heap' \subseteq 1..Blocks
    BY <1>1, <1>2, <1>3
  <2>2. handle' \in [Handles -> Handle]
    BY <1>2, <1>5, <1>6
  <2>3. "sql" \in Steps
    BY DEF Steps, Order
  <2>4. QED
    BY <1>1, <2>1, <2>2, <2>3 DEF Types
<1>14. \A h \in Handles : Exists(h)' \/ handle'[h] = NoHandle
  BY <1>2, <1>6, <1>12 DEF Exists
<1>15. \A h \in Handles : (h # "copy" \/ step' = "idle") => Whole(handle'[h])
  BY <1>1, <1>2, <1>12
<1>16. Exists("owner")' /\ Exists("copy")' /\ Copying(Dst, Src, step)'
  <2>1. Dst' = x /\ Src' = Src
    BY <1>2, <1>4, <1>12 DEF Dst, Src
  <2>2. Exists("owner")' /\ Exists("copy")'
    BY <1>1, <1>2, <1>4, <1>6, <1>12 DEF Exists
  <2>3. QED
    BY <1>1, <1>11, <2>1, <2>2
<1>17. (wild = FALSE)'
  BY <1>1, <1>2
<1>18. QED
  BY <1>9, <1>13, <1>14, <1>15, <1>16, <1>17 DEF IInv
\* A parsed handle takes blocks above those in use.
LEMMA ParsedArrives ==
    ASSUME Sized, NEW s, IsShape(s), NEW n \in Nat, NEW B, \A b \in B : b <= n,
           NEW hd \in [Handles -> Handle], Owned(B, hd), NEW h \in Handles, hd[h] = NoHandle,
           NEW x, x = Parsed(s, n)
    PROVE  Owned(B \union BlocksAt(x, Destroyed(x)), [hd EXCEPT ![h] = x])
<1>1. \A pl \in Places : Holds(x, pl) => /\ x.at[pl] = n + Number(pl)
                                         /\ Number(pl) \in Nat \ {0}
  BY ParsedHolds, ParsedPlaces, NumberIsPositive
<1>2. \A pl \in HeldAt(x) : x.at[pl] \notin B
  <2>1. SUFFICES ASSUME NEW pl \in HeldAt(x), x.at[pl] \in B PROVE FALSE
    OBVIOUS
  <2>2. x.at[pl] = n + Number(pl) /\ Number(pl) \in Nat \ {0}
    BY <1>1 DEF HeldAt
  <2>3. n + Number(pl) <= n
    BY <2>1, <2>2
  <2>4. QED
    BY <2>2, <2>3
<1>3. Apart(x, HeldAt(x))
  <2>1. SUFFICES ASSUME NEW pl \in Places, NEW q \in Places, Holds(x, pl), Holds(x, q),
                        x.at[pl] = x.at[q]
        PROVE  pl = q
    BY DEF Apart, HeldAt
  <2>2. PICK k \in Nat : k = Number(pl)
    BY <1>1, <2>1
  <2>3. PICK l \in Nat : l = Number(q)
    BY <1>1, <2>1
  <2>4. n + k = n + l
    BY <1>1, <2>1, <2>2, <2>3
  <2>5. k = l
    BY <2>4
  <2>6. QED
    BY <2>2, <2>3, <2>5, NumbersDiffer
<1>4. Destroyed(x) = HeldAt(x)
  <2>1. \A pl \in Places : Holds(x, pl) => pl \in Destroyed(x)
    BY ParsedHolds
  <2>2. Part("struct") \in Places /\ Part("struct")[1] = "struct"
    BY PlacesOfKinds DEF Parts
  <2>3. Holds(x, Part("struct"))
    BY <2>2, ParsedHolds DEF Fills, Optional
  <2>4. \A pl \in Released(x) : Holds(x, pl)
    <3>1. SUFFICES ASSUME NEW pl \in Places, x.at[pl] # NoBlock, Reached(x, pl)
          PROVE  Holds(x, pl)
      BY DEF Released
    <3>2. QED
      BY <3>1 DEF Reached, Holds
  <2>5. QED
    BY <2>1, <2>2, <2>3, <2>4 DEF Destroyed, HeldAt, Released
<1>5. \A pl \in Places : ~Holds(hd[h], pl)
  BY NoHandleIsOne
<1>6. Owned(B \union BlocksAt(x, HeldAt(x)), [hd EXCEPT ![h] = x])
  BY <1>2, <1>3, <1>5, OwnerArrives
<1>7. QED
  BY <1>4, <1>6

\* A parsed handle alone.
LEMMA InitKeeps ==
    ASSUME Sized, Shaped, HandlesInit
    PROVE  IInv
<1>1. PICK s \in Shapes :
    /\ BlocksAt(Parsed(s, 0), Destroyed(Parsed(s, 0))) \subseteq 1..Blocks
    /\ handle = [h \in Handles |-> IF h = "owner" THEN Parsed(s, 0) ELSE NoHandle]
    /\ heap = BlocksAt(Parsed(s, 0), Destroyed(Parsed(s, 0)))
    /\ step = "idle"
    /\ wild = FALSE
  BY DEF HandlesInit
<1>2. IsShape(s) /\ 0 \in Nat
  BY DEF Shaped
<1> DEFINE x == Parsed(s, 0)
           none == [h \in Handles |-> NoHandle]
<1>3. x \in Handle /\ Whole(x) /\ x.at[Part("struct")] # NoBlock
  BY <1>1, <1>2, ParsedIsTyped, ParsedIsWhole
<1>4. none \in [Handles -> Handle] /\ "owner" \in Handles /\ none["owner"] = NoHandle
  BY NoHandleIsOne DEF Handles
<1>5. Owned({}, none)
  BY NoHandleIsOne DEF Owned
<1>6. handle = [none EXCEPT !["owner"] = x]
  BY <1>1
<1>7. x = Parsed(s, 0)
  OBVIOUS
<1> HIDE DEF x, none
<1>8. Owned({} \union BlocksAt(x, Destroyed(x)), [none EXCEPT !["owner"] = x])
  BY <1>2, <1>4, <1>5, <1>7, ParsedArrives
<1>9. Owned(heap, handle)
  <2>1. heap = {} \union BlocksAt(x, Destroyed(x))
    BY <1>1, <1>7
  <2>2. QED
    BY <1>6, <1>8, <2>1
<1>10. \A h \in Handles : handle[h] = IF h = "owner" THEN x ELSE NoHandle
  BY <1>1, <1>7
<1>11. Types
  <2>1. handle \in [Handles -> Handle]
    BY <1>3, <1>4, <1>6
  <2>2. QED
    BY <1>1, <2>1, PartsAreSteps DEF Types
<1>12. \A h \in Handles : (Exists(h) \/ handle[h] = NoHandle) /\ Whole(handle[h])
  BY <1>3, <1>10, NoHandleIsOne DEF Exists
<1>13. QED
  BY <1>1, <1>9, <1>11, <1>12 DEF IInv

\* A second parsed handle, whose blocks are new.
LEMMA ParseReplacementKeeps ==
    ASSUME Sized, Shaped, IInv, NEW s \in Shapes, ParseReplacement(s)
    PROVE  IInv'
<1>1. /\ step = "idle" /\ ~Exists("fresh") /\ step' = step /\ wild' = wild
  BY DEF ParseReplacement
<1>2. PICK top \in {0} \union heap :
        /\ \A b \in heap : b <= top
        /\ BlocksAt(Parsed(s, top), Destroyed(Parsed(s, top))) \subseteq 1..Blocks
        /\ handle' = [handle EXCEPT !["fresh"] = Parsed(s, top)]
        /\ heap' = heap \union BlocksAt(Parsed(s, top), Destroyed(Parsed(s, top)))
  BY DEF ParseReplacement
<1>3. /\ handle \in [Handles -> Handle] /\ heap \subseteq 1..Blocks /\ wild = FALSE
      /\ Owned(heap, handle)
      /\ \A h \in Handles : /\ handle[h] \in Handle /\ Whole(handle[h])
                            /\ Exists(h) \/ handle[h] = NoHandle
  BY <1>1, BetweenCopies
<1>4. top \in Nat
  BY <1>2, <1>3 DEF Sized
<1>5. IsShape(s)
  BY DEF Shaped
<1>6. "fresh" \in Handles /\ handle["fresh"] = NoHandle
  BY <1>1, <1>3 DEF Handles
<1> DEFINE x == Parsed(s, top)
<1>7. x \in Handle /\ Whole(x) /\ x.at[Part("struct")] # NoBlock
  BY <1>2, <1>4, <1>5, ParsedIsTyped, ParsedIsWhole
<1>8. x = Parsed(s, top)
  OBVIOUS
<1> HIDE DEF x
<1>9. Owned(heap \union BlocksAt(x, Destroyed(x)), [handle EXCEPT !["fresh"] = x])
  BY <1>2, <1>3, <1>4, <1>5, <1>6, <1>8, ParsedArrives
<1>10. Owned(heap, handle)'
  BY <1>2, <1>8, <1>9
<1>11. \A h \in Handles : handle'[h] = IF h = "fresh" THEN x ELSE handle[h]
  BY <1>2, <1>3, <1>8
<1>12. Types'
  <2>1. handle' \in [Handles -> Handle]
    BY <1>2, <1>3, <1>7, <1>8
  <2>2. heap' \subseteq 1..Blocks
    BY <1>2, <1>3
  <2>3. QED
    BY <1>1, <2>1, <2>2, PartsAreSteps DEF Types
<1>13. \A h \in Handles : (Exists(h)' \/ handle'[h] = NoHandle) /\ Whole(handle'[h])
  BY <1>3, <1>7, <1>11 DEF Exists
<1>14. QED
  BY <1>1, <1>3, <1>10, <1>12, <1>13, IdleKeeps

\* Destroying a handle gives back all its blocks.
LEMMA DestroyKeeps ==
    ASSUME Sized, IInv, NEW h \in Handles, Destroy(h)
    PROVE  IInv'
<1>1. /\ step = "idle" /\ Exists(h) /\ FreeAll(handle[h], Destroyed(handle[h]))
      /\ handle' = [handle EXCEPT ![h] = NoHandle] /\ step' = step
  BY DEF Destroy
<1>2. /\ handle \in [Handles -> Handle] /\ heap \subseteq 1..Blocks /\ wild = FALSE
      /\ Owned(heap, handle)
      /\ \A k \in Handles : /\ handle[k] \in Handle /\ Whole(handle[k])
                            /\ Exists(k) \/ handle[k] = NoHandle
  BY <1>1, BetweenCopies
<1>3. handle[h] \in Handle /\ Trim(handle[h], 0, 0) /\ handle[h].at[Part("struct")] # NoBlock
  BY <1>1, <1>2 DEF Whole, Exists
<1>4. Owned(heap, handle)' /\ wild' = FALSE /\ heap' \subseteq heap
  BY <1>1, <1>2, <1>3, DestroyFrees
<1>5. \A k \in Handles : handle'[k] = IF k = h THEN NoHandle ELSE handle[k]
  BY <1>1, <1>2
<1>6. Types'
  <2>1. handle' \in [Handles -> Handle]
    BY <1>1, <1>2, NoHandleIsOne
  <2>2. QED
    BY <1>1, <1>2, <1>4, <2>1, PartsAreSteps DEF Types
<1>7. \A k \in Handles : (Exists(k)' \/ handle'[k] = NoHandle) /\ Whole(handle'[k])
  BY <1>2, <1>5, NoHandleIsOne DEF Exists
<1>8. QED
  BY <1>1, <1>4, <1>6, <1>7, IdleKeeps

\* Contents change hands, but for the blocks the handles are in.
LEMMA ReplaceContentsKeeps ==
    ASSUME Sized, IInv, NEW h \in Handles, ReplaceContents(h)
    PROVE  IInv'
<1> DEFINE a == Src.at[Part("struct")]
           c == handle[h].at[Part("struct")]
           husk == Shell(Src)
           filled == Filled(Src, handle[h])
           shell == Shell(handle[h])
           D == Released(Src)
<1>1. /\ step = "idle" /\ h # "owner" /\ Exists("owner") /\ Exists(h) /\ step' = step
      /\ FreeAll(Src, D)
      /\ handle' = [handle EXCEPT !["owner"] = filled, ![h] = Shell(@)]
  BY DEF ReplaceContents
<1>2. /\ handle \in [Handles -> Handle] /\ heap \subseteq 1..Blocks /\ wild = FALSE
      /\ Owned(heap, handle) /\ Src \in Handle /\ "owner" \in Handles
      /\ \A k \in Handles : /\ handle[k] \in Handle /\ Whole(handle[k])
                            /\ Exists(k) \/ handle[k] = NoHandle
  BY <1>1, BetweenCopies
<1>3. Part("struct") \in Places
  BY PlacesOfKinds DEF Parts
<1>4. a \in 1..Blocks /\ c \in 1..Blocks
  <2>1. a # NoBlock /\ c # NoBlock
    BY <1>1 DEF Exists, Src
  <2>2. a \in {NoBlock} \union 1..Blocks /\ c \in {NoBlock} \union 1..Blocks
    BY <1>2, <1>3, HandleFields
  <2>3. QED
    BY <2>1, <2>2
<1>5. NoHandle \in Handle /\ Whole(NoHandle) /\ \A pl \in Places : ~Holds(NoHandle, pl)
  BY NoHandleIsOne
<1>6. husk \in Handle /\ Whole(husk) /\ husk.at[Part("struct")] # NoBlock /\ Housed(NoHandle, husk, a)
  <2>1. husk = Put(NoHandle, {Part("struct")}, a)
    BY DEF Shell
  <2> HIDE DEF husk, a
  <2>2. QED
    BY <1>4, <1>5, <2>1, StructIsPut
<1>7. shell \in Handle /\ Whole(shell) /\ shell.at[Part("struct")] # NoBlock /\ Housed(NoHandle, shell, c)
  <2>1. shell = Put(NoHandle, {Part("struct")}, c)
    BY DEF Shell
  <2> HIDE DEF shell, c
  <2>2. QED
    BY <1>4, <1>5, <2>1, StructIsPut
<1>8. filled \in Handle /\ Whole(filled) /\ filled.at[Part("struct")] # NoBlock
      /\ Housed(handle[h], filled, a)
  <2>1. filled = Put(handle[h], {Part("struct")}, a)
    BY DEF Filled
  <2>2. handle[h] \in Handle /\ Whole(handle[h])
    BY <1>2
  <2> HIDE DEF filled, a
  <2>3. QED
    BY <1>4, <2>1, <2>2, StructIsPut
<1>9. handle["owner"] = Src
  BY DEF Src
<1>10. D = {pl \in Places : Holds(Src, pl) /\ pl # Part("struct")}
  <2>1. Trim(Src, 0, 0)
    BY <1>2, <1>9 DEF Whole
  <2>2. QED
    BY <1>2, <2>1, ReleasedIsHeld
<1>11. handle' = [handle EXCEPT !["owner"] = filled, ![h] = shell]
  BY <1>1, <1>2
<1>12. Holds(Src, Part("struct")) /\ Holds(handle[h], Part("struct"))
  <2>1. Part("struct")[1] = "struct"
    BY DEF Part
  <2>2. QED
    BY <1>1, <2>1 DEF Holds, Exists, Src
<1>13. Src.at[Part("struct")] = a /\ handle[h].at[Part("struct")] = c
  OBVIOUS
<1> HIDE DEF husk, filled, shell, D, a, c
<1>14. Loses(Src, husk, D)
  BY <1>3, <1>5, <1>6, <1>10, <1>12, <1>13 DEF Loses, Housed
<1> DEFINE hd == [handle EXCEPT !["owner"] = husk]
           C == heap \ BlocksAt(Src, D)
<1>15. Owned(C, hd) /\ BlocksAt(Src, D) \subseteq heap /\ Apart(Src, D)
  <2>1. D \subseteq HeldAt(handle["owner"])
    BY <1>9, <1>10 DEF HeldAt
  <2>2. Loses(handle["owner"], husk, D)
    BY <1>9, <1>14
  <2>3. /\ Owned(heap \ BlocksAt(handle["owner"], D), [handle EXCEPT !["owner"] = husk])
        /\ BlocksAt(handle["owner"], D) \subseteq heap /\ Apart(handle["owner"], D)
    BY <1>2, <2>1, <2>2, OwnerLoses
  <2>4. QED
    BY <1>9, <2>3
<1>16. heap' = C /\ wild' = FALSE
  BY <1>1, <1>2, <1>15 DEF FreeAll, Apart
<1>17. \A k \in Handles : /\ hd[k] = IF k = "owner" THEN husk ELSE handle[k]
                          /\ handle'[k] = IF k = h THEN shell ELSE
                                          IF k = "owner" THEN filled ELSE handle[k]
  BY <1>1, <1>2, <1>11
<1> HIDE DEF hd, C
<1>18. Owned(C, handle')
  <2>1. hd["owner"] = husk /\ hd[h] = handle[h] /\ handle'["owner"] = filled /\ handle'[h] = shell
    BY <1>1, <1>2, <1>17
  <2>2. ASSUME NEW pl \in Places
        PROVE  /\ pl # Part("struct") =>
                    /\ Holds(handle'["owner"], pl) <=> Holds(hd[h], pl)
                    /\ Holds(handle'["owner"], pl) => handle'["owner"].at[pl] = hd[h].at[pl]
                    /\ ~Holds(handle'[h], pl)
               /\ pl = Part("struct") =>
                    /\ Holds(hd["owner"], pl)
                    /\ Holds(handle'["owner"], pl) <=> Holds(hd["owner"], pl)
                    /\ Holds(handle'["owner"], pl) => handle'["owner"].at[pl] = hd["owner"].at[pl]
                    /\ Holds(handle'[h], pl) <=> Holds(hd[h], pl)
                    /\ Holds(handle'[h], pl) => handle'[h].at[pl] = hd[h].at[pl]
               /\ Holds(hd["owner"], pl) => pl = Part("struct")
    <3>1. CASE pl # Part("struct")
      BY <1>5, <1>6, <1>7, <1>8, <2>1, <3>1 DEF Housed
    <3>2. CASE pl = Part("struct")
      BY <1>5, <1>6, <1>7, <1>8, <1>12, <1>13, <2>1, <3>2 DEF Housed
    <3>3. QED
      BY <3>1, <3>2
  <2>3. Moves(hd, handle', h, Part("struct"))
    BY <2>2 DEF Moves
  <2>4. SameElsewhere(hd, handle', h)
    BY <1>17 DEF SameElsewhere
  <2>5. QED
    BY <1>1, <1>3, <1>15, <2>3, <2>4, OwnerMoves
<1>19. Types'
  <2>1. handle' \in [Handles -> Handle]
    BY <1>2, <1>7, <1>8, <1>11
  <2>2. heap' \subseteq 1..Blocks
    BY <1>2, <1>16 DEF C
  <2>3. QED
    BY <1>1, <2>1, <2>2, PartsAreSteps DEF Types
<1>20. \A k \in Handles : (Exists(k)' \/ handle'[k] = NoHandle) /\ Whole(handle'[k])
  BY <1>2, <1>7, <1>8, <1>17 DEF Exists
<1>21. Owned(heap, handle)'
  BY <1>16, <1>18
<1>22. QED
  BY <1>1, <1>16, <1>19, <1>20, <1>21, IdleKeeps
-----------------------------------------------------------------------------
(* The invariant holds at every step, and what it says of the runs'        *)
(* properties.                                                             *)

\* No step breaks the invariant.
LEMMA NextKeeps ==
    ASSUME Sized, Shaped, IInv, [HandlesNext]_handleVars
    PROVE  IInv'
<1>1. CASE UNCHANGED handleVars
  BY <1>1 DEF handleVars, IInv, Types, Exists, Src, Dst
<1>2. CASE Promote
  BY <1>2, PromoteKeeps
<1>3. CASE BeginClone
  BY <1>3, BeginCloneKeeps
<1>4. CASE ClonePart
  BY <1>4, ClonePartKeeps
<1>5. CASE CloneOriginal
  BY <1>5, CloneOriginalKeeps
<1>6. CASE CloneSpelling
  BY <1>6, CloneSpellingKeeps
<1>7. CASE ClonePartOfGroup
  BY <1>7, ClonePartOfGroupKeeps
<1>8. CASE \E s \in Shapes : ParseReplacement(s)
  BY <1>8, ParseReplacementKeeps
<1>9. CASE \E h \in Handles : Destroy(h) \/ ReplaceContents(h)
  BY <1>9, DestroyKeeps, ReplaceContentsKeeps
<1>10. QED
  BY <1>1, <1>2, <1>3, <1>4, <1>5, <1>6, <1>7, <1>8, <1>9 DEF HandlesNext

\* The counts never pass the arrays, and fill them outside a copy.
LEMMA CountsFit ==
    ASSUME IInv
    PROVE  HandlesTypeOK
<1>1. ASSUME NEW h \in Handles
      PROVE  /\ handle[h].recordCount <= handle[h].records
             /\ handle[h].groupCount <= handle[h].groups
             /\ step = "idle" => /\ handle[h].recordCount = handle[h].records
                                 /\ handle[h].groupCount = handle[h].groups
  <2>1. handle[h] \in Handle
    BY DEF IInv, Types
  <2>2. /\ handle[h].recordCount \in Int /\ handle[h].records \in Int
        /\ handle[h].groupCount \in Int /\ handle[h].groups \in Int
    BY <2>1 DEF Handle
  <2>3. CASE h # "copy" \/ step = "idle"
    <3>1. Counted(handle[h])
      BY <2>3 DEF IInv, Whole
    <3>2. QED
      BY <2>2, <3>1 DEF Counted
  <2>4. CASE h = "copy" /\ step # "idle"
    BY <2>4 DEF IInv, Copying, Done, Dst
  <2>5. QED
    BY <2>3, <2>4
<1>2. QED
  BY <1>1 DEF HandlesTypeOK, IInv, Types, Steps

\* Outside a copy what destroy reaches is what is held, of every handle.
LEMMA BlocksAreOwned ==
    ASSUME Sized, IInv
    PROVE  EveryBlockHasOneOwner
<1>1. ~wild
  BY DEF IInv
<1>2. SUFFICES ASSUME step = "idle"
      PROVE  /\ heap = UNION {BlocksAt(handle[h], Destroyed(handle[h])) : h \in Live}
             /\ \A h, k \in Live : \A pl \in Destroyed(handle[h]), q \in Destroyed(handle[k]) :
                  handle[h].at[pl] = handle[k].at[q] => h = k /\ pl = q
  BY <1>1 DEF EveryBlockHasOneOwner
<1>3. Owned(heap, handle)
  BY DEF IInv
<1>4. ASSUME NEW h \in Live
      PROVE  h \in Handles /\ Destroyed(handle[h]) = {pl \in Places : Holds(handle[h], pl)}
  <2>1. h \in Handles /\ handle[h] \in Handle /\ handle[h].at[Part("struct")] # NoBlock
    BY DEF Live, Exists, IInv, Types
  <2>2. Trim(handle[h], 0, 0)
    BY <1>2, <2>1 DEF IInv, Whole
  <2>3. QED
    BY <2>1, <2>2, DestroyedIsHeld
<1>5. ASSUME NEW h \in Handles, NEW pl \in Places, Holds(handle[h], pl)
      PROVE  h \in Live
  <2>1. Exists(h) \/ handle[h] = NoHandle
    BY DEF IInv
  <2>2. ~Holds(NoHandle, pl)
    BY NoHandleIsOne
  <2>3. QED
    BY <1>5, <2>1, <2>2 DEF Live
<1>6. heap = UNION {BlocksAt(handle[h], Destroyed(handle[h])) : h \in Live}
  <2>1. ASSUME NEW b \in heap
        PROVE  \E h \in Live : b \in BlocksAt(handle[h], Destroyed(handle[h]))
    <3>1. PICK h \in Handles, pl \in Places : Holds(handle[h], pl) /\ handle[h].at[pl] = b
      BY <1>3 DEF Owned
    <3>2. h \in Live /\ pl \in Destroyed(handle[h])
      BY <1>4, <1>5, <3>1
    <3>3. QED
      BY <3>1, <3>2 DEF BlocksAt
  <2>2. ASSUME NEW h \in Live, NEW b \in BlocksAt(handle[h], Destroyed(handle[h]))
        PROVE  b \in heap
    <3>1. PICK pl \in Destroyed(handle[h]) : b = handle[h].at[pl]
      BY DEF BlocksAt
    <3>2. QED
      BY <1>3, <1>4, <3>1 DEF Owned
  <2>3. QED
    BY <2>1, <2>2
<1>7. ASSUME NEW h \in Live, NEW k \in Live,
             NEW pl \in Destroyed(handle[h]), NEW q \in Destroyed(handle[k]),
             handle[h].at[pl] = handle[k].at[q]
      PROVE  h = k /\ pl = q
  <2>1. h \in Handles /\ pl \in Places /\ Holds(handle[h], pl)
    BY <1>4
  <2>2. k \in Handles /\ q \in Places /\ Holds(handle[k], q)
    BY <1>4
  <2>3. QED
    BY <1>3, <1>7, <2>1, <2>2 DEF Owned
<1>8. QED
  BY <1>6, <1>7

\* A step of a copy changes no field of the original.
LEMMA CopyingLeavesTheOwner ==
    ASSUME IInv, step # "idle", [HandlesNext]_handleVars
    PROVE  handle'["owner"] = handle["owner"]
<1>1. handle \in [Handles -> Handle]
  BY DEF IInv, Types
<1>2. ASSUME NEW x, handle' = [handle EXCEPT !["copy"] = x]
      PROVE  handle'["owner"] = handle["owner"]
  BY <1>1, <1>2 DEF Handles
<1>3. ASSUME NEW x, NEW i, Proceed(x, i)
      PROVE  handle'["owner"] = handle["owner"]
  BY <1>2, <1>3 DEF Proceed
<1>4. ASSUME NEW x, Abandon(x)
      PROVE  handle'["owner"] = handle["owner"]
  BY <1>2, <1>4 DEF Abandon
<1>5. CASE UNCHANGED handleVars
  BY <1>5 DEF handleVars
<1>6. CASE ClonePart
  BY <1>3, <1>4, <1>6 DEF ClonePart
<1>7. CASE CloneOriginal
  BY <1>2, <1>3, <1>4, <1>7 DEF CloneOriginal
<1>8. CASE CloneSpelling
  BY <1>3, <1>4, <1>8 DEF CloneSpelling
<1>9. CASE ClonePartOfGroup
  BY <1>3, <1>4, <1>9 DEF ClonePartOfGroup
<1>10. ~Promote /\ ~BeginClone
  BY DEF Promote, BeginClone
<1>11. /\ ~ \E s \in Shapes : ParseReplacement(s)
       /\ ~ \E h \in Handles : Destroy(h) \/ ReplaceContents(h)
  BY DEF ParseReplacement, Destroy, ReplaceContents
<1>12. QED
  BY <1>5, <1>6, <1>7, <1>8, <1>9, <1>10, <1>11 DEF HandlesNext

\* ... and frees no block of it.
LEMMA OriginalStays ==
    ASSUME Sized, IInv, IInv', [HandlesNext]_handleVars, step # "idle"
    PROVE  /\ handle'["owner"] = handle["owner"]
           /\ BlocksAt(Src, Destroyed(Src)) \subseteq heap'
<1>1. handle'["owner"] = handle["owner"]
  BY CopyingLeavesTheOwner
<1>2. Src \in Handle /\ Src.at[Part("struct")] # NoBlock /\ Whole(Src) /\ "owner" \in Handles
  BY DuringCopy
<1>3. Destroyed(Src) = {pl \in Places : Holds(Src, pl)}
  BY <1>2, DestroyedIsHeld DEF Whole
<1>4. Owned(heap', handle')
  BY DEF IInv
<1>5. ASSUME NEW pl \in Places, Holds(Src, pl)
      PROVE  Src.at[pl] \in heap'
  BY <1>1, <1>2, <1>4, <1>5 DEF Owned, Src
<1>6. QED
  BY <1>1, <1>3, <1>5 DEF BlocksAt

\* The inductive invariant holds of every behaviour of the handles
\* (sqlparser_handle_clone, sqlparser_handle_replace_contents,
\* sqlparser_handle_destroy).
LEMMA OwnershipIsInvariant ==
    HandlesSpec => []IInv
<1>1. HandlesInit => IInv
  BY HandlesAssumption, InitKeeps
<1>2. IInv /\ [HandlesNext]_handleVars => IInv'
  BY HandlesAssumption, NextKeeps
<1>3. QED
  BY <1>1, <1>2, PTL DEF HandlesSpec

\* The fields of the handles keep their shape, and the counts that destroy
\* trusts never pass the arrays they count, nor differ from them outside a
\* copy (sqlparser_handle_clone, sqlparser_handle_replace_contents).
THEOREM CountsNeverPassTheArrays ==
    HandlesSpec => []HandlesTypeOK
<1>1. IInv => HandlesTypeOK
  BY CountsFit
<1>2. QED
  BY <1>1, OwnershipIsInvariant, PTL

\* No order of copies, failed allocations, replacements and destructions frees
\* a block twice or frees one that is not in use; outside a copy no block is
\* shared and none is lost (sqlparser_handle_clone and the destroy it gives a
\* partial copy to).
THEOREM NothingIsSharedAndNothingLeaks ==
    HandlesSpec => []EveryBlockHasOneOwner
<1>1. IInv => EveryBlockHasOneOwner
  BY HandlesAssumption, BlocksAreOwned
<1>2. QED
  BY <1>1, OwnershipIsInvariant, PTL

\* No step of a copy, and no failure of one, changes a field of the handle that
\* is copied or frees a block of it, though a record's copy holds that handle's
\* pointers for a while (sqlparser_handle_clone).
THEOREM CopyingTakesNothing ==
    HandlesSpec => OriginalIsUntouched
<1>1. ASSUME IInv, IInv', [HandlesNext]_handleVars
      PROVE  [step # "idle" => /\ handle'["owner"] = handle["owner"]
                               /\ BlocksAt(Src, Destroyed(Src)) \subseteq heap']_handleVars
  BY <1>1, HandlesAssumption, OriginalStays
<1>2. QED
  BY <1>1, OwnershipIsInvariant, PTL DEF HandlesSpec, OriginalIsUntouched
=============================================================================
