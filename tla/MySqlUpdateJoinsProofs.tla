------------------------ MODULE MySqlUpdateJoinsProofs ------------------------
(***************************************************************************)
(* Proofs about MySqlUpdateJoins.  The order of the tables, the direction  *)
(* of the first join, the qualifiers that were cut off and the clause that *)
(* carries the ON are all turned back by Restored, whatever was patched:   *)
(* Kept(s, u, flags) says how the statement s lies in the tree u, for      *)
(* every way the flags may have come about, and every step keeps it.       *)
(***************************************************************************)
EXTENDS MySqlUpdateJoins, FiniteSetTheorems, RecursionFacts

-----------------------------------------------------------------------------
(* A statement in its tree.                                                *)

\* The joins: which table is updated, which are in the FROM list.
IsJoined(s, u, flags) ==
  /\ u.target = (IF "REVERSED" \in flags THEN s.second ELSE s.first)
  /\ u.from = <<[by |-> ",", table |-> IF "REVERSED" \in flags THEN s.first ELSE s.second]>> \o s.tail
  /\ "REVERSED" \in flags => s.kind # "comma" /\ s.tail = <<>>
  /\ "COMMA" \in flags <=> s.kind = "comma"
  /\ "INNER" \in flags <=> s.kind = "inner"

\* The clause w behind the call for the ON of a join.
JoinWhere(kind, w) ==
  [op |-> "and", terms |-> <<On(Marker(kind))>> \o (IF w = NoWhere THEN <<>> ELSE <<Group(w)>>)]
Unwrapped(w) == IF Len(w.terms) = 1 THEN NoWhere ELSE w.terms[2].is
KindTold(s, flags) == IF "REVERSED" \in flags THEN Invert(s.kind) ELSE s.kind

IsWrapped(s, u, flags) ==
  /\ u.where = JoinWhere(KindTold(s, flags), Unwrapped(u.where))
  /\ IsClause(Unwrapped(u.where)) /\ SameClause(Unwrapped(u.where), s.where)
IsClauseOf(s, u, flags) ==
  IF s.kind = "comma" THEN u.where = s.where ELSE IsWrapped(s, u, flags)

\* The path p calls a table of T by its visible name where the text q calls it
\* by any name, or is q.
Calls(T, p, q) ==
  p = q \/ (q # <<>> /\ \E t \in T : q[1] \in TextNames(t) /\ p = <<Visible(t)>> \o Tail(q))
Assignment == [path : Path, stripped : BOOLEAN]
IsShown(s, u) ==
  /\ u.set \in Seq(Assignment) /\ Len(u.set) = Len(s.set)
  /\ \A i \in 1..Len(s.set) : Calls(Tables(u), ShownPath(u, u.set[i]), s.set[i])

Fields == {"target", "from", "set", "where"}
Kept(s, u, flags) ==
  DOMAIN u = Fields /\ IsJoined(s, u, flags) /\ IsClauseOf(s, u, flags) /\ IsShown(s, u)

-----------------------------------------------------------------------------
(* Tables and the sides of a join.                                         *)

\* A FROM list is one table and a tail.
LEMMA FromFacts ==
  ASSUME NEW T, NEW x \in T, NEW tail \in Seq(T)
  PROVE  /\ <<x>> \o tail \in Seq(T) /\ <<x>> \o tail # <<>>
         /\ Len(<<x>> \o tail) = Len(tail) + 1
         /\ (<<x>> \o tail)[1] = x
         /\ \A i \in 1..Len(tail) : (<<x>> \o tail)[i + 1] = tail[i]
         /\ Tail(<<x>> \o tail) = tail
<1>1. <<x>> \in Seq(T) /\ Len(<<x>>) = 1 /\ <<x>>[1] = x
  OBVIOUS
<1>2. /\ <<x>> \o tail \in Seq(T)
      /\ Len(<<x>> \o tail) = Len(tail) + 1
      /\ \A j \in 1..(1 + Len(tail)) : (<<x>> \o tail)[j] = IF j <= 1 THEN <<x>>[j] ELSE tail[j - 1]
  BY <1>1
<1> DEFINE l == <<x>> \o tail
<1>3. l \in Seq(T) /\ Len(l) = Len(tail) + 1 /\ l[1] = x /\ Len(tail) \in Nat
  BY <1>1, <1>2
<1>4. \A i \in 1..Len(tail) : l[i + 1] = tail[i]
  BY <1>2
<1> HIDE DEF l
<1>5. /\ Tail(l) \in Seq(T) /\ Len(Tail(l)) = Len(tail)
      /\ \A i \in 1..Len(tail) : Tail(l)[i] = l[i + 1]
  BY <1>3
<1>6. Tail(l) = tail
  BY <1>4, <1>5
<1>7. l # <<>>
  BY <1>3
<1>8. QED
  BY <1>3, <1>4, <1>6, <1>7 DEF l

\* The tables of the tree are those of the statement.
LEMMA TablesAre ==
  ASSUME NEW s, NEW u, NEW flags, IsStatement(s), IsJoined(s, u, flags)
  PROVE  /\ Tables(u) = {s.first, s.second} \union {s.tail[i].table : i \in DOMAIN s.tail}
         /\ u.from # <<>> /\ u.from[1].table = (IF "REVERSED" \in flags THEN s.first ELSE s.second)
         /\ Tail(u.from) = s.tail
<1> DEFINE x == [by |-> ",", table |-> IF "REVERSED" \in flags THEN s.first ELSE s.second]
           T == [by : {"join", ","}, table : Table]
<1>1. s.first \in Table /\ s.second \in Table /\ s.tail \in Seq(T)
  BY DEF IsStatement
<1>2. x \in T /\ x.table = (IF "REVERSED" \in flags THEN s.first ELSE s.second)
  BY <1>1
<1>3. u.from = <<x>> \o s.tail /\ u.target = (IF "REVERSED" \in flags THEN s.second ELSE s.first)
  BY DEF IsJoined
<1>4. x.table \in Table /\ u.target \in Table /\ {u.target, x.table} = {s.first, s.second}
  BY <1>1, <1>2, <1>3
<1> HIDE DEF x, T
<1>5. /\ u.from \in Seq(T) /\ u.from # <<>> /\ Len(u.from) = Len(s.tail) + 1 /\ u.from[1] = x
      /\ \A i \in 1..Len(s.tail) : u.from[i + 1] = s.tail[i]
      /\ Tail(u.from) = s.tail
  BY <1>1, <1>2, <1>3, FromFacts
<1>6. DOMAIN u.from = 1..(Len(s.tail) + 1) /\ DOMAIN s.tail = 1..Len(s.tail) /\ Len(s.tail) \in Nat
  BY <1>1, <1>5
<1>7. {u.from[i].table : i \in DOMAIN u.from} = {x.table} \union {s.tail[i].table : i \in DOMAIN s.tail}
  <2>1. ASSUME NEW i \in DOMAIN u.from
        PROVE  u.from[i].table \in {x.table} \union {s.tail[j].table : j \in DOMAIN s.tail}
    <3>1. CASE i = 1
      BY <3>1, <1>5
    <3>2. CASE i # 1
      <4>1. i - 1 \in DOMAIN s.tail /\ (i - 1) + 1 = i
        BY <1>6, <3>2
      <4>2. u.from[i] = s.tail[i - 1]
        BY <1>5, <1>6, <4>1
      <4>3. QED
        BY <4>1, <4>2
    <3>3. QED
      BY <3>1, <3>2
  <2>2. x.table \in {u.from[i].table : i \in DOMAIN u.from}
    BY <1>5, <1>6
  <2>3. ASSUME NEW j \in DOMAIN s.tail
        PROVE  s.tail[j].table \in {u.from[i].table : i \in DOMAIN u.from}
    <3>1. j + 1 \in DOMAIN u.from /\ u.from[j + 1] = s.tail[j]
      BY <1>5, <1>6
    <3>2. QED
      BY <3>1
  <2>4. QED
    BY <2>1, <2>2, <2>3
<1>8. QED
  BY <1>2, <1>4, <1>5, <1>7 DEF Tables

\* A text names none, one or both of the first two tables.
LEMMA OneSide ==
  ASSUME NEW s, NEW path, Cardinality(Side(path, s)) = 1
  PROVE  /\ path # <<>>
         /\ \E k \in {1, 2} : /\ Side(path, s) = {k}
                              /\ path[1] \in TextNames(IF k = 1 THEN s.first ELSE s.second)
                              /\ path[1] \notin TextNames(IF k = 1 THEN s.second ELSE s.first)
<1>1. Cardinality({}) = 0
  BY FS_EmptySet
<1>2. Side(path, s) # {}
  BY <1>1
<1>3. path # <<>>
  BY <1>2 DEF Side
<1>4. Side(path, s) = {k \in {1, 2} : path[1] \in TextNames(IF k = 1 THEN s.first ELSE s.second)}
  BY <1>3 DEF Side
<1>5. Cardinality({1, 2}) = 2
  <2>1. IsFiniteSet({1}) /\ Cardinality({1}) = 1
    BY FS_Singleton
  <2>2. Cardinality({1} \union {2}) = Cardinality({1}) + 1
    BY <2>1, FS_AddElement
  <2>3. {1} \union {2} = {1, 2}
    OBVIOUS
  <2>4. QED
    BY <2>1, <2>2, <2>3
<1>6. Side(path, s) # {1, 2}
  BY <1>5
<1>7. Side(path, s) = {1} \/ Side(path, s) = {2}
  BY <1>2, <1>4, <1>6
<1>8. CASE Side(path, s) = {1}
  BY <1>3, <1>4, <1>8
<1>9. CASE Side(path, s) = {2}
  BY <1>3, <1>4, <1>9
<1>10. QED
  BY <1>7, <1>8, <1>9

-----------------------------------------------------------------------------
(* A statement that was just parsed.                                       *)

\* A single table to update is named by every qualifier of the assignments.
LEMMA SingleTarget ==
  ASSUME NEW s, IsStatement(s), Admitted(s), ~Listed(s), Sides(s) # {1, 2},
         NEW i \in DOMAIN s.set, s.set[i] # <<>>
  PROVE  /\ Sides(s) = {1} \/ Sides(s) = {2}
         /\ s.set[i][1] \in TextNames(IF Sides(s) = {2} THEN s.second ELSE s.first)
         /\ s.set[i][1] \notin TextNames(IF Sides(s) = {2} THEN s.first ELSE s.second)
<1> DEFINE p == s.set[i]
<1>1. Cardinality(Side(p, s)) = 1
  BY DEF Admitted
<1> HIDE DEF p
<1>2. PICK k \in {1, 2} : /\ Side(p, s) = {k}
                          /\ p[1] \in TextNames(IF k = 1 THEN s.first ELSE s.second)
                          /\ p[1] \notin TextNames(IF k = 1 THEN s.second ELSE s.first)
  BY <1>1, OneSide
<1>3. Sides(s) \subseteq {1, 2}
  BY DEF Sides, Side
<1>4. Side(p, s) \subseteq Sides(s)
  BY DEF Sides, p
<1>5. Sides(s) = {k}
  BY <1>2, <1>3, <1>4
<1>6. CASE k = 1
  BY <1>2, <1>5, <1>6 DEF p
<1>7. CASE k = 2
  BY <1>2, <1>5, <1>7 DEF p
<1>8. QED
  BY <1>6, <1>7

Multi(s) == Listed(s) \/ Sides(s) = {1, 2}
Swapped(s) == ~Multi(s) /\ Sides(s) = {2}

\* The fields of a parsed statement.
LEMMA ParseIs ==
  ASSUME NEW s
  PROVE  LET u == Parse(s).tree
             flags == Parse(s).shape
         IN /\ DOMAIN u = Fields
            /\ u.target = (IF Swapped(s) THEN s.second ELSE s.first)
            /\ u.from = <<[by |-> ",", table |-> IF Swapped(s) THEN s.first ELSE s.second]>> \o s.tail
            /\ u.set = [i \in DOMAIN s.set |->
                          [path |-> IF Multi(s) \/ s.set[i] = <<>> THEN s.set[i] ELSE Tail(s.set[i]),
                           stripped |-> ~Multi(s) /\ s.set[i] # <<>>]]
            /\ u.where = (IF s.kind = "comma" THEN s.where
                          ELSE JoinWhere(IF Swapped(s) THEN Invert(s.kind) ELSE s.kind, s.where))
            /\ flags \subseteq Flags
            /\ "REVERSED" \in flags <=> Swapped(s)
            /\ "MULTI" \in flags <=> Multi(s)
            /\ "COMMA" \in flags <=> s.kind = "comma"
            /\ "INNER" \in flags <=> s.kind = "inner"
            /\ "FALLBACK" \notin flags
<1> DEFINE target == IF Swapped(s) THEN s.second ELSE s.first
           from == <<[by |-> ",", table |-> IF Swapped(s) THEN s.first ELSE s.second]>> \o s.tail
           set == [i \in DOMAIN s.set |->
                     [path |-> IF Multi(s) \/ s.set[i] = <<>> THEN s.set[i] ELSE Tail(s.set[i]),
                      stripped |-> ~Multi(s) /\ s.set[i] # <<>>]]
           kind == IF Swapped(s) THEN Invert(s.kind) ELSE s.kind
           w == IF s.where = NoWhere THEN <<>> ELSE <<Group(s.where)>>
           where == IF s.kind = "comma" THEN s.where
                    ELSE [op |-> "and", terms |-> <<On(Marker(kind))>> \o w]
           flags == Parse(s).shape
<1>1. /\ Parse(s).tree = [target |-> target, from |-> from, set |-> set, where |-> where]
      /\ flags = (IF Multi(s) THEN {"MULTI"} ELSE {})
                  \union (IF Swapped(s) THEN {"REVERSED"} ELSE {})
                  \union (IF s.kind = "comma" THEN {"COMMA"} ELSE {})
                  \union (IF s.kind = "inner" THEN {"INNER"} ELSE {})
  BY Zenon DEF Parse, Multi, Swapped
<1>2. where = (IF s.kind = "comma" THEN s.where ELSE JoinWhere(kind, s.where))
  BY DEF JoinWhere
<1>3. /\ flags \subseteq Flags
      /\ "REVERSED" \in flags <=> Swapped(s)
      /\ "MULTI" \in flags <=> Multi(s)
      /\ "COMMA" \in flags <=> s.kind = "comma"
      /\ "INNER" \in flags <=> s.kind = "inner"
      /\ "FALLBACK" \notin flags
  BY ONLY <1>1 DEF Flags
<1> HIDE DEF target, from, set, where, kind, w
<1> DEFINE u == Parse(s).tree
<1>4. DOMAIN u = Fields /\ u.target = target /\ u.from = from /\ u.set = set /\ u.where = where
  BY ONLY <1>1 DEF Fields
<1>5. QED
  BY ONLY <1>2, <1>3, <1>4 DEF target, from, set, kind

\* How a parsed assignment is shown: as it was written, or with the name of the
\* target for the name of the only table that it can mean.
LEMMA ParsedSet ==
  ASSUME NEW s, IsStatement(s), Admitted(s)
  PROVE  LET u == Parse(s).tree
         IN /\ u.set \in Seq(Assignment) /\ Len(u.set) = Len(s.set)
            /\ \A i \in 1..Len(s.set) :
                 \/ ShownPath(u, u.set[i]) = s.set[i]
                 \/ /\ ~Listed(s) /\ s.set[i] # <<>>
                    /\ s.set[i][1] \in TextNames(u.target)
                    /\ ShownPath(u, u.set[i]) = <<Visible(u.target)>> \o Tail(s.set[i])
                    /\ \A t \in {s.first, s.second} : s.set[i][1] \in TextNames(t) => t = u.target
<1> DEFINE u == Parse(s).tree
           Of(i) == [path |-> IF Multi(s) \/ s.set[i] = <<>> THEN s.set[i] ELSE Tail(s.set[i]),
                     stripped |-> ~Multi(s) /\ s.set[i] # <<>>]
<1>1. s.set \in Seq(Path) /\ DOMAIN s.set = 1..Len(s.set) /\ Len(s.set) \in Nat
  <2>1. s.set \in Seq(Path)
    BY DEF IsStatement
  <2>2. QED
    BY ONLY <2>1
<1>2. u.set = [i \in DOMAIN s.set |-> Of(i)] /\ u.target = (IF Swapped(s) THEN s.second ELSE s.first)
  BY ParseIs
<1> HIDE DEF u
<1>3. \A i \in 1..Len(s.set) :
        Of(i) \in Assignment
        /\ Of(i).path = (IF Multi(s) \/ s.set[i] = <<>> THEN s.set[i] ELSE Tail(s.set[i]))
        /\ (Of(i).stripped <=> ~Multi(s) /\ s.set[i] # <<>>)
  <2>1. TAKE i \in 1..Len(s.set)
  <2> DEFINE path == IF Multi(s) \/ s.set[i] = <<>> THEN s.set[i] ELSE Tail(s.set[i])
             stripped == ~Multi(s) /\ s.set[i] # <<>>
  <2>2. s.set[i] \in Seq(STRING)
    BY <1>1 DEF Path
  <2>3. path \in Path
    <3>1. s.set[i] # <<>> => Tail(s.set[i]) \in Seq(STRING)
      BY <2>2, HeadTailProperties
    <3>2. QED
      BY <2>2, <3>1 DEF Path
  <2>4. stripped \in BOOLEAN
    OBVIOUS
  <2>5. Of(i) = [path |-> path, stripped |-> stripped]
    OBVIOUS
  <2> HIDE DEF path, stripped, Of
  <2>6. Of(i) \in Assignment /\ Of(i).path = path /\ Of(i).stripped = stripped
    BY <2>3, <2>4, <2>5 DEF Assignment
  <2>7. QED
    BY <2>6 DEF path, stripped
<1> HIDE DEF Of
<1>4. u.set \in Seq(Assignment) /\ Len(u.set) = Len(s.set)
  BY <1>1, <1>2, <1>3
<1>5. \A i \in 1..Len(s.set) : u.set[i] = Of(i)
  BY <1>1, <1>2
<1>6. ASSUME NEW i \in 1..Len(s.set)
      PROVE  \/ ShownPath(u, u.set[i]) = s.set[i]
             \/ /\ ~Listed(s) /\ s.set[i] # <<>>
                /\ s.set[i][1] \in TextNames(u.target)
                /\ ShownPath(u, u.set[i]) = <<Visible(u.target)>> \o Tail(s.set[i])
                /\ \A t \in {s.first, s.second} : s.set[i][1] \in TextNames(t) => t = u.target
  <2>1. CASE Multi(s) \/ s.set[i] = <<>>
    BY <1>3, <1>5, <2>1 DEF ShownPath
  <2>2. CASE ~(Multi(s) \/ s.set[i] = <<>>)
    <3>1. ~Listed(s) /\ Sides(s) # {1, 2} /\ s.set[i] # <<>> /\ i \in DOMAIN s.set
      BY <1>1, <2>2 DEF Multi
    <3>2. ShownPath(u, u.set[i]) = <<Visible(u.target)>> \o Tail(s.set[i])
      BY <1>3, <1>5, <2>2 DEF ShownPath
    <3>3. /\ Sides(s) = {1} \/ Sides(s) = {2}
          /\ s.set[i][1] \in TextNames(IF Sides(s) = {2} THEN s.second ELSE s.first)
          /\ s.set[i][1] \notin TextNames(IF Sides(s) = {2} THEN s.first ELSE s.second)
      BY <3>1, SingleTarget
    <3>4. u.target = (IF Sides(s) = {2} THEN s.second ELSE s.first)
      BY <1>2, <3>1 DEF Swapped, Multi
    <3>5. s.set[i][1] \in TextNames(u.target)
      BY <3>3, <3>4
    <3>6. \A t \in {s.first, s.second} : s.set[i][1] \in TextNames(t) => t = u.target
      BY <3>3, <3>4
    <3>7. QED
      BY <3>1, <3>2, <3>5, <3>6
  <2>3. QED
    BY <2>1, <2>2
<1>7. QED
  BY <1>4, <1>6 DEF u

\* A parsed statement lies in its tree.
LEMMA ParseKeeps ==
  ASSUME NEW s, IsStatement(s), Admitted(s)
  PROVE  /\ Kept(s, Parse(s).tree, Parse(s).shape)
         /\ s.kind # "comma" => Unwrapped(Parse(s).tree.where) = s.where
<1> DEFINE u == Parse(s).tree
           flags == Parse(s).shape
<1>1. /\ DOMAIN u = Fields
      /\ u.target = (IF Swapped(s) THEN s.second ELSE s.first)
      /\ u.from = <<[by |-> ",", table |-> IF Swapped(s) THEN s.first ELSE s.second]>> \o s.tail
      /\ u.where = (IF s.kind = "comma" THEN s.where
                    ELSE JoinWhere(IF Swapped(s) THEN Invert(s.kind) ELSE s.kind, s.where))
      /\ "REVERSED" \in flags <=> Swapped(s)
      /\ "COMMA" \in flags <=> s.kind = "comma"
      /\ "INNER" \in flags <=> s.kind = "inner"
  BY ParseIs
<1>2. /\ u.set \in Seq(Assignment) /\ Len(u.set) = Len(s.set)
      /\ \A i \in 1..Len(s.set) :
           \/ ShownPath(u, u.set[i]) = s.set[i]
           \/ /\ ~Listed(s) /\ s.set[i] # <<>>
              /\ s.set[i][1] \in TextNames(u.target)
              /\ ShownPath(u, u.set[i]) = <<Visible(u.target)>> \o Tail(s.set[i])
              /\ \A t \in {s.first, s.second} : s.set[i][1] \in TextNames(t) => t = u.target
  BY ParsedSet
<1> HIDE DEF u, flags
<1>3. IsJoined(s, u, flags)
  <2>1. Swapped(s) => s.kind # "comma" /\ s.tail = <<>>
    BY DEF Swapped, Multi, Listed
  <2>2. QED
    BY <1>1, <2>1 DEF IsJoined
<1>4. IsClauseOf(s, u, flags) /\ (s.kind # "comma" => Unwrapped(u.where) = s.where)
  <2>1. CASE s.kind = "comma"
    BY <1>1, <2>1 DEF IsClauseOf
  <2>2. CASE s.kind # "comma"
    <3>1. u.where = JoinWhere(KindTold(s, flags), s.where)
      BY <1>1, <2>2 DEF KindTold
    <3>2. Unwrapped(u.where) = s.where
      BY <3>1 DEF Unwrapped, JoinWhere, Group, NoWhere
    <3>3. IsClause(s.where) /\ SameClause(s.where, s.where)
      BY DEF IsStatement, SameClause
    <3>4. QED
      BY <2>2, <3>1, <3>2, <3>3 DEF IsClauseOf, IsWrapped
  <2>3. QED
    BY <2>1, <2>2
<1>5. u.target \in Tables(u)
  BY DEF Tables
<1>6. IsShown(s, u)
  BY <1>2, <1>5 DEF IsShown, Calls
<1>7. QED
  BY <1>1, <1>3, <1>4, <1>6 DEF Kept, u, flags

-----------------------------------------------------------------------------
(* The statement written back.                                             *)

\* A table is called by a word.
LEMMA VisibleIsWord ==
  ASSUME NEW t \in Table
  PROVE  Visible(t) \in STRING /\ Visible(t) \in TextNames(t)
<1>1. t.name \in STRING /\ t.name # None /\ t.alias \in STRING \union {None}
  BY DEF Table
<1>2. QED
  BY <1>1 DEF Visible, TextNames

\* Flags that a commit brings up to date say the same of the order of the
\* tables, of the list and of the word INNER.
LEMMA ReconciledKeeps ==
  ASSUME NEW s, NEW u, NEW v, NEW flags, Kept(s, u, flags)
  PROVE  Kept(s, u, Reconciled(v, flags))
<1> DEFINE f == Reconciled(v, flags)
<1>1. /\ "REVERSED" \in f <=> "REVERSED" \in flags
      /\ "COMMA" \in f <=> "COMMA" \in flags
      /\ "INNER" \in f <=> "INNER" \in flags
  BY DEF Reconciled
<1> HIDE DEF f
<1>2. IsJoined(s, u, f)
  BY <1>1 DEF Kept, IsJoined
<1>3. IsClauseOf(s, u, f)
  <2>1. KindTold(s, f) = KindTold(s, flags)
    BY <1>1 DEF KindTold
  <2>2. QED
    BY <2>1 DEF Kept, IsClauseOf, IsWrapped
<1>4. QED
  BY <1>2, <1>3 DEF Kept, f

\* The kind of the first join, after its marker and the flags.
LEMMA RestoredKindIs ==
  ASSUME NEW s, NEW u, NEW flags, IsStatement(s), Kept(s, u, flags)
  PROVE  RestoredKind(u, flags) = s.kind
<1>1. s.kind \in {"join", "inner", "left", "right", "comma"}
  BY DEF IsStatement, Kinds
<1>2. "COMMA" \in flags <=> s.kind = "comma"
  BY DEF Kept, IsJoined
<1>3. "INNER" \in flags <=> s.kind = "inner"
  BY DEF Kept, IsJoined
<1>4. CASE s.kind = "comma"
  BY <1>2, <1>4 DEF RestoredKind
<1>5. CASE s.kind # "comma"
  <2> DEFINE w == Unwrapped(u.where)
  <2>1. u.where = JoinWhere(KindTold(s, flags), w)
    BY <1>5 DEF Kept, IsClauseOf, IsWrapped
  <2> HIDE DEF w
  <2>2. u.where.terms[1] = On(Marker(KindTold(s, flags)))
    <3> DEFINE x == On(Marker(KindTold(s, flags)))
    <3>1. u.where.terms = <<x>> \o (IF w = NoWhere THEN <<>> ELSE <<Group(w)>>)
      BY <2>1 DEF JoinWhere
    <3> HIDE DEF x
    <3>2. u.where.terms[1] = x
      BY <3>1
    <3>3. QED
      BY <3>2 DEF x
  <2>3. u.where.terms[1].is = Marker(KindTold(s, flags))
    BY <2>2 DEF On
  <2>4. QED
    BY ONLY <1>1, <1>2, <1>3, <1>5, <2>3 DEF RestoredKind, Marker, KindTold, Invert
<1>6. QED
  BY <1>4, <1>5

\* What is written back is a statement with the joins of the original, its
\* assignments as they are shown, and its clause.
LEMMA RestoredIs ==
  ASSUME NEW s, NEW u, NEW flags, IsStatement(s), Kept(s, u, flags)
  PROVE  LET r == Restored(u, flags)
         IN /\ IsStatement(r)
            /\ r.kind = s.kind /\ r.first = s.first /\ r.second = s.second /\ r.tail = s.tail
            /\ Len(r.set) = Len(s.set)
            /\ \A i \in 1..Len(s.set) : r.set[i] = ShownPath(u, u.set[i])
            /\ SameClause(r.where, s.where)
            /\ s.kind = "comma" => r.where = s.where
<1> DEFINE first == IF "REVERSED" \in flags THEN u.from[1].table ELSE u.target
           second == IF "REVERSED" \in flags THEN u.target ELSE u.from[1].table
           tail == IF "REVERSED" \in flags THEN <<>> ELSE Tail(u.from)
           set == [i \in DOMAIN u.set |-> ShownPath(u, u.set[i])]
           where == IF "COMMA" \in flags THEN u.where
                    ELSE IF Len(u.where.terms) = 1 THEN NoWhere ELSE u.where.terms[2].is
           r == Restored(u, flags)
<1>1. r = [kind |-> RestoredKind(u, flags), first |-> first, second |-> second, tail |-> tail,
           set |-> set, where |-> where]
  BY Zenon DEF Restored
<1>2. /\ IsJoined(s, u, flags) /\ IsClauseOf(s, u, flags) /\ IsShown(s, u)
  BY DEF Kept
<1>3. first = s.first /\ second = s.second /\ tail = s.tail
  <2>1. /\ u.from[1].table = (IF "REVERSED" \in flags THEN s.first ELSE s.second)
        /\ Tail(u.from) = s.tail
    BY <1>2, TablesAre
  <2>2. /\ u.target = (IF "REVERSED" \in flags THEN s.second ELSE s.first)
        /\ "REVERSED" \in flags => s.tail = <<>>
    BY <1>2 DEF IsJoined
  <2>3. QED
    BY ONLY <2>1, <2>2
<1>4. RestoredKind(u, flags) = s.kind
  BY RestoredKindIs
<1>5. u.set \in Seq(Assignment) /\ DOMAIN u.set = 1..Len(s.set) /\ Len(s.set) \in Nat
      /\ Len(u.set) = Len(s.set)
  <2>1. u.set \in Seq(Assignment) /\ Len(u.set) = Len(s.set)
    BY <1>2 DEF IsShown
  <2>2. QED
    BY ONLY <2>1
<1>6. \A i \in 1..Len(s.set) : ShownPath(u, u.set[i]) \in Path
  <2>1. TAKE i \in 1..Len(s.set)
  <2>2. u.set[i].path \in Seq(STRING)
    <3>1. u.set[i] \in Assignment
      BY <1>5
    <3>2. QED
      BY ONLY <3>1 DEF Assignment, Path
  <2>3. u.target \in Table
    <3>1. s.first \in Table /\ s.second \in Table
      BY DEF IsStatement
    <3>2. QED
      BY <1>2, <3>1 DEF IsJoined
  <2>4. Visible(u.target) \in STRING
    BY <2>3, VisibleIsWord
  <2>5. <<Visible(u.target)>> \o u.set[i].path \in Seq(STRING)
    BY <2>2, <2>4
  <2>6. QED
    BY <2>2, <2>5 DEF ShownPath, Path
<1>7. /\ set \in Seq(Path) /\ Len(set) = Len(s.set)
      /\ \A i \in 1..Len(s.set) : set[i] = ShownPath(u, u.set[i])
  BY <1>5, <1>6
<1>8. where = (IF s.kind = "comma" THEN s.where ELSE Unwrapped(u.where))
  BY <1>2 DEF IsJoined, IsClauseOf, Unwrapped
<1>9. IsClause(where) /\ SameClause(where, s.where)
  <2>1. CASE s.kind = "comma"
    BY <1>8, <2>1 DEF IsStatement, SameClause
  <2>2. CASE s.kind # "comma"
    BY <1>2, <1>8, <2>2 DEF IsClauseOf, IsWrapped
  <2>3. QED
    BY <2>1, <2>2
<1> HIDE DEF first, second, tail, set, where
<1>10. /\ DOMAIN r = {"kind", "first", "second", "tail", "set", "where"}
       /\ r.kind = s.kind /\ r.first = s.first /\ r.second = s.second /\ r.tail = s.tail
       /\ r.set = set /\ r.where = where
  BY ONLY <1>1, <1>3, <1>4
<1> HIDE DEF r
<1>11. IsStatement(r)
  <2>1. /\ s.kind \in Kinds /\ s.first \in Table /\ s.second \in Table
        /\ s.tail \in Seq([by : {"join", ","}, table : Table])
        /\ Len(s.set) \in 1..MaxSet
    BY DEF IsStatement
  <2>2. QED
    BY <1>7, <1>9, <1>10, <2>1, Zenon DEF IsStatement
<1>12. QED
  BY <1>7, <1>8, <1>9, <1>10, <1>11 DEF r

\* The answer, parsed again, holds the same statement.
LEMMA ParsedAgain ==
  ASSUME NEW s, NEW u, NEW flags, IsStatement(s), Kept(s, u, flags),
         Admitted(Restored(u, flags))
  PROVE  Kept(s, Parse(Restored(u, flags)).tree, Parse(Restored(u, flags)).shape)
<1> DEFINE r == Restored(u, flags)
           v == Parse(r).tree
           g == Parse(r).shape
<1>1. /\ IsStatement(r)
      /\ r.kind = s.kind /\ r.first = s.first /\ r.second = s.second /\ r.tail = s.tail
      /\ Len(r.set) = Len(s.set)
      /\ \A i \in 1..Len(s.set) : r.set[i] = ShownPath(u, u.set[i])
      /\ SameClause(r.where, s.where)
      /\ s.kind = "comma" => r.where = s.where
  BY RestoredIs
<1>2. Admitted(r)
  OBVIOUS
<1> HIDE DEF r
<1>3. Kept(r, v, g) /\ (r.kind # "comma" => Unwrapped(v.where) = r.where)
  BY <1>1, <1>2, ParseKeeps
<1>4. /\ v.set \in Seq(Assignment) /\ Len(v.set) = Len(r.set)
      /\ \A i \in 1..Len(r.set) :
           \/ ShownPath(v, v.set[i]) = r.set[i]
           \/ /\ ~Listed(r) /\ r.set[i] # <<>>
              /\ r.set[i][1] \in TextNames(v.target)
              /\ ShownPath(v, v.set[i]) = <<Visible(v.target)>> \o Tail(r.set[i])
              /\ \A t \in {r.first, r.second} : r.set[i][1] \in TextNames(t) => t = v.target
  BY <1>1, <1>2, ParsedSet
<1> HIDE DEF v, g
<1>5. IsJoined(s, v, g)
  BY <1>1, <1>3 DEF Kept, IsJoined
<1>6. IsClauseOf(s, v, g)
  <2>1. CASE s.kind = "comma"
    BY <1>1, <1>3, <2>1 DEF Kept, IsClauseOf
  <2>2. CASE s.kind # "comma"
    <3>1. IsWrapped(r, v, g) /\ Unwrapped(v.where) = r.where
      BY <1>1, <1>3, <2>2 DEF Kept, IsClauseOf
    <3>2. KindTold(r, g) = KindTold(s, g)
      BY <1>1 DEF KindTold
    <3>3. IsWrapped(s, v, g)
      BY <1>1, <3>1, <3>2 DEF IsWrapped
    <3>4. QED
      BY <2>2, <3>3 DEF IsClauseOf
  <2>3. QED
    BY <2>1, <2>2
<1>7. Tables(u) = Tables(v) /\ Tables(v) = {s.first, s.second} \union {s.tail[i].table : i \in DOMAIN s.tail}
  <2>1. IsJoined(s, u, flags)
    BY DEF Kept
  <2>2. Tables(u) = {s.first, s.second} \union {s.tail[i].table : i \in DOMAIN s.tail}
    BY <2>1, TablesAre
  <2>3. Tables(v) = {s.first, s.second} \union {s.tail[i].table : i \in DOMAIN s.tail}
    BY <1>5, TablesAre
  <2>4. QED
    BY ONLY <2>2, <2>3
<1>8. v.target \in Tables(v)
  BY DEF Tables
<1>9. \A i \in 1..Len(s.set) : Calls(Tables(u), r.set[i], s.set[i])
  BY <1>1 DEF Kept, IsShown
<1>10. ASSUME NEW i \in 1..Len(s.set)
       PROVE  Calls(Tables(v), ShownPath(v, v.set[i]), s.set[i])
  <2> DEFINE p == r.set[i]
             q == s.set[i]
             shown == ShownPath(v, v.set[i])
  <2>1. Calls(Tables(v), p, q)
    BY <1>7, <1>9
  <2>2. CASE shown = p
    BY <2>1, <2>2
  <2>3. CASE shown # p
    <3>1. /\ ~Listed(r) /\ p # <<>> /\ p[1] \in TextNames(v.target)
          /\ shown = <<Visible(v.target)>> \o Tail(p)
          /\ \A t \in {s.first, s.second} : p[1] \in TextNames(t) => t = v.target
      BY <1>1, <1>4, <2>3
    <3>2. q \in Seq(STRING)
      <4>1. s.set \in Seq(Path)
        BY DEF IsStatement
      <4>2. s.set[i] \in Path
        BY ONLY <4>1
      <4>3. QED
        BY <4>2 DEF Path
    <3> HIDE DEF p, q, shown
    <3>3. CASE p = q
      BY <1>8, <3>1, <3>3 DEF Calls, shown, q
    <3>4. CASE p # q
      <4>1. PICK t \in Tables(v) : q # <<>> /\ q[1] \in TextNames(t) /\ p = <<Visible(t)>> \o Tail(q)
        BY <2>1, <3>4 DEF Calls, q
      <4>2. s.tail = <<>>
        BY <1>1, <3>1 DEF Listed
      <4>3. t \in {s.first, s.second} /\ t \in Table
        <5>1. {s.tail[k].table : k \in DOMAIN s.tail} = {}
          BY <4>2
        <5>2. s.first \in Table /\ s.second \in Table
          BY DEF IsStatement
        <5>3. QED
          BY <1>7, <5>1, <5>2
      <4>4. Visible(t) \in STRING /\ Visible(t) \in TextNames(t)
        BY <4>3, VisibleIsWord
      <4>5. Tail(q) \in Seq(STRING)
        BY <3>2, <4>1, HeadTailProperties
      <4>6. p[1] = Visible(t) /\ Tail(p) = Tail(q)
        BY <4>1, <4>4, <4>5, FromFacts
      <4>7. t = v.target
        BY <3>1, <4>3, <4>4, <4>6
      <4>8. shown = p
        BY <3>1, <4>1, <4>6, <4>7
      <4>9. QED
        BY <2>3, <4>8 DEF shown, p
    <3>5. QED
      BY <3>3, <3>4
  <2>4. QED
    BY <2>2, <2>3
<1>11. IsShown(s, v)
  BY <1>1, <1>4, <1>10 DEF IsShown
<1>12. DOMAIN v = Fields
  BY <1>3 DEF Kept
<1>13. QED
  BY <1>5, <1>6, <1>11, <1>12 DEF Kept, v, g, r

-----------------------------------------------------------------------------
(* Patches of the assignments.                                             *)

\* Other assignments, each of which is shown as it was written.
LEMMA SetChanged ==
  ASSUME NEW s, NEW u, NEW flags, IsStatement(s), Kept(s, u, flags),
         NEW a \in Seq(Path), NEW b \in Seq(Assignment), Len(b) = Len(a), Len(a) \in 1..MaxSet,
         \A i \in 1..Len(a) : Calls(Tables(u), ShownPath(u, b[i]), a[i])
  PROVE  /\ IsStatement([s EXCEPT !.set = a])
         /\ Kept([s EXCEPT !.set = a], [u EXCEPT !.set = b], flags)
<1> DEFINE t == [s EXCEPT !.set = a]
           v == [u EXCEPT !.set = b]
<1>1. /\ DOMAIN s = {"kind", "first", "second", "tail", "set", "where"}
      /\ DOMAIN u = Fields
  BY DEF IsStatement, Kept
<1>2. /\ DOMAIN t = {"kind", "first", "second", "tail", "set", "where"}
      /\ t.kind = s.kind /\ t.first = s.first /\ t.second = s.second /\ t.tail = s.tail
      /\ t.where = s.where /\ t.set = a
  BY ONLY <1>1
<1>3. DOMAIN v = Fields /\ v.target = u.target /\ v.from = u.from /\ v.where = u.where /\ v.set = b
  BY ONLY <1>1 DEF Fields
<1> HIDE DEF t, v
<1>4. IsStatement(t)
  <2>1. /\ s.kind \in Kinds /\ s.first \in Table /\ s.second \in Table
        /\ s.tail \in Seq([by : {"join", ","}, table : Table])
        /\ IsClause(s.where)
    BY DEF IsStatement
  <2>2. QED
    BY <1>2, <2>1, Zenon DEF IsStatement
<1>5. IsJoined(t, v, flags)
  BY <1>2, <1>3 DEF Kept, IsJoined
<1>6. IsClauseOf(t, v, flags)
  <2>1. KindTold(t, flags) = KindTold(s, flags)
    BY <1>2 DEF KindTold
  <2>2. QED
    BY <1>2, <1>3, <2>1 DEF Kept, IsClauseOf, IsWrapped
<1>7. Tables(v) = Tables(u) /\ \A x : ShownPath(v, x) = ShownPath(u, x)
  BY <1>3 DEF Tables, ShownPath
<1>8. IsShown(t, v)
  BY <1>2, <1>3, <1>7 DEF IsShown
<1>9. QED
  BY <1>3, <1>4, <1>5, <1>6, <1>8 DEF Kept, t, v

\* A statement of the tree: its assignments, one by one.
LEMMA SetOf ==
  ASSUME NEW s, NEW u, NEW flags, IsStatement(s), Kept(s, u, flags)
  PROVE  /\ s.set \in Seq(Path) /\ u.set \in Seq(Assignment)
         /\ Len(u.set) = Len(s.set) /\ Len(s.set) \in 1..MaxSet /\ Len(s.set) \in Nat
         /\ DOMAIN u.set = 1..Len(s.set) /\ DOMAIN s.set = 1..Len(s.set)
         /\ \A i \in 1..Len(s.set) : Calls(Tables(u), ShownPath(u, u.set[i]), s.set[i])
<1>1. s.set \in Seq(Path) /\ Len(s.set) \in 1..MaxSet
  BY DEF IsStatement
<1>2. /\ u.set \in Seq(Assignment) /\ Len(u.set) = Len(s.set)
      /\ \A i \in 1..Len(s.set) : Calls(Tables(u), ShownPath(u, u.set[i]), s.set[i])
  BY DEF Kept, IsShown
<1>3. DOMAIN s.set = 1..Len(s.set) /\ Len(s.set) \in Nat /\ DOMAIN u.set = 1..Len(u.set)
  BY ONLY <1>1, <1>2
<1>4. QED
  BY ONLY <1>1, <1>2, <1>3

\* An assignment that a patch brings is shown as it was brought.
LEMMA BareFacts ==
  ASSUME NEW path \in Path, NEW u
  PROVE  /\ Bare(path) \in Assignment
         /\ Calls(Tables(u), ShownPath(u, Bare(path)), path)
  BY DEF Bare, Assignment, ShownPath, Calls

\* An assignment more.
LEMMA InsertKeeps ==
  ASSUME NEW s, NEW u, NEW flags, IsStatement(s), Kept(s, u, flags), MaxSet \in Nat,
         NEW path \in Path, NEW i \in 1..(Len(u.set) + 1), Len(u.set) < MaxSet
  PROVE  /\ IsStatement([s EXCEPT !.set = InsertAt(@, i, path)])
         /\ Kept([s EXCEPT !.set = InsertAt(@, i, path)],
                 [u EXCEPT !.set = InsertAt(@, i, Bare(path))], flags)
<1> DEFINE n == Len(s.set)
           e == Bare(path)
           a == InsertAt(s.set, i, path)
           b == InsertAt(u.set, i, e)
<1>1. /\ s.set \in Seq(Path) /\ u.set \in Seq(Assignment)
      /\ Len(u.set) = n /\ n \in Nat
      /\ \A k \in 1..n : Calls(Tables(u), ShownPath(u, u.set[k]), s.set[k])
  BY SetOf
<1>2. e \in Assignment /\ Calls(Tables(u), ShownPath(u, e), path)
  BY BareFacts
<1> HIDE DEF e
<1>3. i \in 1..(n + 1) /\ n < MaxSet
  BY <1>1
<1>4. /\ a \in Seq(Path) /\ Len(a) = n + 1
      /\ \A k \in 1..(n + 1) : a[k] = IF k < i THEN s.set[k] ELSE IF k = i THEN path ELSE s.set[k - 1]
  <2> DEFINE x == s.set
  <2>1. x \in Seq(Path) /\ i \in 1..(Len(x) + 1) /\ Len(x) = n
    BY <1>1, <1>3
  <2> HIDE DEF x
  <2>2. /\ InsertAt(x, i, path) \in Seq(Path) /\ Len(InsertAt(x, i, path)) = Len(x) + 1
        /\ \A k \in 1..(Len(x) + 1) : InsertAt(x, i, path)[k] =
             IF k < i THEN x[k] ELSE IF k = i THEN path ELSE x[k - 1]
    BY <2>1, InsertAtFacts
  <2>3. QED
    BY <2>1, <2>2 DEF x
<1>5. /\ b \in Seq(Assignment) /\ Len(b) = n + 1
      /\ \A k \in 1..(n + 1) : b[k] = IF k < i THEN u.set[k] ELSE IF k = i THEN e ELSE u.set[k - 1]
  <2> DEFINE x == u.set
  <2>1. x \in Seq(Assignment) /\ i \in 1..(Len(x) + 1) /\ Len(x) = n
    BY <1>1, <1>3
  <2> HIDE DEF x
  <2>2. /\ InsertAt(x, i, e) \in Seq(Assignment) /\ Len(InsertAt(x, i, e)) = Len(x) + 1
        /\ \A k \in 1..(Len(x) + 1) : InsertAt(x, i, e)[k] =
             IF k < i THEN x[k] ELSE IF k = i THEN e ELSE x[k - 1]
    BY <1>2, <2>1, InsertAtFacts
  <2>3. QED
    BY <2>1, <2>2 DEF x
<1> HIDE DEF a, b
<1>6. \A k \in 1..Len(a) : Calls(Tables(u), ShownPath(u, b[k]), a[k])
  <2>1. TAKE k \in 1..Len(a)
  <2>2. k \in 1..(n + 1)
    BY <1>4
  <2>3. CASE k < i
    <3>1. k \in 1..n /\ a[k] = s.set[k] /\ b[k] = u.set[k]
      BY <1>1, <1>3, <1>4, <1>5, <2>2, <2>3
    <3>2. QED
      BY <1>1, <3>1
  <2>4. CASE k = i
    <3>1. a[k] = path /\ b[k] = e
      BY <1>4, <1>5, <2>2, <2>4
    <3>2. QED
      BY <1>2, <3>1
  <2>5. CASE k > i
    <3>1. k - 1 \in 1..n /\ ~(k < i) /\ k # i
      BY <1>1, <1>3, <2>2, <2>5
    <3>2. a[k] = s.set[k - 1] /\ b[k] = u.set[k - 1]
      BY <1>4, <1>5, <2>2, <3>1
    <3>3. QED
      BY <1>1, <3>1, <3>2
  <2>6. QED
    BY <1>3, <2>2, <2>3, <2>4, <2>5
<1>7. Len(b) = Len(a) /\ Len(a) \in 1..MaxSet
  BY <1>1, <1>3, <1>4, <1>5
<1>8. IsStatement([s EXCEPT !.set = a]) /\ Kept([s EXCEPT !.set = a], [u EXCEPT !.set = b], flags)
  BY <1>4, <1>5, <1>6, <1>7, SetChanged
<1>9. QED
  BY <1>8 DEF a, b, e

\* An assignment less.
LEMMA DeleteKeeps ==
  ASSUME NEW s, NEW u, NEW flags, IsStatement(s), Kept(s, u, flags), MaxSet \in Nat,
         NEW i \in DOMAIN u.set, Len(u.set) > 1
  PROVE  /\ IsStatement([s EXCEPT !.set = RemoveAt(@, i)])
         /\ Kept([s EXCEPT !.set = RemoveAt(@, i)], [u EXCEPT !.set = RemoveAt(@, i)], flags)
<1> DEFINE n == Len(s.set)
           a == RemoveAt(s.set, i)
           b == RemoveAt(u.set, i)
<1>1. /\ s.set \in Seq(Path) /\ u.set \in Seq(Assignment)
      /\ Len(u.set) = n /\ n \in Nat /\ n \in 1..MaxSet /\ n > 1 /\ i \in 1..n
      /\ \A k \in 1..n : Calls(Tables(u), ShownPath(u, u.set[k]), s.set[k])
  BY SetOf
<1>2. /\ a \in Seq(Path) /\ Len(a) = n - 1
      /\ \A k \in 1..(n - 1) : a[k] = IF k < i THEN s.set[k] ELSE s.set[k + 1]
  <2> DEFINE x == s.set
  <2>1. x \in Seq(Path) /\ i \in 1..Len(x) /\ Len(x) = n
    BY <1>1
  <2> HIDE DEF x
  <2>2. /\ RemoveAt(x, i) \in Seq(Path) /\ Len(RemoveAt(x, i)) = Len(x) - 1
        /\ \A k \in 1..(Len(x) - 1) : RemoveAt(x, i)[k] = IF k < i THEN x[k] ELSE x[k + 1]
    BY <2>1, RemoveAtFacts
  <2>3. QED
    BY <2>1, <2>2 DEF x
<1>3. /\ b \in Seq(Assignment) /\ Len(b) = n - 1
      /\ \A k \in 1..(n - 1) : b[k] = IF k < i THEN u.set[k] ELSE u.set[k + 1]
  <2> DEFINE x == u.set
  <2>1. x \in Seq(Assignment) /\ i \in 1..Len(x) /\ Len(x) = n
    BY <1>1
  <2> HIDE DEF x
  <2>2. /\ RemoveAt(x, i) \in Seq(Assignment) /\ Len(RemoveAt(x, i)) = Len(x) - 1
        /\ \A k \in 1..(Len(x) - 1) : RemoveAt(x, i)[k] = IF k < i THEN x[k] ELSE x[k + 1]
    BY <2>1, RemoveAtFacts
  <2>3. QED
    BY <2>1, <2>2 DEF x
<1> HIDE DEF a, b
<1>4. \A k \in 1..Len(a) : Calls(Tables(u), ShownPath(u, b[k]), a[k])
  <2>1. TAKE k \in 1..Len(a)
  <2>2. k \in 1..(n - 1)
    BY <1>2
  <2>3. k \in 1..n /\ k + 1 \in 1..n
    BY <1>1, <2>2
  <2>4. CASE k < i
    BY <1>1, <1>2, <1>3, <2>2, <2>3, <2>4
  <2>5. CASE ~(k < i)
    BY <1>1, <1>2, <1>3, <2>2, <2>3, <2>5
  <2>6. QED
    BY <2>4, <2>5
<1>5. Len(b) = Len(a) /\ Len(a) \in 1..MaxSet
  BY <1>1, <1>2, <1>3
<1>6. IsStatement([s EXCEPT !.set = a]) /\ Kept([s EXCEPT !.set = a], [u EXCEPT !.set = b], flags)
  BY <1>2, <1>3, <1>4, <1>5, SetChanged
<1>7. QED
  BY <1>6 DEF a, b

\* Another assignment in the place of one.
LEMMA ReplaceKeeps ==
  ASSUME NEW s, NEW u, NEW flags, IsStatement(s), Kept(s, u, flags), MaxSet \in Nat,
         NEW path \in Path, NEW i \in DOMAIN u.set
  PROVE  /\ IsStatement([s EXCEPT !.set[i] = path])
         /\ Kept([s EXCEPT !.set[i] = path], [u EXCEPT !.set[i] = Bare(path)], flags)
<1> DEFINE n == Len(s.set)
           e == Bare(path)
           a == [s.set EXCEPT ![i] = path]
           b == [u.set EXCEPT ![i] = e]
<1>1. /\ s.set \in Seq(Path) /\ u.set \in Seq(Assignment)
      /\ Len(u.set) = n /\ n \in Nat /\ n \in 1..MaxSet /\ i \in 1..n
      /\ \A k \in 1..n : Calls(Tables(u), ShownPath(u, u.set[k]), s.set[k])
  BY SetOf
<1>2. e \in Assignment /\ Calls(Tables(u), ShownPath(u, e), path)
  BY BareFacts
<1> HIDE DEF e
<1>3. a \in Seq(Path) /\ Len(a) = n /\ \A k \in 1..n : a[k] = IF k = i THEN path ELSE s.set[k]
  BY <1>1
<1>4. b \in Seq(Assignment) /\ Len(b) = n /\ \A k \in 1..n : b[k] = IF k = i THEN e ELSE u.set[k]
  BY <1>1, <1>2
<1>5. [s EXCEPT !.set[i] = path] = [s EXCEPT !.set = a] /\ [u EXCEPT !.set[i] = e] = [u EXCEPT !.set = b]
  OBVIOUS
<1> HIDE DEF a, b
<1>6. \A k \in 1..Len(a) : Calls(Tables(u), ShownPath(u, b[k]), a[k])
  BY <1>1, <1>2, <1>3, <1>4
<1>7. Len(b) = Len(a) /\ Len(a) \in 1..MaxSet
  BY <1>1, <1>3, <1>4
<1>8. IsStatement([s EXCEPT !.set = a]) /\ Kept([s EXCEPT !.set = a], [u EXCEPT !.set = b], flags)
  BY <1>3, <1>4, <1>6, <1>7, SetChanged
<1>9. QED
  BY <1>5, <1>8 DEF e

\* An entry of a FROM list with another table.
LEMMA OtherTable ==
  ASSUME NEW a, NEW b, NEW c
  PROVE  [[by |-> c, table |-> a] EXCEPT !.table = b] = [by |-> c, table |-> b]
  OBVIOUS

\* A FROM list of one table, and the list with another table in its place.
LEMMA SwapFrom ==
  ASSUME NEW a, NEW b
  PROVE  LET x == [by |-> ",", table |-> a]
             y == [by |-> ",", table |-> b]
         IN /\ <<x>> \o <<>> = <<x>> /\ <<y>> = <<y>> \o <<>>
            /\ <<x>>[1].table = a
            /\ [<<x>> EXCEPT ![1].table = b] = <<y>>
<1> DEFINE x == [by |-> ",", table |-> a]
           y == [by |-> ",", table |-> b]
<1>1. x.table = a
  OBVIOUS
<1>2. [x EXCEPT !.table = b] = y
  BY OtherTable
<1> HIDE DEF x, y
<1>3. <<x>> \o <<>> = <<x>> /\ <<y>> = <<y>> \o <<>> /\ <<x>>[1] = x
  OBVIOUS
<1>4. [<<x>> EXCEPT ![1].table = b] = <<[x EXCEPT !.table = b]>>
  OBVIOUS
<1>5. QED
  BY <1>1, <1>2, <1>3, <1>4 DEF x, y

\* The only assignment of swapped tables loses its qualifier: the tables go
\* back to the order of the text, and the marker of the join, an inner one,
\* says the same of both orders.
LEMMA TurnKeeps ==
  ASSUME NEW s, NEW u, NEW flags, IsStatement(s), Kept(s, u, flags),
         "REVERSED" \in flags, InnerMarked(u.where),
         Len(s.set) = 1, s.set[1] = <<>>, u.set[1] = Bare(<<>>)
  PROVE  Kept(s, [u EXCEPT !.target = u.from[1].table, !.from[1].table = u.target],
              flags \ {"REVERSED"})
<1> DEFINE v == [u EXCEPT !.target = u.from[1].table, !.from[1].table = u.target]
           g == flags \ {"REVERSED"}
           x == [by |-> ",", table |-> s.first]
           y == [by |-> ",", table |-> s.second]
<1>1. DOMAIN u = Fields /\ IsJoined(s, u, flags) /\ IsClauseOf(s, u, flags) /\ IsShown(s, u)
  BY DEF Kept
<1>2. /\ u.target = s.second /\ s.tail = <<>> /\ s.kind # "comma"
      /\ u.from = <<x>> \o s.tail
  BY <1>1 DEF IsJoined
<1>3. /\ <<x>> \o <<>> = <<x>> /\ <<y>> = <<y>> \o <<>>
      /\ <<x>>[1].table = s.first
      /\ [<<x>> EXCEPT ![1].table = s.second] = <<y>>
  BY SwapFrom
<1> HIDE DEF x, y
<1>4. u.from = <<x>> /\ u.from[1].table = s.first
  BY <1>2, <1>3
<1>5. v = [u EXCEPT !.target = s.first, !.from = [u.from EXCEPT ![1].table = s.second]]
  BY <1>2, <1>4
<1>6. [u.from EXCEPT ![1].table = s.second] = <<y>>
  BY <1>3, <1>4
<1>7. <<y>> = <<y>> \o s.tail
  BY <1>2, <1>3
<1>8. /\ DOMAIN v = Fields /\ v.target = s.first /\ v.from = <<y>> \o s.tail
      /\ v.set = u.set /\ v.where = u.where
  <2>1. v = [u EXCEPT !.target = s.first, !.from = <<y>> \o s.tail]
    BY <1>5, <1>6, <1>7
  <2> HIDE DEF v
  <2>2. QED
    BY ONLY <1>1, <2>1 DEF Fields
<1> HIDE DEF v
<1>9. /\ "REVERSED" \notin g /\ ("COMMA" \in g <=> "COMMA" \in flags)
      /\ ("INNER" \in g <=> "INNER" \in flags)
  OBVIOUS
<1> HIDE DEF g
<1>10. IsJoined(s, v, g)
  BY <1>1, <1>2, <1>8, <1>9 DEF IsJoined, y
<1>11. IsWrapped(s, u, flags) /\ KindTold(s, flags) = Invert(s.kind) /\ KindTold(s, g) = s.kind
  BY <1>1, <1>2, <1>9 DEF IsClauseOf, KindTold
<1> DEFINE w == Unwrapped(u.where)
           m == On(Marker(Invert(s.kind)))
<1>12. u.where = JoinWhere(Invert(s.kind), w)
  BY <1>11 DEF IsWrapped
<1>13. \E i \in DOMAIN u.where.terms : u.where.terms[i] = On("join")
  <2> DEFINE I == {i \in DOMAIN u.where.terms : u.where.terms[i] = On("join")}
  <2>1. Cardinality(I) = 1
    BY DEF InnerMarked
  <2>2. Cardinality({}) = 0
    BY FS_EmptySet
  <2> HIDE DEF I
  <2>3. ASSUME I = {} PROVE FALSE
    <3>1. Cardinality(I) = 0
      BY <2>2, <2>3
    <3>2. QED
      BY <2>1, <3>1
  <2>4. QED
    BY <2>3 DEF I
<1> HIDE DEF w
<1>14. m = On("join")
  <2>1. u.where.terms = <<m>> \o (IF w = NoWhere THEN <<>> ELSE <<Group(w)>>)
    BY <1>12 DEF JoinWhere
  <2>2. Group(w) # On("join")
    BY DEF Group, On
  <2> HIDE DEF m
  <2>3. \A i \in DOMAIN u.where.terms : u.where.terms[i] = m \/ u.where.terms[i] = Group(w)
    <3>1. CASE w = NoWhere
      BY <2>1, <3>1
    <3>2. CASE w # NoWhere
      BY <2>1, <3>2
    <3>3. QED
      BY <3>1, <3>2
  <2>4. QED
    BY <1>13, <2>2, <2>3
<1>15. Marker(Invert(s.kind)) = Marker(s.kind)
  <2>1. Marker(Invert(s.kind)) = "join"
    BY <1>14 DEF On
  <2>2. s.kind \in {"join", "inner", "left", "right", "comma"}
    BY DEF IsStatement, Kinds
  <2>3. QED
    BY ONLY <1>2, <2>1, <2>2 DEF Marker, Invert
<1>16. IsClauseOf(s, v, g)
  <2>1. JoinWhere(Invert(s.kind), w) = JoinWhere(s.kind, w)
    BY <1>15 DEF JoinWhere
  <2>2. IsWrapped(s, v, g)
    BY <1>8, <1>11, <1>12, <2>1 DEF IsWrapped, w
  <2>3. QED
    BY <1>2, <2>2 DEF IsClauseOf
<1>17. IsShown(s, v)
  <2>1. \A i \in 1..Len(s.set) : Calls(Tables(v), ShownPath(v, v.set[i]), s.set[i])
    <3>1. TAKE i \in 1..Len(s.set)
    <3>2. i = 1
      OBVIOUS
    <3>3. ShownPath(v, Bare(<<>>)) = <<>>
      BY DEF ShownPath, Bare
    <3>4. ShownPath(v, v.set[i]) = s.set[i]
      BY <1>8, <3>2, <3>3
    <3>5. QED
      BY <3>4 DEF Calls
  <2>2. QED
    BY <1>1, <1>8, <2>1 DEF IsShown
<1>18. QED
  BY <1>8, <1>10, <1>16, <1>17 DEF Kept, v, g

-----------------------------------------------------------------------------
(* Patches of the WHERE clause.                                            *)

\* A sequence is one of its own elements.
LEMMA OwnRange ==
  ASSUME NEW S, NEW x \in Seq(S)
  PROVE  x \in Seq(Range(x)) /\ \A i \in DOMAIN x : x[i] \in Range(x)
<1>1. Len(x) \in Nat /\ x \in [1..Len(x) -> S] /\ DOMAIN x = 1..Len(x)
  OBVIOUS
<1>2. \A i \in DOMAIN x : x[i] \in Range(x)
  BY DEF Range
<1>3. x \in [1..Len(x) -> Range(x)]
  BY <1>1, <1>2
<1>4. QED
  BY <1>1, <1>2, <1>3, SeqDef

\* What a patch adds to a clause.
LEMMA AddedIsClause ==
  ASSUME NEW w, IsClause(w), NEW op \in {"and", "or"}, NEW t, IsTerm(t)
  PROVE  IsClause(Added(w, op, t)) /\ IsClause(Where(t))
<1>1. t.what # "on"
  BY DEF IsTerm, Condition, Group
<1>2. w.terms \in Seq(Range(w.terms)) /\ \A i \in DOMAIN w.terms : w.terms[i].what # "on"
  BY DEF IsClause
<1>3. IsClause(Where(t))
  <2>1. Where(t).terms = <<t>> /\ Where(t).op = "and"
    BY DEF Where
  <2>2. <<t>> \in Seq({t})
    OBVIOUS
  <2>3. <<t>> \in Seq(Range(<<t>>))
    BY <2>2, OwnRange
  <2>4. \A i \in DOMAIN <<t>> : <<t>>[i].what # "on"
    BY <1>1
  <2>5. QED
    BY <2>1, <2>3, <2>4 DEF IsClause
<1>4. IsClause([op |-> op, terms |-> Append(w.terms, t)])
  <2> DEFINE R == Range(w.terms) \union {t}
             l == Append(w.terms, t)
             x == w.terms
  <2>1. x \in Seq(R) /\ t \in R
    BY <1>2
  <2>2. \A i \in DOMAIN x : x[i].what # "on"
    BY <1>2
  <2> HIDE DEF R, x
  <2>3. Append(x, t) \in Seq(R) /\ \A i \in DOMAIN Append(x, t) : Append(x, t)[i].what # "on"
    BY <1>1, <2>1, <2>2
  <2>4. l \in Seq(Range(l)) /\ \A i \in DOMAIN l : l[i].what # "on"
    BY <2>3, OwnRange DEF x
  <2> HIDE DEF l
  <2>5. [op |-> op, terms |-> l].op = op /\ [op |-> op, terms |-> l].terms = l
    OBVIOUS
  <2>6. QED
    BY <2>4, <2>5 DEF IsClause, l
<1>5. IsClause([op |-> op, terms |-> <<Group(w), t>>])
  <2> DEFINE h == Group(w)
             l == <<h, t>>
  <2>1. h.what # "on"
    BY DEF Group
  <2> HIDE DEF h
  <2>2. l \in Seq({h, t}) /\ \A i \in DOMAIN l : l[i].what # "on"
    BY <1>1, <2>1
  <2>3. l \in Seq(Range(l))
    BY <2>2, OwnRange
  <2> HIDE DEF l
  <2>4. [op |-> op, terms |-> l].op = op /\ [op |-> op, terms |-> l].terms = l
    OBVIOUS
  <2>5. QED
    BY <2>2, <2>3, <2>4 DEF IsClause, l, h
<1>6. QED
  BY <1>3, <1>4, <1>5, Zenon DEF Added

\* Another clause, of the statement and of the tree.
LEMMA WhereChanged ==
  ASSUME NEW s, NEW u, NEW flags, IsStatement(s), Kept(s, u, flags),
         NEW a, NEW b, IsClause(a),
         IF s.kind = "comma" THEN b = a
         ELSE /\ b = JoinWhere(KindTold(s, flags), Unwrapped(b))
              /\ IsClause(Unwrapped(b)) /\ SameClause(Unwrapped(b), a)
  PROVE  /\ IsStatement([s EXCEPT !.where = a])
         /\ Kept([s EXCEPT !.where = a], [u EXCEPT !.where = b], flags)
<1> DEFINE t == [s EXCEPT !.where = a]
           v == [u EXCEPT !.where = b]
<1>1. /\ DOMAIN s = {"kind", "first", "second", "tail", "set", "where"}
      /\ DOMAIN u = Fields
  BY DEF IsStatement, Kept
<1>2. /\ DOMAIN t = {"kind", "first", "second", "tail", "set", "where"}
      /\ t.kind = s.kind /\ t.first = s.first /\ t.second = s.second /\ t.tail = s.tail
      /\ t.set = s.set /\ t.where = a
  BY ONLY <1>1
<1>3. DOMAIN v = Fields /\ v.target = u.target /\ v.from = u.from /\ v.set = u.set /\ v.where = b
  BY ONLY <1>1 DEF Fields
<1> HIDE DEF t, v
<1>4. IsStatement(t)
  <2>1. /\ s.kind \in Kinds /\ s.first \in Table /\ s.second \in Table
        /\ s.tail \in Seq([by : {"join", ","}, table : Table])
        /\ s.set \in Seq(Path) /\ Len(s.set) \in 1..MaxSet
    BY DEF IsStatement
  <2>2. QED
    BY <1>2, <2>1, Zenon DEF IsStatement
<1>5. IsJoined(t, v, flags)
  BY <1>2, <1>3 DEF Kept, IsJoined
<1>6. IsClauseOf(t, v, flags)
  <2>1. KindTold(t, flags) = KindTold(s, flags)
    BY <1>2 DEF KindTold
  <2>2. QED
    BY <1>2, <1>3, <2>1 DEF IsClauseOf, IsWrapped
<1>7. Tables(v) = Tables(u) /\ \A x : ShownPath(v, x) = ShownPath(u, x)
  BY <1>3 DEF Tables, ShownPath
<1>8. IsShown(t, v)
  BY <1>2, <1>3, <1>7 DEF Kept, IsShown
<1>9. QED
  BY <1>3, <1>4, <1>5, <1>6, <1>8 DEF Kept, t, v

\* Two terms.
LEMMA TwoTerms ==
  ASSUME NEW x, NEW y
  PROVE  <<x>> \o <<>> = <<x>> /\ <<x>> \o <<y>> = <<x, y>>
<1> DEFINE S == {x, y}
           p == <<x>>
           q == <<y>>
           r == <<x, y>>
<1>1. /\ p \in Seq(S) /\ Len(p) = 1 /\ p[1] = x
      /\ q \in Seq(S) /\ Len(q) = 1 /\ q[1] = y
  OBVIOUS
<1>2. r \in Seq(S) /\ Len(r) = 2 /\ r[1] = x /\ r[2] = y
  OBVIOUS
<1>3. p \o <<>> = p
  BY <1>1, ConcatEmptySeq
<1> HIDE DEF p, q, r, S
<1>4. p \o q \in Seq(S) /\ Len(p \o q) = 2 /\ (p \o q)[1] = x /\ (p \o q)[2] = y
  <2>1. /\ p \o q \in Seq(S) /\ Len(p \o q) = Len(p) + Len(q)
        /\ \A j \in 1..(Len(p) + Len(q)) :
             (p \o q)[j] = IF j <= Len(p) THEN p[j] ELSE q[j - Len(p)]
    BY <1>1, ConcatFacts
  <2>2. Len(p) + Len(q) = 2
    BY <1>1
  <2>3. QED
    BY <1>1, <2>1, <2>2
<1>5. p \o q = r
  BY <1>2, <1>4
<1>6. QED
  BY <1>3, <1>5 DEF p, q, r

\* The terms behind WHERE in the tree of a join.
LEMMA JoinWhereIs ==
  ASSUME NEW kind, NEW w
  PROVE  LET m == On(Marker(kind))
         IN /\ JoinWhere(kind, w).op = "and"
            /\ w = NoWhere => JoinWhere(kind, w) = [op |-> "and", terms |-> <<m>>]
            /\ w # NoWhere => JoinWhere(kind, w) = [op |-> "and", terms |-> <<m, Group(w)>>]
            /\ m.what = "on"
<1> DEFINE m == On(Marker(kind))
           h == Group(w)
<1>1. m.what = "on"
  BY DEF On
<1>2. JoinWhere(kind, w) = [op |-> "and", terms |-> <<m>> \o (IF w = NoWhere THEN <<>> ELSE <<h>>)]
  BY DEF JoinWhere
<1> HIDE DEF m, h
<1>3. <<m>> \o <<>> = <<m>> /\ <<m>> \o <<h>> = <<m, h>>
  BY TwoTerms
<1>4. CASE w = NoWhere
  BY <1>1, <1>2, <1>3, <1>4 DEF m, h
<1>5. CASE w # NoWhere
  BY <1>1, <1>2, <1>3, <1>5 DEF m, h
<1>6. QED
  BY <1>4, <1>5

\* What can be restored of a join after a term was added: a group, where there
\* was no clause.
LEMMA AddedToJoin ==
  ASSUME NEW kind, NEW w, NEW op \in {"and", "or"}, NEW t, IsTerm(t),
         Wrapped(Added(JoinWhere(kind, w), op, t))
  PROVE  /\ w = NoWhere /\ op = "and"
         /\ t = Group(t.is) /\ IsClause(t.is) /\ t.is.terms # <<>>
         /\ Added(JoinWhere(kind, w), op, t) = JoinWhere(kind, t.is)
<1> DEFINE m == On(Marker(kind))
           h == Group(w)
           old == JoinWhere(kind, w)
           new == Added(old, op, t)
<1>1. /\ w = NoWhere => old = [op |-> "and", terms |-> <<m>>]
      /\ w # NoWhere => old = [op |-> "and", terms |-> <<m, h>>]
      /\ m.what = "on" /\ h.what = "group"
  BY JoinWhereIs DEF Group
<1>2. /\ new.terms # <<>> /\ new.terms[1].what = "on"
      /\ \/ Len(new.terms) = 1
         \/ new.op = "and" /\ Len(new.terms) = 2 /\ new.terms[2].what = "group"
  BY DEF Wrapped
<1> HIDE DEF m, h, old
<1>3. w = NoWhere
  <2>1. SUFFICES ASSUME w # NoWhere PROVE FALSE
    OBVIOUS
  <2>2. old.terms = <<m, h>> /\ old.op = "and" /\ old.terms # <<>> /\ Len(old.terms) = 2
    BY <1>1, <2>1
  <2>3. CASE op = "and"
    <3>1. new = [op |-> op, terms |-> Append(<<m, h>>, t)]
      BY <2>2, <2>3 DEF Added
    <3>2. Len(new.terms) = 3
      BY <3>1
    <3>3. QED
      BY <1>2, <3>2
  <2>4. CASE op # "and"
    <3>1. new = [op |-> op, terms |-> <<Group(old), t>>]
      BY <2>2, <2>4 DEF Added
    <3>2. new.terms[1] = Group(old)
      BY <3>1
    <3>3. Group(old).what = "group"
      BY DEF Group
    <3>4. QED
      BY <1>2, <3>2, <3>3
  <2>5. QED
    BY <2>3, <2>4
<1>4. old.terms = <<m>> /\ old.terms # <<>> /\ Len(old.terms) = 1
  BY <1>1, <1>3
<1>5. new = [op |-> op, terms |-> <<m, t>>]
  BY <1>4 DEF Added
<1> HIDE DEF new
<1>6. new.terms = <<m, t>> /\ new.op = op
  BY <1>5
<1>7. op = "and" /\ t.what = "group"
  BY <1>2, <1>6
<1>8. t = Group(t.is) /\ IsClause(t.is) /\ t.is.terms # <<>>
  BY <1>7 DEF IsTerm, Condition
<1>9. t.is # NoWhere
  BY <1>8 DEF NoWhere
<1>10. JoinWhere(kind, t.is) = [op |-> "and", terms |-> <<m, Group(t.is)>>]
  BY <1>9, JoinWhereIs DEF m
<1>11. new = JoinWhere(kind, t.is)
  BY <1>5, <1>7, <1>8, <1>10
<1>12. QED
  BY <1>3, <1>7, <1>8, <1>11 DEF new, old

\* A patch of the WHERE clause that can be restored has taken effect.
LEMMA AddedKeeps ==
  ASSUME NEW s, NEW u, NEW flags, IsStatement(s), Kept(s, u, flags),
         NEW op \in {"and", "or"}, NEW t, IsTerm(t),
         "COMMA" \in flags \/ Wrapped(Added(u.where, op, t))
  PROVE  /\ IsStatement([s EXCEPT !.where = Added(s.where, op, t)])
         /\ Kept([s EXCEPT !.where = Added(s.where, op, t)],
                 [u EXCEPT !.where = Added(u.where, op, t)], flags)
<1> DEFINE a == Added(s.where, op, t)
           b == Added(u.where, op, t)
           w == Unwrapped(u.where)
<1>1. IsClause(a)
  <2>1. IsClause(s.where)
    BY DEF IsStatement
  <2>2. QED
    BY <2>1, AddedIsClause
<1>2. "COMMA" \in flags <=> s.kind = "comma"
  BY DEF Kept, IsJoined
<1>3. CASE s.kind = "comma"
  <2>1. b = a
    BY <1>3 DEF Kept, IsClauseOf
  <2> HIDE DEF a, b
  <2>2. IsStatement([s EXCEPT !.where = a]) /\ Kept([s EXCEPT !.where = a], [u EXCEPT !.where = b], flags)
    BY <1>1, <1>3, <2>1, WhereChanged
  <2>3. QED
    BY <2>2 DEF a, b
<1>4. CASE s.kind # "comma"
  <2>1. u.where = JoinWhere(KindTold(s, flags), w) /\ SameClause(w, s.where)
    BY <1>4 DEF Kept, IsClauseOf, IsWrapped
  <2>2. Wrapped(Added(JoinWhere(KindTold(s, flags), w), op, t))
    BY <1>2, <1>4, <2>1
  <2> HIDE DEF w
  <2>3. /\ w = NoWhere /\ op = "and"
        /\ t = Group(t.is) /\ IsClause(t.is) /\ t.is.terms # <<>>
        /\ b = JoinWhere(KindTold(s, flags), t.is)
    BY <2>1, <2>2, AddedToJoin
  <2>4. s.where = NoWhere
    BY <2>1, <2>3 DEF SameClause, NoWhere
  <2>5. a = Where(t)
    BY <2>4 DEF Added, NoWhere
  <2> HIDE DEF a, b
  <2>6. Unwrapped(b) = t.is
    <3>1. t.is # NoWhere
      BY <2>3 DEF NoWhere
    <3>2. b.terms = <<On(Marker(KindTold(s, flags))), Group(t.is)>>
      BY <2>3, <3>1, JoinWhereIs
    <3>3. QED
      BY <3>2 DEF Unwrapped, Group
  <2>7. SameClause(t.is, a)
    BY <2>3, <2>5 DEF SameClause
  <2>8. IsStatement([s EXCEPT !.where = a]) /\ Kept([s EXCEPT !.where = a], [u EXCEPT !.where = b], flags)
    BY <1>1, <1>4, <2>3, <2>6, <2>7, WhereChanged
  <2>9. QED
    BY <2>8 DEF a, b
<1>5. QED
  BY <1>3, <1>4

\* A clause that takes the place of another can be restored of a list only.
LEMMA NewWhereKeeps ==
  ASSUME NEW s, NEW u, NEW flags, IsStatement(s), Kept(s, u, flags),
         NEW t, IsTerm(t), "COMMA" \in flags \/ Wrapped(Where(t))
  PROVE  /\ IsStatement([s EXCEPT !.where = Where(t)])
         /\ Kept([s EXCEPT !.where = Where(t)], [u EXCEPT !.where = Where(t)], flags)
<1>1. ~Wrapped(Where(t))
  <2>1. t.what # "on"
    BY DEF IsTerm, Condition, Group
  <2>2. Where(t).terms[1] = t
    BY DEF Where
  <2>3. QED
    BY <2>1, <2>2 DEF Wrapped
<1>2. s.kind = "comma"
  BY <1>1 DEF Kept, IsJoined
<1>3. IsClause(Where(t))
  <2>1. IsClause(s.where)
    BY DEF IsStatement
  <2>2. QED
    BY <2>1, AddedIsClause
<1>4. QED
  BY <1>2, <1>3, WhereChanged

-----------------------------------------------------------------------------
(* The invariant.                                                          *)

JoinsInvariant ==
  /\ IsStatement(sql) /\ Kept(sql, tree, shape)
  /\ shape \subseteq Flags /\ ("FALLBACK" \in shape => "MULTI" \in shape)
  /\ status \in {"ok", "UNSUPPORTED", "INTERNAL_ERROR"}
  /\ steps \in 0..MaxSteps

\* The flags of a commit.
LEMMA ReconciledFlags ==
  ASSUME NEW u, NEW flags, flags \subseteq Flags
  PROVE  /\ Reconciled(u, flags) \subseteq Flags
         /\ "FALLBACK" \in Reconciled(u, flags) => "MULTI" \in Reconciled(u, flags)
         /\ "COMMA" \in Reconciled(u, flags) <=> "COMMA" \in flags
  BY DEF Reconciled, Flags

\* A commit of a tree that holds the statement that is meant.
LEMMA CommitKeeps ==
  ASSUME NEW u, NEW flags, NEW s, flags \subseteq Flags, MaxSteps \in Nat,
         JoinsInvariant, MayPatch, IsStatement(s), Kept(s, u, flags), Commit(u, flags, s)
  PROVE  JoinsInvariant'
<1>1. /\ Reconciled(u, flags) \subseteq Flags
      /\ "FALLBACK" \in Reconciled(u, flags) => "MULTI" \in Reconciled(u, flags)
  BY ReconciledFlags
<1>2. Kept(s, u, Reconciled(u, flags))
  BY ReconciledKeeps
<1>3. sql' = s /\ tree' = u /\ shape' = Reconciled(u, flags)
  BY DEF Commit
<1>4. status' \in {"ok", "UNSUPPORTED"} /\ steps' = steps + 1
  BY DEF Commit
<1>5. steps' \in 0..MaxSteps
  BY <1>4 DEF MayPatch, JoinsInvariant
<1>6. IsStatement(sql') /\ Kept(sql', tree', shape')
  BY <1>2, <1>3
<1>7. shape' \subseteq Flags /\ ("FALLBACK" \in shape' => "MULTI" \in shape')
  BY <1>1, <1>3
<1>8. QED
  BY <1>4, <1>5, <1>6, <1>7 DEF JoinsInvariant

\* A parse of a statement that is held by what it makes.
LEMMA ReadKeeps ==
  ASSUME NEW s, NEW r, JoinsInvariant, IsStatement(s),
         Kept(s, Parse(r).tree, Parse(r).shape),
         sql' = s, tree' = Parse(r).tree, shape' = Parse(r).shape,
         status' = status, steps' \in 0..MaxSteps
  PROVE  JoinsInvariant'
<1>1. Parse(r).shape \subseteq Flags /\ "FALLBACK" \notin Parse(r).shape
  BY ParseIs
<1>2. QED
  BY <1>1 DEF JoinsInvariant

\* A patch of the WHERE clause: the handle is parsed from what it wrote.
LEMMA CommitAndParseKeeps ==
  ASSUME NEW u, NEW s, MaxSteps \in Nat, JoinsInvariant, MayPatch, CommitAndParse(u, s),
         CanRestore(u, Reconciled(u, shape)) => IsStatement(s) /\ Kept(s, u, shape)
  PROVE  JoinsInvariant'
<1> DEFINE flags == Reconciled(u, shape)
           r == Restored(u, flags)
<1>1. CASE Valid(u) /\ CanRestore(u, flags) /\ Admitted(r)
  <2>1. /\ sql' = s /\ tree' = Parse(r).tree /\ shape' = Parse(r).shape
        /\ steps' = steps + 1 /\ status' = status
    BY <1>1, Zenon DEF CommitAndParse
  <2>2. IsStatement(s) /\ Kept(s, u, shape)
    BY <1>1
  <2>3. Kept(s, u, flags)
    BY <2>2, ReconciledKeeps
  <2> HIDE DEF flags
  <2>4. Kept(s, Parse(r).tree, Parse(r).shape)
    BY <1>1, <2>2, <2>3, ParsedAgain
  <2>5. steps' \in 0..MaxSteps
    BY <2>1 DEF MayPatch, JoinsInvariant
  <2> HIDE DEF r
  <2>6. QED
    BY <2>1, <2>2, <2>4, <2>5, ReadKeeps
<1>2. CASE ~(Valid(u) /\ CanRestore(u, flags) /\ Admitted(r))
  <2>1. /\ status' \in {"INTERNAL_ERROR", "UNSUPPORTED"}
        /\ UNCHANGED <<sql, tree, shape, steps>>
    BY <1>2 DEF CommitAndParse
  <2>2. QED
    BY <2>1 DEF JoinsInvariant
<1>3. QED
  BY <1>1, <1>2

\* Every step keeps the invariant.
LEMMA JoinsInductive == JoinsInvariant /\ [Next]_vars => JoinsInvariant'
<1> SUFFICES ASSUME JoinsInvariant, [Next]_vars PROVE JoinsInvariant'
  OBVIOUS
<1>1. MaxSteps \in Nat /\ MaxSet \in Nat
  BY BoundAssumption
<1>2. IsStatement(sql) /\ Kept(sql, tree, shape) /\ shape \subseteq Flags
  BY DEF JoinsInvariant
<1>3. \A path \in Paths : path \in Path
  BY PatchAssumption
<1>4. \A t \in Conditions : IsTerm(t)
  BY PatchAssumption
<1>5. ASSUME NEW i \in 1..(MaxSet + 1), NEW path \in Paths, InsertAssignment(i, path)
      PROVE  JoinsInvariant'
  <2> DEFINE s == [sql EXCEPT !.set = InsertAt(@, i, path)]
             u == [tree EXCEPT !.set = InsertAt(@, i, Bare(path))]
  <2>1. /\ MayPatch /\ i \in 1..(Len(tree.set) + 1) /\ Len(tree.set) < MaxSet
        /\ Commit(u, shape, s)
    BY <1>5 DEF InsertAssignment
  <2>2. IsStatement(s) /\ Kept(s, u, shape)
    BY <1>1, <1>2, <1>3, <2>1, InsertKeeps
  <2> HIDE DEF s, u
  <2>3. QED
    BY <1>1, <1>2, <2>1, <2>2, CommitKeeps
<1>6. ASSUME NEW i \in 1..(MaxSet + 1), NEW path \in Paths, ReplaceAssignment(i, path)
      PROVE  JoinsInvariant'
  <2> DEFINE s == [sql EXCEPT !.set[i] = path]
             u == [tree EXCEPT !.set[i] = Bare(path)]
             turned == [u EXCEPT !.target = u.from[1].table, !.from[1].table = u.target]
  <2>1. /\ MayPatch /\ i \in DOMAIN tree.set
        /\ \/ ~TurnsBack(path) /\ Commit(u, shape, s)
           \/ /\ TurnsBack(path) /\ InnerMarked(tree.where)
              /\ Commit(turned, shape \ {"REVERSED"}, s)
           \/ status' = "UNSUPPORTED" /\ UNCHANGED <<sql, tree, shape, steps>>
    BY <1>6, Zenon DEF ReplaceAssignment
  <2>2. IsStatement(s) /\ Kept(s, u, shape)
    BY <1>1, <1>2, <1>3, <2>1, ReplaceKeeps
  <2>3. CASE ~TurnsBack(path) /\ Commit(u, shape, s)
    <3> HIDE DEF s, u
    <3>1. QED
      BY <1>1, <1>2, <2>1, <2>2, <2>3, CommitKeeps
  <2>4. CASE TurnsBack(path) /\ InnerMarked(tree.where) /\ Commit(turned, shape \ {"REVERSED"}, s)
    <3>1. "REVERSED" \in shape /\ path = <<>> /\ Len(tree.set) = 1
      BY <2>4 DEF TurnsBack
    <3>2. /\ sql.set \in Seq(Path) /\ tree.set \in Seq(Assignment)
          /\ Len(tree.set) = Len(sql.set) /\ DOMAIN tree.set = 1..Len(sql.set)
      BY <1>2, SetOf
    <3>3. i = 1 /\ Len(sql.set) = 1
      <4>1. Len(sql.set) = 1
        BY <3>1, <3>2
      <4>2. i \in 1..1
        BY <2>1, <3>2, <4>1
      <4>3. QED
        BY ONLY <4>1, <4>2
    <3>4. Len(s.set) = 1 /\ s.set[1] = <<>>
      <4>1. s.set = [sql.set EXCEPT ![i] = path]
        BY <1>2 DEF IsStatement
      <4>2. QED
        BY <3>1, <3>2, <3>3, <4>1
    <3>5. u.set[1] = Bare(<<>>) /\ u.where = tree.where
      <4>1. DOMAIN tree = Fields
        BY <1>2 DEF Kept
      <4>2. u.set = [tree.set EXCEPT ![i] = Bare(path)] /\ u.where = tree.where
        BY <4>1 DEF Fields
      <4>3. QED
        BY <3>1, <3>2, <3>3, <4>2
    <3> HIDE DEF s, u
    <3>6. Kept(s, turned, shape \ {"REVERSED"})
      BY <2>2, <2>4, <3>1, <3>4, <3>5, TurnKeeps
    <3> HIDE DEF turned
    <3>7. shape \ {"REVERSED"} \subseteq Flags
      BY <1>2
    <3>8. QED
      BY <1>1, <2>1, <2>2, <2>4, <3>6, <3>7, CommitKeeps
  <2>5. CASE status' = "UNSUPPORTED" /\ UNCHANGED <<sql, tree, shape, steps>>
    BY <2>5 DEF JoinsInvariant
  <2>6. QED
    BY <2>1, <2>3, <2>4, <2>5
<1>7. ASSUME NEW i \in 1..MaxSet, DeleteAssignment(i)
      PROVE  JoinsInvariant'
  <2> DEFINE s == [sql EXCEPT !.set = RemoveAt(@, i)]
             u == [tree EXCEPT !.set = RemoveAt(@, i)]
  <2>1. /\ MayPatch /\ i \in DOMAIN tree.set /\ Len(tree.set) > 1
        /\ Commit(u, shape, s)
    BY <1>7 DEF DeleteAssignment
  <2>2. IsStatement(s) /\ Kept(s, u, shape)
    BY <1>1, <1>2, <2>1, DeleteKeeps
  <2> HIDE DEF s, u
  <2>3. QED
    BY <1>1, <1>2, <2>1, <2>2, CommitKeeps
<1>8. ASSUME NEW op \in {"and", "or"}, NEW t \in Conditions, AppendCondition(op, t)
      PROVE  JoinsInvariant'
  <2> DEFINE s == [sql EXCEPT !.where = Added(@, op, t)]
             u == [tree EXCEPT !.where = Added(@, op, t)]
  <2>1. MayPatch /\ CommitAndParse(u, s)
    BY <1>8 DEF AppendCondition
  <2>2. CanRestore(u, Reconciled(u, shape)) => IsStatement(s) /\ Kept(s, u, shape)
    <3>1. SUFFICES ASSUME CanRestore(u, Reconciled(u, shape)) PROVE IsStatement(s) /\ Kept(s, u, shape)
      OBVIOUS
    <3>2. u.where = Added(tree.where, op, t)
      BY <1>2 DEF Kept, Fields
    <3>3. "COMMA" \in Reconciled(u, shape) <=> "COMMA" \in shape
      BY <1>2, ReconciledFlags
    <3>4. "COMMA" \in shape \/ Wrapped(Added(tree.where, op, t))
      BY <3>1, <3>2, <3>3 DEF CanRestore
    <3>5. QED
      BY <1>2, <1>4, <3>4, AddedKeeps
  <2> HIDE DEF s, u
  <2>3. QED
    BY <1>1, <2>1, <2>2, CommitAndParseKeeps
<1>9. ASSUME NEW t \in Conditions, ReplaceWhere(t)
      PROVE  JoinsInvariant'
  <2> DEFINE s == [sql EXCEPT !.where = Where(t)]
             u == [tree EXCEPT !.where = Where(t)]
  <2>1. MayPatch /\ CommitAndParse(u, s)
    BY <1>9 DEF ReplaceWhere
  <2>2. CanRestore(u, Reconciled(u, shape)) => IsStatement(s) /\ Kept(s, u, shape)
    <3>1. SUFFICES ASSUME CanRestore(u, Reconciled(u, shape)) PROVE IsStatement(s) /\ Kept(s, u, shape)
      OBVIOUS
    <3>2. u.where = Where(t)
      BY <1>2 DEF Kept, Fields
    <3>3. "COMMA" \in Reconciled(u, shape) <=> "COMMA" \in shape
      BY <1>2, ReconciledFlags
    <3>4. "COMMA" \in shape \/ Wrapped(Where(t))
      BY <3>1, <3>2, <3>3 DEF CanRestore
    <3>5. QED
      BY <1>2, <1>4, <3>4, NewWhereKeeps
  <2> HIDE DEF s, u
  <2>3. QED
    BY <1>1, <2>1, <2>2, CommitAndParseKeeps
<1>10. CASE Reread
  <2> DEFINE r == Restored(tree, shape)
  <2>1. /\ sql' \in {sql, r} /\ Admitted(sql')
        /\ tree' = Parse(sql').tree /\ shape' = Parse(sql').shape
        /\ status' = status /\ steps' = steps
    BY <1>10 DEF Reread
  <2>2. IsStatement(sql')
    <3>1. IsStatement(r)
      BY <1>2, RestoredIs
    <3>2. QED
      BY <1>2, <2>1, <3>1
  <2>3. Kept(sql', Parse(sql').tree, Parse(sql').shape)
    BY <2>1, <2>2, ParseKeeps
  <2>4. steps' \in 0..MaxSteps
    BY <2>1 DEF JoinsInvariant
  <2>5. QED
    BY <2>1, <2>2, <2>3, <2>4, ReadKeeps
<1>11. CASE UNCHANGED vars
  BY <1>11 DEF vars, JoinsInvariant
<1>12. QED
  BY <1>5, <1>6, <1>7, <1>8, <1>9, <1>10, <1>11 DEF Next

\* The statement lies in the tree at every time, for every statement and every
\* sequence of patches and parses.
THEOREM StatementsAreKept == Spec => []JoinsInvariant
<1>1. Init => JoinsInvariant
  <2>1. SUFFICES ASSUME Init PROVE JoinsInvariant
    OBVIOUS
  <2>2. /\ sql \in Statements /\ Admitted(sql)
        /\ tree = Parse(sql).tree /\ shape = Parse(sql).shape /\ status = "ok" /\ steps = 0
    BY <2>1 DEF Init
  <2>3. IsStatement(sql)
    BY <2>2, StatementAssumption
  <2>4. Kept(sql, tree, shape)
    BY <2>2, <2>3, ParseKeeps
  <2>5. shape \subseteq Flags /\ "FALLBACK" \notin shape
    BY <2>2, ParseIs
  <2>6. steps \in 0..MaxSteps
    BY <2>2, BoundAssumption
  <2>7. QED
    BY <2>2, <2>3, <2>4, <2>5, <2>6 DEF JoinsInvariant
<1>2. QED
  BY <1>1, JoinsInductive, PTL DEF Spec

\* The state of the statement keeps its form: sqlparser_mysql_state_add_dml_shape
\* and what patches make of it.
THEOREM JoinsTypeIsInvariant == Spec => []TypeOK
<1>1. JoinsInvariant => TypeOK
  <2>1. SUFFICES ASSUME JoinsInvariant PROVE TypeOK
    OBVIOUS
  <2>2. IsStatement(sql) /\ Kept(sql, tree, shape) /\ IsJoined(sql, tree, shape)
    BY <2>1 DEF JoinsInvariant, Kept
  <2>3. DOMAIN tree = {"target", "from", "set", "where"}
    BY <2>2 DEF Kept, Fields
  <2>4. /\ tree.from # <<>>
        /\ Tables(tree) = {sql.first, sql.second} \union {sql.tail[i].table : i \in DOMAIN sql.tail}
    BY <2>2, TablesAre
  <2>5. Len(tree.set) \in 1..MaxSet
    BY <2>2, SetOf
  <2>6. ~({"REVERSED", "COMMA"} \subseteq shape)
    BY <2>2 DEF IsJoined
  <2>7. QED
    BY <2>1, <2>2, <2>3, <2>4, <2>5, <2>6 DEF JoinsInvariant, TypeOK
<1>2. QED
  BY <1>1, StatementsAreKept, PTL

\* What sqlparser_mysql_rewrite_update_from_to_join writes is the statement as
\* it was written and patched: the order and the direction of its joins, the
\* table of each assignment, its WHERE clause.
THEOREM StatementsAreWrittenBack == Spec => []RestoreWritesTheStatement
<1>1. JoinsInvariant => RestoreWritesTheStatement
  <2>1. SUFFICES ASSUME JoinsInvariant PROVE SameStatement(Restored(tree, shape), sql)
    BY DEF RestoreWritesTheStatement
  <2> DEFINE r == Restored(tree, shape)
  <2>2. IsStatement(sql) /\ Kept(sql, tree, shape)
    BY <2>1 DEF JoinsInvariant
  <2>3. /\ IsStatement(r)
        /\ r.kind = sql.kind /\ r.first = sql.first /\ r.second = sql.second /\ r.tail = sql.tail
        /\ Len(r.set) = Len(sql.set)
        /\ \A i \in 1..Len(sql.set) : r.set[i] = ShownPath(tree, tree.set[i])
        /\ SameClause(r.where, sql.where)
    BY <2>2, RestoredIs
  <2> HIDE DEF r
  <2>4. DOMAIN r.set = 1..Len(sql.set) /\ DOMAIN sql.set = 1..Len(sql.set)
    <3>1. r.set \in Seq(Path) /\ sql.set \in Seq(Path)
      BY <2>2, <2>3 DEF IsStatement
    <3>2. QED
      BY <2>3, <3>1
  <2>5. ASSUME NEW i \in 1..Len(sql.set) PROVE SamePath(r.set[i], sql.set[i])
    <3> DEFINE p == r.set[i]
               q == sql.set[i]
    <3>1. Calls(Tables(tree), p, q)
      BY <2>2, <2>3, SetOf
    <3>2. CASE p = q
      BY <3>2 DEF SamePath
    <3>3. CASE p # q
      <4>1. PICK t \in Tables(tree) : q # <<>> /\ q[1] \in TextNames(t) /\ p = <<Visible(t)>> \o Tail(q)
        BY <3>1, <3>3 DEF Calls
      <4>2. t \in Table
        <5>1. Tables(tree) = {sql.first, sql.second} \union {sql.tail[k].table : k \in DOMAIN sql.tail}
          BY <2>2, TablesAre DEF Kept
        <5>2. /\ sql.first \in Table /\ sql.second \in Table
              /\ sql.tail \in Seq([by : {"join", ","}, table : Table])
          BY <2>2 DEF IsStatement
        <5>3. \A k \in DOMAIN sql.tail : sql.tail[k].table \in Table
          <6> DEFINE T == [by : {"join", ","}, table : Table]
          <6>1. \A x \in T : x.table \in Table
            OBVIOUS
          <6>2. sql.tail \in Seq(T)
            BY <5>2
          <6> HIDE DEF T
          <6>3. \A k \in DOMAIN sql.tail : sql.tail[k] \in T
            BY ONLY <6>2
          <6>4. QED
            BY ONLY <6>1, <6>3
        <5>4. QED
          BY <5>1, <5>2, <5>3
      <4>3. Visible(t) \in STRING /\ Visible(t) \in TextNames(t)
        BY <4>2, VisibleIsWord
      <4>4. q \in Seq(STRING)
        <5>1. sql.set \in Seq(Path)
          BY <2>2 DEF IsStatement
        <5>2. q \in Path
          BY ONLY <5>1
        <5>3. QED
          BY <5>2 DEF Path
      <4> HIDE DEF p, q
      <4>5. Tail(q) \in Seq(STRING)
        BY <4>1, <4>4, HeadTailProperties
      <4>6. p # <<>> /\ p[1] = Visible(t)
        BY <4>1, <4>3, <4>5, FromFacts
      <4>7. Names(t, p) /\ Names(t, q)
        BY <4>1, <4>3, <4>6 DEF Names
      <4>8. QED
        BY <4>1, <4>6, <4>7 DEF SamePath, p, q
    <3>4. QED
      BY <3>2, <3>3
  <2>6. QED
    BY <2>3, <2>4, <2>5 DEF SameStatement, r
<1>2. QED
  BY <1>1, StatementsAreKept, PTL
===============================================================================
