---------------------- MODULE IdentifierMutationsProofs ----------------------
(***************************************************************************)
(* Proofs about the records of changed names: each follows its own string  *)
(* through every patch, the parts of a relation stay together, and what    *)
(* deparse writes for a name is the spelling the name is due.              *)
(***************************************************************************)
EXTENDS IdentifierMutations, FiniteSetTheorems, RecursionFacts

-----------------------------------------------------------------------------
(* The inductive invariant.                                                *)

\* The nodes of a statement: a relation is two strings in a row, its schema and
\* its name, any other node is one.
NodesAreWhole(t) ==
  \A k \in DOMAIN t :
    /\ t[k].part = 2 => /\ k > 1 /\ t[k].kind = "relation" /\ t[k - 1].kind = "relation"
                        /\ t[k - 1].part = 1 /\ t[k - 1].id = t[k].id
                        /\ t[k - 1].location = t[k].location
    /\ t[k].kind = "relation" /\ t[k].part = 1 =>
         k < Len(t) /\ t[k + 1].part = 2 /\ t[k + 1].id = t[k].id

\* Every field has an address of its own, every string too but for the empty one
\* that came with the tree.
AddressesDiffer(t) ==
  \A k, m \in DOMAIN t :
    /\ t[k].id = t[m].id /\ t[k].part = t[m].part => k = m
    /\ t[k].cell = t[m].cell /\ t[k].cell # EmptyCell => k = m

\* A tree in memory.
TreeIsWhole(t) == t \in Seq(String) /\ NodesAreWhole(t) /\ AddressesDiffer(t)

\* What a name that was not given a spelling is due.
Plain(s) == IF s.text = s.first THEN OwnSpelling(s.location, s.text) ELSE Spell("default", s.text)

\* A record of the string s.
Describes(r, s) ==
  /\ r.original = s.first
  /\ r.present <=> s.first # NoText /\ s.location = "source"
  /\ r.spelling # NULL => r.spelling = s.due /\ r.spelling.of = s.text
  /\ r.group # 0 => s.kind = "relation"

\* The string at k, given the records R there are.
IsKnown(R, t, k) ==
  /\ (\A r \in R : r.index # k) => t[k].text = t[k].first
  /\ t[k].text # NoText /\ (\A r \in R : r.index = k => r.spelling = NULL) =>
       /\ t[k].due = Plain(t[k])
       /\ t[k].location = "fragment" => t[k].text = t[k].first
  /\ t[k].location = "fragment" /\ t[k].kind = "relation" /\ t[k].part = 1 =>
       /\ t[k].first = NoText
       /\ t[k].text # NoText => \E r \in R : r.index = k + 1 /\ r.spelling # NULL

\* The parts of a relation are in one group, other relations are in others.
GroupsAgree(R, t) ==
  /\ \A r \in R : r.group # 0 =>
       \A m \in DOMAIN t : t[m].id = t[r.index].id => \E s \in R : s.index = m /\ s.group = r.group
  /\ \A r, s \in R : r.group # 0 /\ r.group = s.group => t[r.index].id = t[s.index].id

\* Records R that follow the strings of t.
Follow(R, t) ==
  /\ \A r \in R : r.index \in DOMAIN t /\ Describes(r, t[r.index])
  /\ \A r, s \in R : r.index = s.index => r = s
  /\ \A k \in DOMAIN t : IsKnown(R, t, k)
  /\ GroupsAgree(R, t)

\* The addresses that the records R name: those of their strings, or none.
BoundIn(R, t) == \A r \in R : r.slot = Address(t, r.index) /\ r.cell = t[r.index].cell
Unbound(R) == \A r \in R : r.slot = NULL /\ r.cell = NULL

\* A string has one record.
RecordsAreDistinct(recs) == \A i, j \in DOMAIN recs : recs[i].index = recs[j].index => i = j

\* Between patches and lists the records follow the tree; with the AST at hand they
\* also name its addresses. No patch stops with an error.
MutationsInvariant ==
  /\ TreeIsWhole(tree)
  /\ records \in Seq(Record) /\ RecordsAreDistinct(records) /\ Follow(Range(records), tree)
  /\ loaded \in BOOLEAN
  /\ IF loaded THEN BoundIn(Range(records), tree) ELSE Unbound(Range(records))
  /\ backing \in Backings /\ status = "ok" /\ steps \in 0..MaxSteps

-----------------------------------------------------------------------------
(* Addresses.                                                              *)

\* The lowest free address is a number not in use.
LEMMA LowestFreeFacts ==
  ASSUME NEW used, IsFiniteSet(used)
  PROVE  LowestFree(used) \in Nat \ {0} /\ LowestFree(used) \notin used
<1> DEFINE c == Cardinality(used)
           free == 1..(c + 1) \ used
<1>1. c \in Nat
  BY FS_CardinalityType
<1> HIDE DEF c
<1>2. free # {}
  <2>1. SUFFICES ASSUME 1..(c + 1) \in SUBSET used PROVE FALSE
    OBVIOUS
  <2>2. Cardinality(1..(c + 1)) <= c
    BY <2>1, FS_Subset DEF c
  <2>3. Cardinality(1..(c + 1)) = c + 1
    <3>1. 1 \in Int /\ c + 1 \in Int /\ 1 <= c + 1 /\ c + 1 - 1 + 1 = c + 1
      BY <1>1
    <3>2. QED
      BY <3>1, FS_Interval
  <2>4. QED
    BY <1>1, <2>2, <2>3
<1>3. PICK n \in free : \A k \in free : n <= k
  <2>1. free \in SUBSET Nat
    BY <1>1
  <2>2. QED
    BY <1>2, <2>1, LeastNatural
<1>4. \A m \in 1..(n - 1) : m \in used
  <2>1. SUFFICES ASSUME NEW m \in 1..(n - 1), m \notin used PROVE FALSE
    OBVIOUS
  <2>2. m \in free /\ m < n
    BY <1>1, <1>3, <2>1
  <2>3. QED
    BY <1>1, <1>3, <2>2
<1>5. LowestFree(used) \in free
  BY <1>3, <1>4 DEF LowestFree, c
<1>6. QED
  BY <1>1, <1>5

\* A statement has finitely many addresses.
LEMMA FiniteAddresses ==
  ASSUME NEW t \in Seq(String)
  PROVE  /\ IsFiniteSet(Ids(t)) /\ IsFiniteSet(Cells(t))
         /\ \A x : IsFiniteSet(Cells(t) \cup {x})
<1> DEFINE n == Len(t)
           ids == [k \in 1..n |-> t[k].id]
           cells == [k \in 1..n |-> t[k].cell]
<1>1. n \in Nat /\ DOMAIN t = 1..n
  OBVIOUS
<1>2. IsFiniteSet(1..n)
  BY <1>1, FS_Interval
<1>3. ids \in Surjection(1..n, Ids(t))
  BY <1>1 DEF Ids, Surjection
<1>4. cells \in Surjection(1..n, Cells(t))
  BY <1>1 DEF Cells, Surjection
<1> HIDE DEF n, ids, cells
<1>5. IsFiniteSet(Ids(t)) /\ IsFiniteSet(Cells(t))
  BY <1>2, <1>3, <1>4, FS_Surjection
<1>6. QED
  BY <1>5, FS_AddElement

-----------------------------------------------------------------------------
(* Selecting and binding records.                                          *)

\* Which records a selection takes, and where from.
IsSelection(out, recs, S, n, m) ==
  /\ m \in [1..Len(out) -> S \cap (1..n)]
  /\ \A i \in 1..Len(out) : out[i] = recs[m[i]]
  /\ \A i, j \in 1..Len(out) : m[i] = m[j] => i = j
  /\ \A k \in S \cap (1..n) : \E i \in 1..Len(out) : m[i] = k

\* A selection keeps the order and takes each chosen record once.
LEMMA SelectedFacts ==
  ASSUME NEW recs \in Seq(Record), NEW S \in SUBSET (DOMAIN recs)
  PROVE  /\ Selected(recs, S) \in Seq(Record)
         /\ \E m : IsSelection(Selected(recs, S), recs, S, Len(recs), m)
         /\ S = DOMAIN recs => Selected(recs, S) = recs
<1> DEFINE n == Len(recs)
           T == Seq(Record)
           step == [k \in 1..n |-> [v \in T |-> IF k \in S THEN Append(v, recs[k]) ELSE v]]
           Defined(f) == f = [k \in 0..n |-> IF k = 0 THEN <<>>
                                             ELSE IF k \in S THEN Append(f[k - 1], recs[k])
                                             ELSE f[k - 1]]
<1>1. n \in Nat /\ <<>> \in T /\ DOMAIN recs = 1..n
  OBVIOUS
<1>2. \A k \in 1..n : recs[k] \in Record
  OBVIOUS
<1>3. step \in [1..n -> [T -> T]]
  <2>1. ASSUME NEW k \in 1..n, NEW v \in T PROVE Append(v, recs[k]) \in T
    BY <1>2
  <2>2. QED
    BY <2>1
<1>4. PICK g : Stepwise(g, <<>>, n, step, T)
  <2> HIDE DEF n, T, step
  <2>1. QED
    BY <1>1, <1>3, StepwiseExists
<1>5. Defined(g)
  <2>1. g \in [0..n -> T] /\ g[0] = <<>> /\ \A k \in 1..n : g[k] = step[k][g[k - 1]]
    BY <1>4 DEF Stepwise
  <2>2. \A k \in 1..n : g[k] = IF k \in S THEN Append(g[k - 1], recs[k]) ELSE g[k - 1]
    <3>1. ASSUME NEW k \in 1..n PROVE k - 1 \in 0..n /\ g[k - 1] \in T
      BY <1>1, <2>1, SMTT(40)
    <3>2. QED
      BY <2>1, <3>1
  <2>3. g = [k \in 0..n |-> g[k]]
    BY <2>1
  <2>4. \A k \in 0..n : k = 0 \/ k \in 1..n
    BY <1>1
  <2> HIDE DEF n, T, step
  <2>5. \A k \in 0..n : g[k] = IF k = 0 THEN <<>> ELSE IF k \in S THEN Append(g[k - 1], recs[k])
                                                  ELSE g[k - 1]
    BY <2>1, <2>2, <2>4
  <2>6. QED
    BY <2>3, <2>5
<1> DEFINE f == CHOOSE f : Defined(f)
<1>6. Defined(f)
  BY <1>5
<1>7. Selected(recs, S) = f[n]
  BY DEF Selected
<1> HIDE DEF f
<1>8. f[0] = <<>> /\ \A k \in 1..n : f[k] = IF k \in S THEN Append(f[k - 1], recs[k]) ELSE f[k - 1]
  <2>1. \A k \in 0..n : f[k] = IF k = 0 THEN <<>> ELSE IF k \in S THEN Append(f[k - 1], recs[k])
                                                  ELSE f[k - 1]
    BY <1>6
  <2>2. 0 \in 0..n /\ \A k \in 1..n : k \in 0..n /\ k # 0
    BY <1>1
  <2>3. QED
    BY ONLY <2>1, <2>2
<1> HIDE DEF n, T, step
<1> DEFINE Good(k) == /\ f[k] \in Seq(Record)
                      /\ \E m : IsSelection(f[k], recs, S, k, m)
                      /\ 1..k \subseteq S => /\ Len(f[k]) = k
                                             /\ \A i \in 1..k : f[k][i] = recs[i]
           U == {k \in Nat : Good(k)}
<1>9. 0 \in U
  <2>1. Len(<<>>) = 0 /\ 1..0 = {} /\ S \cap (1..0) = {} /\ <<>> \in [1..0 -> {}]
    OBVIOUS
  <2>2. IsSelection(<<>>, recs, S, 0, <<>>)
    BY ONLY <2>1 DEF IsSelection
  <2>3. <<>> \in Seq(Record) /\ 0 \in Nat
    OBVIOUS
  <2>4. QED
    BY <1>8, <2>1, <2>2, <2>3
<1>10. ASSUME NEW k \in 0..(n - 1), k \in U PROVE k + 1 \in U
  <2>1. k + 1 \in 1..n /\ (k + 1) - 1 = k /\ k \in Nat /\ k + 1 \in Nat
    BY <1>1
  <2>2. f[k] \in Seq(Record) /\ Len(f[k]) \in Nat
    BY <1>10
  <2>3. PICK m : IsSelection(f[k], recs, S, k, m)
    BY <1>10
  <2>4. 1..k \subseteq S => Len(f[k]) = k /\ \A i \in 1..k : f[k][i] = recs[i]
    BY <1>10
  <2>5. recs[k + 1] \in Record
    BY <1>2, <2>1
  <2>6. f[k + 1] = IF k + 1 \in S THEN Append(f[k], recs[k + 1]) ELSE f[k]
    BY <1>8, <2>1
  <2> DEFINE p == f[k]
             q == f[k + 1]
             l == Len(p)
  <2>7. CASE k + 1 \in S
    <3>1. /\ q \in Seq(Record) /\ Len(q) = l + 1
          /\ \A i \in 1..l : q[i] = p[i]
          /\ q[l + 1] = recs[k + 1]
      BY <2>2, <2>5, <2>6, <2>7
    <3> HIDE DEF q, p
    <3> DEFINE h == [i \in 1..(l + 1) |-> IF i = l + 1 THEN k + 1 ELSE m[i]]
    <3>2. l \in Nat /\ IsSelection(p, recs, S, k, m)
      BY <2>2, <2>3 DEF p
    <3>3. IsSelection(q, recs, S, k + 1, h)
      <4>1. h \in [1..(l + 1) -> S \cap (1..(k + 1))]
        BY <2>1, <2>7, <3>2 DEF IsSelection
      <4>2. \A i \in 1..(l + 1) : q[i] = recs[h[i]]
        BY <3>1, <3>2 DEF IsSelection
      <4>3. \A i, j \in 1..(l + 1) : h[i] = h[j] => i = j
        <5>1. \A i \in 1..l : h[i] = m[i] /\ m[i] \in 1..k
          BY <3>2, SMTT(40) DEF IsSelection
        <5>2. h[l + 1] = k + 1 /\ \A i \in 1..(l + 1) : i = l + 1 \/ i \in 1..l
          BY <3>2
        <5>3. \A i \in 1..l : h[i] # k + 1
          <6>1. k + 1 \notin 1..k
            BY ONLY <2>1
          <6>2. QED
            BY ONLY <5>1, <6>1
        <5>4. \A i, j \in 1..l : m[i] = m[j] => i = j
          BY <3>2 DEF IsSelection
        <5> HIDE DEF h
        <5>5. QED
          BY ONLY <5>1, <5>2, <5>3, <5>4
      <4>4. ASSUME NEW x \in S \cap (1..(k + 1)) PROVE \E i \in 1..(l + 1) : h[i] = x
        <5>1. CASE x = k + 1
          <6>1. l + 1 \in 1..(l + 1) /\ h[l + 1] = k + 1
            BY <3>2
          <6>2. QED
            BY <5>1, <6>1
        <5>2. CASE x # k + 1
          <6>1. x \in S \cap (1..k)
            BY <2>1, <4>4, <5>2
          <6>2. PICK i \in 1..l : m[i] = x
            BY <3>2, <6>1 DEF IsSelection
          <6>3. i \in 1..(l + 1) /\ i # l + 1 /\ h[i] = m[i]
            BY <3>2
          <6>4. QED
            BY <6>2, <6>3
        <5>3. QED
          BY <5>1, <5>2
      <4> HIDE DEF h
      <4>5. QED
        BY <3>1, <4>1, <4>2, <4>3, <4>4 DEF IsSelection
    <3>4. ASSUME 1..(k + 1) \subseteq S
          PROVE  Len(q) = k + 1 /\ \A i \in 1..(k + 1) : q[i] = recs[i]
      <4>1. 1..k \subseteq S
        BY <2>1, <3>4
      <4>2. l = k /\ \A i \in 1..k : p[i] = recs[i]
        BY <2>4, <4>1 DEF p
      <4>3. QED
        BY <2>1, <3>1, <4>2
    <3>5. QED
      BY <2>1, <3>1, <3>3, <3>4 DEF q
  <2>8. CASE k + 1 \notin S
    <3>1. q = p
      BY <2>6, <2>8
    <3>2. IsSelection(p, recs, S, k + 1, m)
      <4>1. S \cap (1..(k + 1)) = S \cap (1..k)
        BY <2>1, <2>8
      <4>2. QED
        BY <2>3, <4>1 DEF IsSelection
    <3>3. ~ (1..(k + 1) \subseteq S)
      BY <2>1, <2>8
    <3>4. QED
      BY <2>1, <2>2, <3>1, <3>2, <3>3
  <2>9. QED
    BY <2>7, <2>8
<1>11. Good(n)
  <2>1. 0 \in Int /\ n \in Int /\ 0 <= n
    BY <1>1
  <2> HIDE DEF U
  <2>2. 0..n \subseteq U
    BY ONLY <1>9, <1>10, <2>1, IntervalInduction
  <2>3. n \in U
    BY <1>1, <2>2
  <2>4. QED
    BY <2>3 DEF U
<1>12. S = DOMAIN recs => Selected(recs, S) = recs
  <2>1. SUFFICES ASSUME S = 1..n PROVE f[n] = recs
    BY <1>1, <1>7
  <2>2. Len(f[n]) = n /\ \A i \in 1..n : f[n][i] = recs[i]
    BY <1>11, <2>1
  <2>3. QED
    BY <1>11, <2>2, SeqEqual DEF n
<1>13. QED
  BY <1>7, <1>11, <1>12 DEF n

\* What the fields of strings and records are.
LEMMA StringFacts ==
  ASSUME NEW t \in Seq(String), NEW k \in DOMAIN t
  PROVE  /\ t[k] \in String /\ k \in Nat \ {0} /\ k <= Len(t)
         /\ Address(t, k) \in Nat \X Nat /\ Address(t, k) # NULL
         /\ t[k].cell \in Nat /\ t[k].cell # NULL /\ t[k].due \in Spelling
<1>1. t[k] \in String /\ k \in Nat \ {0} /\ k <= Len(t)
  OBVIOUS
<1>2. t[k].id \in Nat /\ t[k].part \in Nat /\ t[k].cell \in Nat /\ t[k].due \in Spelling
  BY <1>1 DEF String
<1>3. QED
  BY <1>1, <1>2, NullAssumption DEF Address

\* A spelling is told from the lack of one.
LEMMA SpellingIsNotNull == \A s \in Spelling : s # NULL
BY NullAssumption

\* A record bound anew keeps all but the names of its string.
LEMMA BoundToFacts ==
  ASSUME NEW t \in Seq(String), NEW k \in DOMAIN t, NEW r \in Record
  PROVE  LET b == BoundTo(t, r, k)
         IN  /\ b \in Record /\ b.index = k /\ b.slot = Address(t, k) /\ b.cell = t[k].cell
             /\ b.group = r.group /\ b.original = r.original
             /\ b.present = r.present /\ b.spelling = r.spelling
             /\ r.index = k /\ r.slot = Address(t, k) /\ r.cell = t[k].cell => b = r
<1>1. k \in Nat \ {0} /\ Address(t, k) \in (Nat \X Nat) \cup {NULL} /\ t[k].cell \in Nat \cup {NULL}
  BY StringFacts
<1>2. r = [index |-> r.index, group |-> r.group, slot |-> r.slot, cell |-> r.cell,
           original |-> r.original, present |-> r.present, spelling |-> r.spelling]
  BY DEF Record
<1>3. /\ r.group \in Nat /\ r.original \in Texts /\ r.present \in BOOLEAN
      /\ r.spelling \in Spelling \cup {NULL}
  BY DEF Record
<1> DEFINE b == BoundTo(t, r, k)
<1>4. b \in Record
  BY <1>1 DEF Record, BoundTo
<1>5. /\ b.index = k /\ b.slot = Address(t, k) /\ b.cell = t[k].cell
      /\ b.group = r.group /\ b.original = r.original
      /\ b.present = r.present /\ b.spelling = r.spelling
  BY DEF Record, BoundTo
<1> HIDE DEF b
<1>6. b = [index |-> b.index, group |-> b.group, slot |-> b.slot, cell |-> b.cell,
           original |-> b.original, present |-> b.present, spelling |-> b.spelling]
  BY <1>4 DEF Record
<1>7. r.index = k /\ r.slot = Address(t, k) /\ r.cell = t[k].cell => b = r
  BY ONLY <1>2, <1>5, <1>6
<1>8. QED
  BY <1>4, <1>5, <1>7 DEF b

\* Its field with its string in it is the one place a record is found at.
LEMMA FoundExactly ==
  ASSUME NEW t, TreeIsWhole(t), NEW r \in Record, NEW k \in DOMAIN t,
         r.slot = Address(t, k), r.cell = t[k].cell
  PROVE  FoundAt(t, r) = {k}
<1>1. r.slot # NULL
  BY StringFacts DEF TreeIsWhole
<1> DEFINE named == {m \in DOMAIN t : t[m].cell = r.cell}
           exact == {m \in named : Address(t, m) = r.slot}
<1>2. \A m \in DOMAIN t : Address(t, m) = Address(t, k) => m = k
  BY DEF Address, TreeIsWhole, AddressesDiffer
<1>3. exact = {k}
  BY <1>2
<1> HIDE DEF named, exact
<1>4. FoundAt(t, r) = IF exact # {} THEN exact ELSE named
  BY <1>1 DEF FoundAt, named, exact
<1>5. QED
  BY <1>3, <1>4

\* Records dropped at some positions: the others stay.
LEMMA WithoutFacts ==
  ASSUME NEW recs \in Seq(Record), RecordsAreDistinct(recs), NEW gone \in SUBSET DOMAIN recs
  PROVE  LET out == Without(recs, gone)
         IN  /\ out \in Seq(Record) /\ RecordsAreDistinct(out)
             /\ Range(out) = {recs[j] : j \in DOMAIN recs \ gone}
<1> DEFINE S == DOMAIN recs \ gone
           out == Selected(recs, S)
<1>1. S \in SUBSET DOMAIN recs /\ DOMAIN recs = 1..Len(recs) /\ Len(recs) \in Nat
  OBVIOUS
<1> HIDE DEF S
<1>2. out \in Seq(Record)
  BY <1>1, SelectedFacts
<1>3. PICK m : IsSelection(out, recs, S, Len(recs), m)
  BY <1>1, SelectedFacts
<1> HIDE DEF out
<1>4. DOMAIN out = 1..Len(out)
  BY <1>2
<1>5. /\ \A i \in DOMAIN out : m[i] \in S /\ out[i] = recs[m[i]]
      /\ \A i, j \in DOMAIN out : m[i] = m[j] => i = j
      /\ \A k \in S : \E i \in DOMAIN out : m[i] = k
  BY <1>1, <1>3, <1>4 DEF IsSelection
<1>6. RecordsAreDistinct(out)
  BY <1>1, <1>5 DEF RecordsAreDistinct
<1>7. Range(out) = {recs[j] : j \in S}
  BY <1>5 DEF Range
<1>8. QED
  BY <1>2, <1>6, <1>7 DEF Without, S, out

\* The records at the positions in P are found, each at a place of its own.
AreFound(t, recs, P, to) ==
  /\ P \in SUBSET DOMAIN recs /\ to \in [P -> DOMAIN t]
  /\ \A j \in P : FoundAt(t, recs[j]) = {to[j]}
  /\ \A j \in DOMAIN recs \ P : FoundAt(t, recs[j]) = {}
  /\ \A i, j \in P : to[i] = to[j] => i = j

\* sqlparser_handle_rebind_identifier_mutations: the records found each at a place
\* of its own are bound to it, the others dropped.
LEMMA RebindFacts ==
  ASSUME NEW t \in Seq(String), NEW recs \in Seq(Record),
         NEW P, NEW to, AreFound(t, recs, P, to)
  PROVE  /\ Rebind(t, recs) \in Seq(Record) /\ RecordsAreDistinct(Rebind(t, recs))
         /\ Range(Rebind(t, recs)) = {BoundTo(t, recs[j], to[j]) : j \in P}
         /\ P = DOMAIN recs =>
              Rebind(t, recs) = [j \in DOMAIN recs |-> BoundTo(t, recs[j], to[j])]
<1> DEFINE kept == Selected(recs, P)
           out == Rebind(t, recs)
<1> P \in SUBSET DOMAIN recs /\ to \in [P -> DOMAIN t]
  BY DEF AreFound
<1> /\ \A j \in P : FoundAt(t, recs[j]) = {to[j]}
    /\ \A j \in DOMAIN recs \ P : FoundAt(t, recs[j]) = {}
    /\ \A i, j \in P : to[i] = to[j] => i = j
  BY DEF AreFound
<1>1. DOMAIN recs = 1..Len(recs) /\ Len(recs) \in Nat
  OBVIOUS
<1>2. P = {j \in DOMAIN recs : FoundAt(t, recs[j]) # {}}
  BY ZenonT(40)
<1>3. kept \in Seq(Record) /\ (P = DOMAIN recs => kept = recs)
  BY SelectedFacts
<1>4. PICK m : IsSelection(kept, recs, P, Len(recs), m)
  BY SelectedFacts
<1>5. out = [i \in DOMAIN kept |-> BoundTo(t, kept[i], Smallest(FoundAt(t, kept[i])))]
  BY <1>2 DEF Rebind
<1> HIDE DEF kept, out
<1>6. DOMAIN kept = 1..Len(kept) /\ Len(kept) \in Nat
  BY <1>3
<1>7. /\ \A i \in DOMAIN kept : m[i] \in P /\ kept[i] = recs[m[i]]
      /\ \A i, j \in DOMAIN kept : m[i] = m[j] => i = j
      /\ \A k \in P : \E i \in DOMAIN kept : m[i] = k
  BY <1>1, <1>4, <1>6 DEF IsSelection
<1>8. \A j \in P : Smallest(FoundAt(t, recs[j])) = to[j]
  <2>1. SUFFICES ASSUME NEW j \in P PROVE Smallest({to[j]}) = to[j]
    OBVIOUS
  <2>2. to[j] \in DOMAIN t /\ DOMAIN t = 1..Len(t)
    OBVIOUS
  <2>3. to[j] <= to[j]
    BY <2>2
  <2>4. QED
    BY <2>3 DEF Smallest
<1>9. \A i \in DOMAIN kept : out[i] = BoundTo(t, recs[m[i]], to[m[i]])
  BY <1>5, <1>7, <1>8
<1>10. DOMAIN out = DOMAIN kept /\ out = [i \in DOMAIN kept |-> out[i]]
  BY <1>5
<1>11. \A j \in P : recs[j] \in Record /\ to[j] \in DOMAIN t
  BY <1>1
<1>12. \A i \in DOMAIN out : out[i] \in Record /\ out[i].index = to[m[i]]
  BY <1>7, <1>9, <1>10, <1>11, BoundToFacts
<1>13. out \in Seq(Record)
  <2>1. out \in [1..Len(kept) -> Record]
    BY <1>6, <1>10, <1>12
  <2>2. QED
    BY <1>6, <2>1, SMTT(40)
<1>14. RecordsAreDistinct(out)
  BY <1>7, <1>10, <1>12, SMTT(40) DEF RecordsAreDistinct
<1>15. Range(out) = {BoundTo(t, recs[j], to[j]) : j \in P}
  <2>1. \A i \in DOMAIN out : \E j \in P : out[i] = BoundTo(t, recs[j], to[j])
    BY ONLY <1>7, <1>9, <1>10
  <2>2. \A j \in P : \E i \in DOMAIN out : out[i] = BoundTo(t, recs[j], to[j])
    BY ONLY <1>7, <1>9, <1>10
  <2>3. QED
    BY ONLY <2>1, <2>2 DEF Range
<1>16. P = DOMAIN recs => out = [j \in DOMAIN recs |-> BoundTo(t, recs[j], to[j])]
  <2>1. SUFFICES ASSUME P = DOMAIN recs PROVE out = [j \in DOMAIN recs |-> BoundTo(t, recs[j], to[j])]
    OBVIOUS
  <2>2. kept = recs
    BY <1>3, <2>1
  <2>3. QED
    BY <1>5, <1>8, <2>1, <2>2
<1>17. QED
  BY <1>13, <1>14, <1>15, <1>16 DEF out

\* Records that are bound already stay as they are.
LEMMA RebindBound ==
  ASSUME NEW t, TreeIsWhole(t), NEW recs \in Seq(Record), RecordsAreDistinct(recs),
         BoundIn(Range(recs), t), \A r \in Range(recs) : r.index \in DOMAIN t
  PROVE  Rebind(t, recs) = recs
<1> DEFINE P == DOMAIN recs
           to == [j \in P |-> recs[j].index]
<1>1. \A j \in P : /\ recs[j] \in Record /\ recs[j].index \in DOMAIN t
                   /\ recs[j].slot = Address(t, recs[j].index)
                   /\ recs[j].cell = t[recs[j].index].cell
  BY DEF BoundIn, Range
<1>2. t \in Seq(String)
  BY DEF TreeIsWhole
<1>3. \A j \in P : FoundAt(t, recs[j]) = {recs[j].index}
  BY <1>1, FoundExactly
<1>4. \A j \in P : BoundTo(t, recs[j], recs[j].index) = recs[j]
  BY <1>1, <1>2, BoundToFacts
<1>5. AreFound(t, recs, P, to)
  BY <1>1, <1>3 DEF RecordsAreDistinct, AreFound
<1>6. Rebind(t, recs) = [j \in DOMAIN recs |-> BoundTo(t, recs[j], to[j])]
  <2>1. P = DOMAIN recs
    OBVIOUS
  <2> HIDE DEF to, P
  <2>2. P = DOMAIN recs => Rebind(t, recs) = [j \in DOMAIN recs |-> BoundTo(t, recs[j], to[j])]
    BY ONLY <1>2, <1>5, RebindFacts
  <2>3. QED
    BY <2>1, <2>2
<1>7. QED
  BY <1>4, <1>6

-----------------------------------------------------------------------------
(* Records that hold for a tree.                                           *)

\* A whole tree and the records that follow it, within a patch too.
Holds(t, recs) ==
  /\ TreeIsWhole(t)
  /\ recs \in Seq(Record) /\ RecordsAreDistinct(recs)
  /\ Follow(Range(recs), t) /\ BoundIn(Range(recs), t)

\* What that says of a record at a position.
LEMMA RecordAt ==
  ASSUME NEW t, NEW recs, Holds(t, recs), NEW j \in DOMAIN recs
  PROVE  /\ recs[j] \in Record /\ recs[j] \in Range(recs)
         /\ recs[j].index \in DOMAIN t /\ Describes(recs[j], t[recs[j].index])
         /\ recs[j].slot = Address(t, recs[j].index) /\ recs[j].cell = t[recs[j].index].cell
         /\ j \in Nat
<1>1. recs[j] \in Record /\ recs[j] \in Range(recs) /\ j \in Nat
  BY DEF Holds, Range
<1>2. QED
  BY <1>1 DEF Holds, Follow, BoundIn

\* The records that prepare looks for are those of the string, and there is one.
LEMMA RecordsOfString ==
  ASSUME NEW t, NEW recs, Holds(t, recs), NEW k \in DOMAIN t
  PROVE  /\ RecordsOf(t, recs, k) = {j \in DOMAIN recs : recs[j].index = k}
         /\ \A j \in DOMAIN recs : recs[j].index = k => RecordIndex(t, recs, k) = j
<1>1. \A m \in DOMAIN t : Address(t, m) = Address(t, k) => m = k
  BY DEF Holds, TreeIsWhole, AddressesDiffer, Address
<1>2. RecordsOf(t, recs, k) = {j \in DOMAIN recs : recs[j].index = k}
  BY <1>1, RecordAt DEF RecordsOf
<1>3. ASSUME NEW j \in DOMAIN recs, recs[j].index = k PROVE RecordIndex(t, recs, k) = j
  <2>1. RecordsOf(t, recs, k) = {j}
    BY <1>2, <1>3 DEF Holds, RecordsAreDistinct
  <2>2. j \in Nat
    BY RecordAt
  <2>3. Smallest({j}) = j
    BY <2>2 DEF Smallest
  <2>4. QED
    BY <2>1, <2>3 DEF RecordIndex
<1>4. QED
  BY <1>2, <1>3

\* A new record is of the string.
LEMMA NewRecordFacts ==
  ASSUME NEW t \in Seq(String), NEW k \in DOMAIN t, t[k].text = t[k].first
  PROVE  /\ NewRecord(t, k) \in Record /\ NewRecord(t, k).index = k
         /\ NewRecord(t, k).slot = Address(t, k) /\ NewRecord(t, k).cell = t[k].cell
         /\ NewRecord(t, k).group = 0 /\ NewRecord(t, k).spelling = NULL
         /\ Describes(NewRecord(t, k), t[k])
<1>1. /\ Address(t, k) \in (Nat \X Nat) \cup {NULL} /\ t[k].cell \in Nat \cup {NULL}
      /\ k \in Nat \ {0} /\ t[k].text \in Texts
  BY StringFacts DEF String
<1>2. QED
  BY <1>1 DEF NewRecord, Record, Describes

\* One more record, of a string that has none.
LEMMA AppendedRecord ==
  ASSUME NEW t, NEW recs, Holds(t, recs), NEW r \in Record, r.index \in DOMAIN t,
         \A s \in Range(recs) : s.index # r.index,
         Describes(r, t[r.index]), r.slot = Address(t, r.index), r.cell = t[r.index].cell,
         r.group = 0, r.spelling = NULL
  PROVE  /\ Holds(t, Append(recs, r)) /\ Range(Append(recs, r)) = Range(recs) \cup {r}
         /\ Len(Append(recs, r)) = Len(recs) + 1 /\ Len(recs) \in Nat
         /\ DOMAIN Append(recs, r) = 1..(Len(recs) + 1)
         /\ Append(recs, r)[Len(recs) + 1] = r
         /\ \A j \in DOMAIN recs : Append(recs, r)[j] = recs[j] /\ j \in 1..Len(recs)
<1> DEFINE out == Append(recs, r)
           n == Len(recs)
<1>1. recs \in Seq(Record) /\ n \in Nat /\ DOMAIN recs = 1..n
  BY DEF Holds
<1>2. /\ out \in Seq(Record) /\ Len(out) = n + 1 /\ DOMAIN out = 1..(n + 1) /\ out[n + 1] = r
      /\ \A j \in 1..n : out[j] = recs[j]
  BY <1>1
<1> HIDE DEF out, n
<1>3. Range(out) = Range(recs) \cup {r}
  <2>1. \A j \in 1..(n + 1) : j \in 1..n \/ j = n + 1
    BY <1>1
  <2>2. 1..n \subseteq 1..(n + 1) /\ n + 1 \in 1..(n + 1)
    BY <1>1
  <2>3. QED
    BY <1>1, <1>2, <2>1, <2>2 DEF Range
<1>4. RecordsAreDistinct(out)
  <2>1. \A j \in 1..(n + 1) : j \in 1..n \/ j = n + 1
    BY <1>1
  <2>2. \A j \in 1..n : out[j] \in Range(recs)
    BY <1>1, <1>2 DEF Range
  <2>3. \A i, j \in 1..n : out[i].index = out[j].index => i = j
    BY <1>1, <1>2 DEF Holds, RecordsAreDistinct
  <2>4. \A i \in 1..n : out[i].index # out[n + 1].index
    BY <1>2, <2>2
  <2>5. QED
    BY ONLY <1>2, <2>1, <2>3, <2>4 DEF RecordsAreDistinct
<1> DEFINE R == Range(recs)
           S == R \cup {r}
<1>5. Follow(R, t) /\ BoundIn(R, t) /\ (\A s \in R : s.index # r.index) /\ TreeIsWhole(t)
  BY DEF Holds
<1> HIDE DEF R
<1>6. \A k \in DOMAIN t : IsKnown(S, t, k)
  <2>1. SUFFICES ASSUME NEW k \in DOMAIN t PROVE IsKnown(S, t, k)
    OBVIOUS
  <2>2. IsKnown(R, t, k)
    BY <1>5 DEF Follow
  <2>3. QED
    BY <2>2 DEF IsKnown
<1>7. GroupsAgree(S, t)
  <2>1. GroupsAgree(R, t)
    BY <1>5 DEF Follow
  <2>2. QED
    BY <2>1 DEF GroupsAgree
<1>8. Follow(S, t)
  BY <1>5, <1>6, <1>7 DEF Follow
<1>9. BoundIn(S, t)
  BY <1>5 DEF BoundIn
<1>10. Holds(t, out)
  BY <1>2, <1>3, <1>4, <1>5, <1>8, <1>9 DEF Holds, R
<1>11. QED
  BY <1>1, <1>2, <1>3, <1>10 DEF out, n

\* sqlparser_handle_prepare_identifier_mutation: the string has a record then, an
\* older one if there was one; the others are as they were.
LEMMA PrepareFacts ==
  ASSUME NEW t, NEW recs, Holds(t, recs), NEW k \in DOMAIN t
  PROVE  LET p == Prepare(t, recs, k)
             at == RecordIndex(t, p, k)
         IN  /\ Holds(t, p)
             /\ at \in DOMAIN p /\ p[at].index = k
             /\ \A j \in DOMAIN recs : j \in DOMAIN p /\ p[j] = recs[j]
             /\ \A j \in DOMAIN p \ DOMAIN recs : p[j] = NewRecord(t, k)
             /\ Range(p) = Range(recs) \/ Range(p) = Range(recs) \cup {NewRecord(t, k)}
             /\ p[at].group # 0 \/ p[at].spelling # NULL => p[at] \in Range(recs)
<1> DEFINE p == Prepare(t, recs, k)
<1>1. CASE \E j \in DOMAIN recs : recs[j].index = k
  <2>1. p = recs
    BY <1>1, RecordsOfString DEF Prepare
  <2>2. PICK j \in DOMAIN recs : recs[j].index = k
    BY <1>1
  <2>3. RecordIndex(t, recs, k) = j /\ recs[j] \in Range(recs)
    BY <2>2, RecordsOfString, RecordAt
  <2>4. QED
    BY <2>1, <2>2, <2>3
<1>2. CASE \A j \in DOMAIN recs : recs[j].index # k
  <2> DEFINE r == NewRecord(t, k)
             n == Len(recs)
  <2>1. p = Append(recs, r)
    BY <1>2, RecordsOfString DEF Prepare
  <2>2. \A s \in Range(recs) : s.index # k
    BY <1>2 DEF Range
  <2>3. t[k].text = t[k].first /\ t \in Seq(String)
    BY <2>2 DEF Holds, Follow, IsKnown, TreeIsWhole
  <2>4. /\ r \in Record /\ r.index = k /\ r.slot = Address(t, k) /\ r.cell = t[k].cell
        /\ r.group = 0 /\ r.spelling = NULL /\ Describes(r, t[k])
    BY <2>3, NewRecordFacts
  <2> HIDE DEF r, p
  <2>5. /\ Holds(t, p) /\ Range(p) = Range(recs) \cup {r}
        /\ Len(p) = n + 1 /\ n \in Nat
        /\ DOMAIN p = 1..(n + 1) /\ p[n + 1] = r
        /\ \A j \in DOMAIN recs : p[j] = recs[j] /\ j \in 1..n
    BY <2>1, <2>2, <2>4, AppendedRecord
  <2>6. n + 1 \in DOMAIN p /\ DOMAIN recs \subseteq DOMAIN p /\ DOMAIN recs = 1..n
    BY <2>5 DEF Holds
  <2>7. RecordIndex(t, p, k) = n + 1
    BY <2>4, <2>5, <2>6, RecordsOfString
  <2>8. \A j \in DOMAIN p \ DOMAIN recs : p[j] = r
    <3>1. \A j \in 1..(n + 1) : j \in 1..n \/ j = n + 1
      BY <2>5
    <3>2. QED
      BY <2>5, <2>6, <3>1
  <2> HIDE DEF n
  <2>9. QED
    BY <2>4, <2>5, <2>6, <2>7, <2>8 DEF r, p
<1>3. QED
  BY <1>1, <1>2

\* Records of whole relations, or of other names, may be dropped when their strings
\* have their first texts and were given no spelling.
LEMMA DroppedHolds ==
  ASSUME NEW t, NEW recs, Holds(t, recs), NEW gone \in SUBSET DOMAIN recs,
         \A j \in gone : t[recs[j].index].text = t[recs[j].index].first /\ recs[j].spelling = NULL,
         \A i, j \in DOMAIN recs :
           i \in gone /\ recs[i].group # 0 /\ recs[j].group = recs[i].group => j \in gone
  PROVE  Holds(t, Without(recs, gone))
<1> DEFINE out == Without(recs, gone)
           R == Range(recs)
           S == Range(out)
<1>1. recs \in Seq(Record) /\ RecordsAreDistinct(recs) /\ TreeIsWhole(t)
  BY DEF Holds
<1>2. out \in Seq(Record) /\ RecordsAreDistinct(out) /\ S = {recs[j] : j \in DOMAIN recs \ gone}
  BY <1>1, WithoutFacts
<1>3. Follow(R, t) /\ BoundIn(R, t)
  BY DEF Holds
<1>4. \A r \in R : \E j \in DOMAIN recs : r = recs[j]
  BY DEF Range
<1>5. \A r \in R : r \in S \/ \E j \in gone : r = recs[j]
  BY <1>2, <1>4
<1>6. \A r \in S : r \in R /\ \E j \in DOMAIN recs \ gone : r = recs[j]
  BY <1>2 DEF Range
<1> HIDE DEF out, R, S
<1>7. ASSUME NEW k \in DOMAIN t PROVE IsKnown(S, t, k)
  <2>1. IsKnown(R, t, k)
    BY <1>3 DEF Follow
  <2>2. (\A r \in S : r.index # k) => t[k].text = t[k].first
    <3>1. CASE \A r \in R : r.index # k
      BY <2>1, <3>1 DEF IsKnown
    <3>2. CASE \E r \in R : r.index = k
      BY <1>5, <3>2
    <3>3. QED
      BY <3>1, <3>2
  <2>3. (\A r \in S : r.index = k => r.spelling = NULL) =>
        (\A r \in R : r.index = k => r.spelling = NULL)
    BY <1>5
  <2>4. (\E r \in R : r.index = k + 1 /\ r.spelling # NULL) =>
        (\E r \in S : r.index = k + 1 /\ r.spelling # NULL)
    BY <1>5
  <2>5. QED
    BY <2>1, <2>2, <2>3, <2>4 DEF IsKnown
<1>8. GroupsAgree(S, t)
  <2>1. GroupsAgree(R, t)
    BY <1>3 DEF Follow
  <2>2. ASSUME NEW r \in S, r.group # 0, NEW m \in DOMAIN t, t[m].id = t[r.index].id
        PROVE  \E s \in S : s.index = m /\ s.group = r.group
    <3>1. PICK s \in R : s.index = m /\ s.group = r.group
      BY <1>6, <2>1, <2>2 DEF GroupsAgree
    <3>2. s \in S
      BY <1>5, <1>6, <2>2, <3>1
    <3>3. QED
      BY <3>1, <3>2
  <2>3. QED
    BY <1>6, <2>1, <2>2 DEF GroupsAgree
<1>9. Follow(S, t)
  BY <1>3, <1>6, <1>7, <1>8 DEF Follow
<1>10. BoundIn(S, t)
  BY <1>3, <1>6 DEF BoundIn
<1>11. QED
  BY <1>1, <1>2, <1>9, <1>10 DEF Holds, out, S

\* The string w may stand for s: the same field, in the source as s is.
StandsFor(w, s) ==
  /\ w \in String /\ w.id = s.id /\ w.part = s.part /\ w.kind = s.kind /\ w.first = s.first
  /\ s.kind = "relation" => w.location = s.location
  /\ w.location = "source" <=> s.location = "source"

\* A string replaced in its field.
LEMMA ReplacedTree ==
  ASSUME NEW t, TreeIsWhole(t), NEW k \in DOMAIN t, NEW w, StandsFor(w, t[k]),
         w.cell = t[k].cell \/ w.cell \notin Cells(t)
  PROVE  TreeIsWhole([t EXCEPT ![k] = w])
<1> DEFINE u == [t EXCEPT ![k] = w]
<1>1. t \in Seq(String) /\ NodesAreWhole(t) /\ AddressesDiffer(t)
  BY DEF TreeIsWhole
<1>2. w \in String /\ w.id = t[k].id /\ w.part = t[k].part /\ w.kind = t[k].kind
      /\ (t[k].kind = "relation" => w.location = t[k].location)
  BY DEF StandsFor
<1>3. u \in Seq(String) /\ DOMAIN u = DOMAIN t /\ Len(u) = Len(t)
  BY <1>1, <1>2
<1>4. u[k] = w /\ \A m \in DOMAIN t : m # k => u[m] = t[m]
  OBVIOUS
<1>5. DOMAIN t = 1..Len(t) /\ Len(t) \in Nat
  BY <1>1
<1> HIDE DEF u
<1>6. \A m \in DOMAIN t : /\ u[m].id = t[m].id /\ u[m].part = t[m].part /\ u[m].kind = t[m].kind
                          /\ t[m].kind = "relation" => u[m].location = t[m].location
  BY <1>2, <1>4
<1>7. NodesAreWhole(u)
  <2>1. SUFFICES ASSUME NEW m \in DOMAIN t
                 PROVE  /\ u[m].part = 2 => /\ m > 1 /\ u[m].kind = "relation"
                                            /\ u[m - 1].kind = "relation"
                                            /\ u[m - 1].part = 1 /\ u[m - 1].id = u[m].id
                                            /\ u[m - 1].location = u[m].location
                        /\ u[m].kind = "relation" /\ u[m].part = 1 =>
                             m < Len(u) /\ u[m + 1].part = 2 /\ u[m + 1].id = u[m].id
    BY <1>3 DEF NodesAreWhole
  <2>2. m \in 1..Len(t) /\ (m > 1 => m - 1 \in DOMAIN t) /\ (m < Len(t) => m + 1 \in DOMAIN t)
    BY <1>5
  <2>3. u[m].part = 2 => /\ m > 1 /\ u[m].kind = "relation"
                         /\ u[m - 1].kind = "relation"
                         /\ u[m - 1].part = 1 /\ u[m - 1].id = u[m].id
                         /\ u[m - 1].location = u[m].location
    BY <1>1, <1>6, <2>2 DEF NodesAreWhole
  <2>4. u[m].kind = "relation" /\ u[m].part = 1 =>
          m < Len(u) /\ u[m + 1].part = 2 /\ u[m + 1].id = u[m].id
    BY <1>1, <1>3, <1>6, <2>2 DEF NodesAreWhole
  <2>5. QED
    BY <2>3, <2>4
<1>8. AddressesDiffer(u)
  <2>1. \A m \in DOMAIN t : m # k /\ u[m].cell = w.cell /\ w.cell # EmptyCell => FALSE
    BY <1>1, <1>4 DEF AddressesDiffer, Cells
  <2>2. \A m, i \in DOMAIN t : u[m].cell = u[i].cell /\ u[m].cell # EmptyCell => m = i
    BY <1>1, <1>4, <2>1 DEF AddressesDiffer
  <2>3. QED
    BY <1>1, <1>3, <1>6, <2>2 DEF AddressesDiffer
<1>9. QED
  BY <1>3, <1>7, <1>8 DEF TreeIsWhole, u

\* The record q may stand for r once its string became w.
RecordStandsFor(q, r, w) ==
  /\ q \in Record /\ q.index = r.index /\ q.slot = r.slot /\ q.cell = w.cell
  /\ q.original = r.original /\ q.present = r.present /\ q.group = r.group
  /\ q.spelling # NULL => q.spelling = w.due /\ q.spelling.of = w.text
  /\ w.text # NoText /\ q.spelling = NULL =>
       w.due = Plain(w) /\ (w.location = "fragment" => w.text = w.first)

\* One string and its record are changed.  The name of a relation that a fragment
\* brought keeps a spelling, and its schema has a text only if the name has one.
LEMMA ChangedHolds ==
  ASSUME NEW t, NEW recs, Holds(t, recs), NEW at \in DOMAIN recs, NEW w, NEW q,
         StandsFor(w, t[recs[at].index]), RecordStandsFor(q, recs[at], w),
         w.cell = t[recs[at].index].cell \/ w.cell \notin Cells(t),
         w.kind = "relation" /\ w.location = "fragment" /\ w.part = 2 => q.spelling # NULL,
         w.kind = "relation" /\ w.location = "fragment" /\ w.part = 1 /\ w.text # NoText =>
           \E r \in Range(recs) : r.index = recs[at].index + 1 /\ r.spelling # NULL
  PROVE  Holds([t EXCEPT ![recs[at].index] = w], [recs EXCEPT ![at] = q])
<1> DEFINE k == recs[at].index
           u == [t EXCEPT ![k] = w]
           out == [recs EXCEPT ![at] = q]
           R == Range(recs)
           S == Range(out)
<1>1. /\ TreeIsWhole(t) /\ t \in Seq(String) /\ recs \in Seq(Record) /\ RecordsAreDistinct(recs)
      /\ Follow(R, t) /\ BoundIn(R, t)
  BY DEF Holds, TreeIsWhole
<1>2. k \in DOMAIN t /\ recs[at] \in Record /\ Describes(recs[at], t[k])
  BY RecordAt
<1>3. TreeIsWhole(u)
  BY <1>1, <1>2, ReplacedTree
<1>4. /\ q \in Record /\ q.index = k /\ q.slot = recs[at].slot /\ q.cell = w.cell
      /\ q.original = recs[at].original /\ q.present = recs[at].present /\ q.group = recs[at].group
      /\ (q.spelling # NULL => q.spelling = w.due /\ q.spelling.of = w.text)
      /\ (w.text # NoText /\ q.spelling = NULL =>
           w.due = Plain(w) /\ (w.location = "fragment" => w.text = w.first))
  BY DEF RecordStandsFor
<1>5. /\ w.id = t[k].id /\ w.part = t[k].part /\ w.kind = t[k].kind /\ w.first = t[k].first
      /\ (w.kind = "relation" => w.location = t[k].location)
      /\ (w.location = "source" <=> t[k].location = "source")
  BY DEF StandsFor
<1>6. DOMAIN u = DOMAIN t /\ u[k] = w /\ \A m \in DOMAIN t : m # k => u[m] = t[m]
  BY <1>2
<1>7. /\ out \in Seq(Record) /\ DOMAIN out = DOMAIN recs /\ out[at] = q
      /\ \A j \in DOMAIN recs : j # at => out[j] = recs[j]
  BY <1>1, <1>4
<1>8. \A j \in DOMAIN recs : j # at => recs[j].index # k
  BY <1>1 DEF RecordsAreDistinct
<1>9. /\ \A r \in R : \E j \in DOMAIN recs : r = recs[j]
      /\ \A j \in DOMAIN recs : recs[j] \in R /\ out[j] \in S
      /\ \A r \in S : \E j \in DOMAIN recs : r = out[j]
  BY <1>7 DEF Range
<1>10. w.kind = "relation" /\ w.location = "fragment" /\ w.part = 2 => q.spelling # NULL
  OBVIOUS
<1>11. w.kind = "relation" /\ w.location = "fragment" /\ w.part = 1 /\ w.text # NoText =>
           \E r \in R : r.index = k + 1 /\ r.spelling # NULL
  OBVIOUS
<1> HIDE DEF k, u, out, R, S
<1>12. /\ q \in S /\ recs[at] \in R
       /\ \A r \in S : r # q => r \in R /\ r.index # k
       /\ \A r \in R : r # recs[at] => r \in S /\ r.index # k
  BY <1>7, <1>8, <1>9
<1>13. ASSUME NEW r \in S PROVE r.index \in DOMAIN u /\ Describes(r, u[r.index])
  <2>1. CASE r = q
    <3>1. Describes(q, w)
      BY <1>2, <1>4, <1>5 DEF Describes
    <3>2. QED
      BY <1>2, <1>4, <1>6, <2>1, <3>1
  <2>2. CASE r # q
    <3>1. r \in R /\ r.index # k
      BY <1>12, <2>2
    <3>2. r.index \in DOMAIN t /\ Describes(r, t[r.index])
      BY <1>1, <3>1 DEF Follow
    <3>3. QED
      BY <1>6, <3>1, <3>2
  <2>3. QED
    BY <2>1, <2>2
<1>14. RecordsAreDistinct(out)
  BY <1>1, <1>4, <1>7, <1>8 DEF RecordsAreDistinct, k
<1>15. \A r, s \in S : r.index = s.index => r = s
  BY <1>7, <1>9, <1>14, SMTT(40) DEF RecordsAreDistinct
<1>16. ASSUME NEW m \in DOMAIN u PROVE IsKnown(S, u, m)
  <2>1. m \in DOMAIN t /\ IsKnown(R, t, m)
    BY <1>1, <1>6 DEF Follow
  <2>2. CASE m = k
    <3>1. u[m] = w /\ q.index = m /\ q \in S
      BY <1>4, <1>6, <1>12, <2>2
    <3>2. (\A r \in S : r.index # m) => u[m].text = u[m].first
      BY <3>1
    <3>3. u[m].text # NoText /\ (\A r \in S : r.index = m => r.spelling = NULL) =>
             /\ u[m].due = Plain(u[m])
             /\ u[m].location = "fragment" => u[m].text = u[m].first
      BY <1>4, <3>1
    <3>4. u[m].location = "fragment" /\ u[m].kind = "relation" /\ u[m].part = 1 =>
             /\ u[m].first = NoText
             /\ u[m].text # NoText => \E r \in S : r.index = m + 1 /\ r.spelling # NULL
      <4>1. SUFFICES ASSUME w.location = "fragment", w.kind = "relation", w.part = 1
                     PROVE  /\ w.first = NoText
                            /\ w.text # NoText => \E r \in S : r.index = k + 1 /\ r.spelling # NULL
        BY <2>2, <3>1
      <4>2. w.first = NoText
        BY <1>5, <2>1, <2>2, <4>1 DEF IsKnown
      <4>3. w.text # NoText => \E r \in R : r.index = k + 1 /\ r.spelling # NULL
        BY <1>11, <4>1
      <4>4. k + 1 # k
        BY <1>1, <1>2
      <4>5. recs[at].index = k
        BY DEF k
      <4>6. QED
        BY <1>12, <4>2, <4>3, <4>4, <4>5
    <3>5. QED
      BY <3>2, <3>3, <3>4 DEF IsKnown
  <2>3. CASE m # k
    <3>1. u[m] = t[m]
      BY <1>6, <2>1, <2>3
    <3>2. recs[at].index = k
      BY DEF k
    <3>3. (\A r \in S : r.index # m) => (\A r \in R : r.index # m)
      BY <1>12, <2>3, <3>2
    <3>4. (\A r \in S : r.index = m => r.spelling = NULL) =>
          (\A r \in R : r.index = m => r.spelling = NULL)
      BY <1>12, <2>3, <3>2
    <3>5. u[m].location = "fragment" /\ u[m].kind = "relation" /\ u[m].part = 1
          /\ (\E r \in R : r.index = m + 1 /\ r.spelling # NULL)
            => \E r \in S : r.index = m + 1 /\ r.spelling # NULL
      <4>1. SUFFICES ASSUME t[m].location = "fragment", t[m].kind = "relation", t[m].part = 1,
                            NEW r \in R, r.index = m + 1, r.spelling # NULL
                     PROVE  \E s \in S : s.index = m + 1 /\ s.spelling # NULL
        BY <3>1
      <4>2. CASE r # recs[at]
        BY <1>12, <4>1, <4>2
      <4>3. CASE r = recs[at]
        <5>1. k = m + 1 /\ m \in Nat
          BY <1>1, <2>1, <3>2, <4>1, <4>3
        <5>2. NodesAreWhole(t)
          BY <1>1 DEF TreeIsWhole
        <5>3. t[k].part = 2 /\ k - 1 = m
          BY <2>1, <4>1, <5>1, <5>2 DEF NodesAreWhole
        <5>4. t[k].kind = "relation" /\ t[k].location = "fragment"
          BY <1>2, <4>1, <5>2, <5>3 DEF NodesAreWhole
        <5>5. q.spelling # NULL
          BY <1>5, <1>10, <5>3, <5>4
        <5>6. QED
          BY <1>4, <1>12, <5>1, <5>5
      <4>4. QED
        BY <4>2, <4>3
    <3>6. QED
      BY <2>1, <3>1, <3>3, <3>4, <3>5 DEF IsKnown
  <2>4. QED
    BY <2>2, <2>3
<1>17. GroupsAgree(S, u)
  <2>1. GroupsAgree(R, t)
    BY <1>1 DEF Follow
  <2>2. \A m \in DOMAIN t : u[m].id = t[m].id
    BY <1>5, <1>6
  <2>3. recs[at].index = k
    BY DEF k
  <2>4. \A s \in R : \E r \in S : r.index = s.index /\ r.group = s.group
    BY <1>4, <1>12, <2>3
  <2>5. \A s \in S : \E r \in R : r.index = s.index /\ r.group = s.group
    BY <1>4, <1>12, <2>3
  <2>6. \A r \in R : r.index \in DOMAIN t
    BY <1>1 DEF Follow
  <2>7. ASSUME NEW r \in S, r.group # 0, NEW m \in DOMAIN u, u[m].id = u[r.index].id
        PROVE  \E s \in S : s.index = m /\ s.group = r.group
    <3>1. PICK p \in R : p.index = r.index /\ p.group = r.group
      BY <2>5
    <3>2. m \in DOMAIN t /\ t[m].id = t[p.index].id
      BY <1>6, <2>2, <2>6, <2>7, <3>1
    <3>3. PICK s \in R : s.index = m /\ s.group = p.group
      BY <2>1, <2>7, <3>1, <3>2 DEF GroupsAgree
    <3>4. QED
      BY <2>4, <3>1, <3>3
  <2>8. ASSUME NEW r \in S, NEW s \in S, r.group # 0, r.group = s.group
        PROVE  u[r.index].id = u[s.index].id
    <3>1. PICK p \in R : p.index = r.index /\ p.group = r.group
      BY <2>5
    <3>2. PICK o \in R : o.index = s.index /\ o.group = s.group
      BY <2>5
    <3>3. t[p.index].id = t[o.index].id
      BY <2>1, <2>8, <3>1, <3>2 DEF GroupsAgree
    <3>4. QED
      BY <2>2, <2>6, <3>1, <3>2, <3>3
  <2>9. QED
    BY <2>7, <2>8 DEF GroupsAgree
<1>18. BoundIn(S, u)
  <2>1. SUFFICES ASSUME NEW r \in S
                 PROVE  r.slot = Address(u, r.index) /\ r.cell = u[r.index].cell
    BY DEF BoundIn
  <2>2. \A m \in DOMAIN t : Address(u, m) = Address(t, m)
    BY <1>5, <1>6 DEF Address
  <2>3. \A s \in R : s.index \in DOMAIN t /\ s.slot = Address(t, s.index) /\ s.cell = t[s.index].cell
    BY <1>1 DEF Follow, BoundIn
  <2>4. CASE r = q
    <3>1. q.slot = Address(t, k)
      BY <1>4, <1>12, <2>3 DEF k
    <3>2. QED
      BY <1>2, <1>4, <1>6, <2>2, <2>4, <3>1
  <2>5. CASE r # q
    BY <1>6, <1>12, <2>2, <2>3, <2>5
  <2>6. QED
    BY <2>4, <2>5
<1>19. Follow(S, u)
  BY <1>13, <1>15, <1>16, <1>17 DEF Follow
<1>20. QED
  BY <1>3, <1>7, <1>14, <1>18, <1>19 DEF Holds, S, u, out, k

-----------------------------------------------------------------------------
(* A scalar name (sqlparser_statement_set_name_spelling).                  *)

\* With the AST at hand the records hold for the tree.
LEMMA InvariantHolds ==
  ASSUME MutationsInvariant, loaded
  PROVE  Holds(tree, records)
BY DEF MutationsInvariant, Holds

\* A string after its patch, the spelling of its record, and the record.
Renamed(s, r, text, cell, given) == Changed(Retagged(s, r, text, given), text, cell, given)
GivenSpelling(text, given) == IF given THEN Spell("given", text) ELSE NULL
Respelled(r, slot, cell, spelling) == [r EXCEPT !.slot = slot, !.cell = cell, !.spelling = spelling]

\* The string after its patch: its record, spelled when a spelling was given, may
\* stand for the one it had.
LEMMA ChangedFacts ==
  ASSUME NEW s \in String, NEW r \in Record, Describes(r, s), NEW text \in Texts,
         NEW cell \in Nat, NEW given \in BOOLEAN, s.text # text \/ given,
         NEW slot \in Nat \X Nat, slot = r.slot,
         ~given /\ s.kind = "relation" /\ text # NoText => s.location # "fragment"
  PROVE  LET w == Renamed(s, r, text, cell, given)
             spelling == GivenSpelling(text, given)
             q == Respelled(r, slot, cell, spelling)
         IN  /\ StandsFor(w, s) /\ RecordStandsFor(q, r, w)
             /\ w.cell = cell /\ w.text = text /\ (s.kind = "relation" => w.location = s.location)
             /\ q.spelling = spelling
<1> DEFINE v == Retagged(s, r, text, given)
           w == Changed(v, text, cell, given)
           spelling == IF given THEN Spell("given", text) ELSE NULL
           q == [r EXCEPT !.slot = slot, !.cell = cell, !.spelling = spelling]
<1>1. /\ s.id \in Nat /\ s.part \in {1, 2} /\ s.kind \in Kinds /\ s.location \in Locations
      /\ s.cell \in Nat /\ s.text \in Texts /\ s.first \in Texts /\ s.due \in Spelling
  BY DEF String
<1>2. /\ v.id = s.id /\ v.part = s.part /\ v.kind = s.kind /\ v.first = s.first
      /\ v.location \in Locations /\ v \in String
      /\ (s.kind = "relation" => v.location = s.location)
      /\ (v.location = "source" <=> s.location = "source")
      /\ (~given /\ s.kind # "relation" => v.location # "fragment")
  <2>1. CASE /\ s.text # text /\ ~given /\ ~r.present
             /\ s.kind # "relation" /\ s.location = "fragment"
    <3>1. v = [s EXCEPT !.location = "style"]
      BY <2>1 DEF Retagged
    <3>2. "style" \in Locations
      BY DEF Locations
    <3>3. v \in String /\ v.location = "style"
      BY <3>1, <3>2 DEF String
    <3>4. v.id = s.id /\ v.part = s.part /\ v.kind = s.kind /\ v.first = s.first
      BY <3>1 DEF String
    <3>5. QED
      BY <2>1, <3>2, <3>3, <3>4
  <2>2. CASE ~(/\ s.text # text /\ ~given /\ ~r.present
               /\ s.kind # "relation" /\ s.location = "fragment")
    <3>1. v = s
      BY <2>2 DEF Retagged
    <3>2. ~given /\ s.location = "fragment" => ~r.present
      BY DEF Describes
    <3>3. ~given => s.text # text
      OBVIOUS
    <3>4. ~given /\ s.kind # "relation" => s.location # "fragment"
      BY <2>2, <3>2, <3>3
    <3>5. QED
      BY <1>1, <3>1, <3>4
  <2>3. QED
    BY <2>1, <2>2
<1> HIDE DEF v
<1>3. \A form \in Forms : Spell(form, text) \in Spelling
  BY DEF Spell, Spelling
<1>4. "given" \in Forms /\ "default" \in Forms /\ Locations \ {"style"} \subseteq Forms
  BY DEF Forms, Locations
<1>5. OwnSpelling(v.location, text) \in Spelling
  BY <1>2, <1>3, <1>4 DEF OwnSpelling
<1> DEFINE due == IF given THEN Spell("given", text)
                  ELSE IF text = v.first THEN OwnSpelling(v.location, text)
                  ELSE Spell("default", text)
<1>6. due \in Spelling
  BY <1>3, <1>4, <1>5
<1>7. w = [v EXCEPT !.text = text, !.cell = cell, !.due = due]
  BY DEF Changed
<1> HIDE DEF due, w
<1>8. /\ w \in String /\ w.text = text /\ w.cell = cell /\ w.due = due
      /\ w.id = v.id /\ w.part = v.part /\ w.kind = v.kind /\ w.first = v.first
      /\ w.location = v.location
  BY <1>2, <1>6, <1>7 DEF String
<1>9. StandsFor(w, s)
  BY <1>2, <1>8 DEF StandsFor
<1>10. spelling \in Spelling \cup {NULL}
  BY <1>3, <1>4
<1> HIDE DEF spelling
<1>11. /\ q \in Record /\ q.slot = slot /\ q.cell = cell /\ q.spelling = spelling
       /\ q.index = r.index /\ q.original = r.original /\ q.present = r.present
       /\ q.group = r.group
  BY <1>10 DEF Record
<1>12. given => q.spelling = w.due /\ q.spelling.of = w.text
  BY <1>8, <1>11 DEF spelling, due, Spell
<1>13. ~given => q.spelling = NULL /\ w.due = Plain(w) /\ (text # NoText => w.location # "fragment")
  BY <1>2, <1>8, <1>11 DEF spelling, due, Plain
<1>14. q.spelling = NULL => ~given
  BY <1>3, <1>4, <1>11, SpellingIsNotNull DEF spelling
<1> HIDE DEF q
<1>15. RecordStandsFor(q, r, w)
  BY <1>8, <1>11, <1>12, <1>13, <1>14 DEF RecordStandsFor
<1>16. QED
  BY <1>2, <1>8, <1>9, <1>11, <1>15 DEF w, v, q, spelling, Renamed, GivenSpelling, Respelled

\* sqlparser_statement_set_name_spelling: the string gets its text and its record,
\* then records go if the name, or all names of the relation, are as they came.
LEMMA SetNameKeeps ==
  ASSUME MutationsInvariant, Admitted = {}, NEW k \in DOMAIN tree, NEW given \in BOOLEAN,
         NEW text \in Names \cup Schemas, SetName(k, text, given)
  PROVE  MutationsInvariant'
<1> DEFINE s == tree[k]
           prepared == Prepare(tree, records, k)
           at == RecordIndex(tree, prepared, k)
           r == prepared[at]
           spelling == IF given THEN Spell("given", text) ELSE NULL
           cell == IF s.text # text THEN LowestFree(Cells(tree)) ELSE s.cell
           w == Changed(Retagged(s, r, text, given), text, cell, given)
           written == [tree EXCEPT ![k] = w]
           q == [r EXCEPT !.slot = Address(tree, k), !.cell = cell, !.spelling = spelling]
           fresh == Refreshed(written, prepared, at, k, spelling)
           bound == CommitScalar(written, fresh)
           group == {j \in DOMAIN bound : r.group # 0 /\ bound[j].group = r.group}
           restored == GroupRestored(written, bound, r.group)
<1>1. Patching /\ loaded /\ steps < MaxSteps
  BY DEF SetName, Patching
<1>2. Holds(tree, records) /\ tree \in Seq(String) /\ TreeIsWhole(tree)
  BY <1>1, InvariantHolds DEF Holds, TreeIsWhole
<1>3. /\ Holds(tree, prepared) /\ at \in DOMAIN prepared /\ r.index = k
      /\ \E R : R = Range(prepared) /\ (R = Range(records) \/ R = Range(records) \cup {NewRecord(tree, k)})
  BY <1>2, PrepareFacts
<1>4. /\ r \in Record /\ r \in Range(prepared) /\ Describes(r, s) /\ r.slot = Address(tree, k)
      /\ r.cell = s.cell
  BY <1>3, RecordAt
<1>5. s \in String /\ Address(tree, k) \in Nat \X Nat /\ s.cell \in Nat
  BY <1>2, StringFacts
<1>6. text \in Texts \ {NoText}
  BY NamesAssumption DEF Texts
<1>7. /\ s.text # NoText
      /\ s.text # text \/ given
      /\ ~given /\ s.kind = "relation" => s.location # "fragment"
      /\ restored /\ (\E j \in group : bound[j].spelling # NULL) => FALSE
      /\ tree' = written
      /\ records' = IF ~given /\ r.group = 0 /\ r.original = text THEN Without(bound, {at})
                    ELSE IF restored THEN Without(bound, group) ELSE bound
      /\ steps' = steps + 1
      /\ UNCHANGED <<loaded, backing, status>>
  BY DEF SetName
<1>8. cell \in Nat /\ (cell = s.cell \/ cell \notin Cells(tree))
  BY <1>2, <1>5, FiniteAddresses, LowestFreeFacts
<1> HIDE DEF prepared, at, r, cell, restored
<1>9. /\ StandsFor(w, s) /\ RecordStandsFor(q, r, w)
      /\ w.cell = cell /\ w.text = text /\ (s.kind = "relation" => w.location = s.location)
      /\ q.spelling = spelling
  <2> DEFINE slot == Address(tree, k)
             x == s
  <2>1. /\ x \in String /\ r \in Record /\ Describes(r, x) /\ text \in Texts
        /\ cell \in Nat /\ given \in BOOLEAN /\ (x.text # text \/ given)
        /\ slot \in Nat \X Nat /\ slot = r.slot
        /\ (~given /\ x.kind = "relation" /\ text # NoText => x.location # "fragment")
    BY <1>4, <1>5, <1>6, <1>7, <1>8
  <2> DEFINE v == Renamed(x, r, text, cell, given)
             o == Respelled(r, slot, cell, GivenSpelling(text, given))
  <2> HIDE DEF slot, x
  <2>2. /\ StandsFor(v, x) /\ RecordStandsFor(o, r, v)
        /\ v.cell = cell /\ v.text = text /\ (x.kind = "relation" => v.location = x.location)
        /\ o.spelling = GivenSpelling(text, given)
    BY ONLY <2>1, ChangedFacts
  <2>3. v = w /\ o = q /\ spelling = GivenSpelling(text, given)
    BY DEF x, slot, Renamed, Respelled, GivenSpelling
  <2> HIDE DEF v, o, w, q, spelling
  <2>4. QED
    BY <2>2, <2>3 DEF x
<1>10. /\ w.part = s.part /\ w.kind = s.kind
       /\ (w.kind = "relation" => w.location = s.location)
  BY <1>9 DEF StandsFor
<1>11. given => spelling # NULL
  <2>1. given => spelling \in Spelling
    BY <1>6 DEF Spell, Spelling, Forms
  <2>2. QED
    BY <2>1, SpellingIsNotNull
<1>12. w.kind = "relation" /\ w.location = "fragment" /\ w.part = 2 => q.spelling # NULL
  BY <1>7, <1>9, <1>10, <1>11
<1>13. w.kind = "relation" /\ w.location = "fragment" /\ w.part = 1 /\ w.text # NoText =>
         \E o \in Range(prepared) : o.index = r.index + 1 /\ o.spelling # NULL
  <2>1. IsKnown(Range(prepared), tree, k)
    BY <1>3 DEF Holds, Follow
  <2>2. QED
    BY <1>3, <1>7, <1>10, <2>1 DEF IsKnown
<1>14. fresh = [prepared EXCEPT ![at] = q]
  <2>1. Address(written, k) = Address(tree, k) /\ written[k].cell = cell
    <3>1. written[k] = w /\ w.id = s.id /\ w.part = s.part
      BY <1>9 DEF StandsFor
    <3>2. QED
      BY <1>9, <3>1 DEF Address
  <2>2. fresh = [prepared EXCEPT ![at].slot = Address(tree, k), ![at].cell = cell,
                                 ![at].spelling = spelling]
    BY <2>1 DEF Refreshed
  <2>3. QED
    BY <1>3, <2>2 DEF r
<1> HIDE DEF w, q, spelling, fresh
<1>15. Holds(written, fresh)
  <2>1. r = prepared[at]
    BY DEF r
  <2> HIDE DEF s
  <2>2. Holds([tree EXCEPT ![prepared[at].index] = w], [prepared EXCEPT ![at] = q])
    BY <1>3, <1>8, <1>9, <1>12, <1>13, <2>1, ChangedHolds DEF s
  <2>3. QED
    BY <1>3, <1>14, <2>1, <2>2
<1>16. /\ DOMAIN fresh = DOMAIN prepared /\ fresh[at] = q
  BY <1>3, <1>14
<1> DEFINE bare == fresh
<1> HIDE DEF written
<1>17. bound = fresh
  <2>1. /\ TreeIsWhole(written) /\ fresh \in Seq(Record) /\ RecordsAreDistinct(fresh)
        /\ BoundIn(Range(fresh), written)
        /\ \A o \in Range(fresh) : o.index \in DOMAIN written
    BY <1>15 DEF Holds, Follow
  <2>2. Rebind(written, fresh) = fresh
    BY <2>1, RebindBound
  <2>3. QED
    BY <2>2 DEF CommitScalar
<1> HIDE DEF bound
<1>18. /\ q.group = r.group /\ q.original = r.original /\ q.index = k /\ w.first = s.first
  BY <1>3, <1>9 DEF RecordStandsFor, StandsFor
<1>19. Holds(written, records')
  <2>1. CASE ~given /\ r.group = 0 /\ r.original = text
    <3>1. /\ written[q.index].text = written[q.index].first
          /\ q.spelling = NULL /\ q.group = 0
      BY <1>4, <1>9, <1>18, <2>1 DEF written, spelling, Describes
    <3>2. /\ \A j \in {at} : /\ written[fresh[j].index].text = written[fresh[j].index].first
                             /\ fresh[j].spelling = NULL
          /\ \A i, j \in DOMAIN fresh :
               i \in {at} /\ fresh[i].group # 0 /\ fresh[j].group = fresh[i].group => j \in {at}
      BY <1>16, <3>1
    <3>3. {at} \in SUBSET DOMAIN fresh
      BY <1>3, <1>16
    <3>4. Holds(written, Without(fresh, {at}))
      BY <1>15, <3>2, <3>3, DroppedHolds
    <3>5. QED
      BY <1>7, <1>17, <2>1, <3>4
  <2>2. CASE restored /\ ~(~given /\ r.group = 0 /\ r.original = text)
    <3>1. group \in SUBSET DOMAIN fresh /\ \A j \in group : fresh[j].group = r.group /\ r.group # 0
      BY <1>17
    <3>2. \A j \in group : fresh[j].spelling = NULL
      BY <1>7, <1>17, <2>2
    <3>3. \A j \in group : written[fresh[j].index].text = written[fresh[j].index].first
      <4>1. SUFFICES ASSUME NEW j \in group
                     PROVE  written[fresh[j].index].text = written[fresh[j].index].first
        OBVIOUS
      <4>2. written[fresh[j].index].text = fresh[j].original
        BY <1>17, <2>2, <3>1 DEF GroupRestored, restored
      <4>3. Describes(fresh[j], written[fresh[j].index])
        BY <1>15, <3>1, RecordAt
      <4>4. QED
        BY <4>2, <4>3 DEF Describes
    <3>4. \A i, j \in DOMAIN fresh :
            i \in group /\ fresh[i].group # 0 /\ fresh[j].group = fresh[i].group => j \in group
      BY <1>17
    <3> HIDE DEF group
    <3>5. Holds(written, Without(fresh, group))
      BY <1>15, <3>1, <3>2, <3>3, <3>4, DroppedHolds
    <3>6. QED
      BY <1>7, <1>17, <2>2, <3>5
  <2>3. CASE ~restored /\ ~(~given /\ r.group = 0 /\ r.original = text)
    BY <1>7, <1>15, <1>17, <2>3
  <2>4. QED
    BY <2>1, <2>2, <2>3
<1>20. steps' \in 0..MaxSteps
  BY <1>1, <1>7, BoundAssumption DEF MutationsInvariant
<1>21. QED
  BY <1>1, <1>7, <1>19, <1>20 DEF MutationsInvariant, Holds

-----------------------------------------------------------------------------
(* A relation (sqlparser_replace_relation_and_bound_qualifiers).           *)

\* Schema and name of a relation make up a node.
LEMMA NodeOfRelation ==
  ASSUME NEW t, TreeIsWhole(t), NEW k \in DOMAIN t, t[k].kind = "relation", t[k].part = 1
  PROVE  /\ k + 1 \in DOMAIN t /\ t[k + 1].part = 2 /\ t[k + 1].kind = "relation"
         /\ t[k + 1].id = t[k].id /\ t[k + 1].location = t[k].location /\ k # k + 1 /\ k \in Nat
         /\ \A m \in DOMAIN t : t[m].id = t[k].id => m = k \/ m = k + 1
<1>1. t \in Seq(String) /\ NodesAreWhole(t) /\ AddressesDiffer(t)
  BY DEF TreeIsWhole
<1>2. k \in 1..Len(t) /\ DOMAIN t = 1..Len(t) /\ Len(t) \in Nat
  BY <1>1
<1>3. k < Len(t) /\ t[k + 1].part = 2 /\ t[k + 1].id = t[k].id
  BY <1>1 DEF NodesAreWhole
<1>4. k + 1 \in DOMAIN t /\ (k + 1) - 1 = k /\ k # k + 1 /\ k \in Nat
  BY <1>2, <1>3
<1>5. t[k + 1].kind = "relation" /\ t[k + 1].location = t[k].location
  BY <1>1, <1>3, <1>4 DEF NodesAreWhole
<1>6. ASSUME NEW m \in DOMAIN t, t[m].id = t[k].id PROVE m = k \/ m = k + 1
  <2>1. t[m] \in String
    BY <1>1
  <2>2. t[m].part \in {1, 2}
    BY <2>1 DEF String
  <2>3. QED
    BY <1>1, <1>3, <1>4, <1>6, <2>2 DEF AddressesDiffer
<1>7. QED
  BY <1>3, <1>4, <1>5, <1>6

\* The groups that are in use end somewhere.
LEMMA GroupsEnd ==
  ASSUME NEW recs \in Seq(Record)
  PROVE  LET groups == {0} \cup {recs[j].group : j \in DOMAIN recs}
         IN  Max(groups) \in Nat /\ \A g \in groups : g <= Max(groups)
<1> DEFINE n == Len(recs)
           U == {0} \cup {recs[j].group : j \in DOMAIN recs}
           Bounds == {b \in Nat : \A g \in U : g <= b}
           S == {m \in Nat : \E b \in Nat : \A j \in 1..m : recs[j].group <= b}
<1>1. n \in Nat /\ DOMAIN recs = 1..n /\ \A j \in 1..n : recs[j].group \in Nat
  <2>1. \A j \in 1..n : recs[j] \in Record
    OBVIOUS
  <2>2. QED
    BY <2>1 DEF Record
<1> HIDE DEF n
<1>2. 0 \in S
  OBVIOUS
<1>3. ASSUME NEW m \in 0..(n - 1), m \in S PROVE m + 1 \in S
  <2>1. PICK b \in Nat : \A j \in 1..m : recs[j].group <= b
    BY <1>3
  <2>2. m + 1 \in 1..n /\ m + 1 \in Nat /\ \A j \in 1..(m + 1) : j \in 1..m \/ j = m + 1
    BY <1>1
  <2>3. \A j \in 1..m : recs[j].group \in Nat
    BY <1>1
  <2>4. recs[m + 1].group \in Nat
    BY <1>1, <2>2
  <2>5. PICK c \in Nat : b <= c /\ recs[m + 1].group <= c
    BY <2>4
  <2>6. \A j \in 1..m : recs[j].group <= c
    BY <2>1, <2>3, <2>5
  <2>7. \A j \in 1..(m + 1) : recs[j].group <= c
    BY <2>2, <2>5, <2>6
  <2>8. QED
    BY <2>2, <2>7
<1>4. 0 \in Int /\ n \in Int /\ 0 <= n /\ n \in 0..n
  BY <1>1
<1> HIDE DEF S
<1>5. 0..n \subseteq S
  BY ONLY <1>2, <1>3, <1>4, IntervalInduction
<1>6. PICK b \in Nat : \A j \in 1..n : recs[j].group <= b
  BY <1>4, <1>5 DEF S
<1>7. U \subseteq Nat /\ 0 \in U
  BY <1>1
<1>8. b \in Bounds
  BY <1>1, <1>6
<1> HIDE DEF U
<1>9. Bounds \in SUBSET Nat /\ Bounds # {}
  BY <1>8
<1> HIDE DEF Bounds
<1>10. PICK c \in Bounds : \A d \in Bounds : c <= d
  BY <1>9, LeastNatural
<1>11. c \in Nat /\ \A g \in U : g <= c
  BY <1>10 DEF Bounds
<1>12. c \in U
  <2>1. SUFFICES ASSUME c \notin U PROVE FALSE
    OBVIOUS
  <2>2. c # 0 /\ c - 1 \in Nat
    BY <1>7, <1>11, <2>1
  <2>3. \A g \in U : g <= c - 1
    BY <1>7, <1>11, <2>1, <2>2
  <2>4. c - 1 \in Bounds
    BY <2>2, <2>3 DEF Bounds
  <2>5. c <= c - 1
    BY <1>10, <2>4
  <2>6. QED
    BY <1>11, <2>5
<1>13. Max(U) \in U /\ \A g \in U : Max(U) >= g
  <2>1. \E x \in U : \A y \in U : x >= y
    BY <1>7, <1>11, <1>12
  <2>2. QED
    BY <2>1 DEF Max
<1>14. Max(U) \in Nat /\ \A g \in U : g <= Max(U)
  BY <1>7, <1>13
<1>15. QED
  BY <1>14 DEF U

\* The records at i and j are those of the relation at k.
AreOfRelation(t, recs, k, i, j) ==
  /\ k \in DOMAIN t /\ t[k].kind = "relation" /\ t[k].part = 1
  /\ i \in DOMAIN recs /\ j \in DOMAIN recs /\ recs[i].index = k /\ recs[j].index = k + 1

\* A relation has one group or none, and then it is given a new one.
LEMMA RelationGroup ==
  ASSUME NEW t, NEW recs, Holds(t, recs), NEW k, NEW i, NEW j, AreOfRelation(t, recs, k, i, j)
  PROVE  LET g == GroupOf(recs, {i, j})
         IN  /\ g \in Nat \ {0}
             /\ {recs[n].group : n \in {i, j}} \ {0} \in SUBSET {g}
             /\ \/ recs[i].group = g /\ recs[j].group = g
                \/ /\ recs[i].group = 0 /\ recs[j].group = 0
                   /\ \A r \in Range(recs) : r.group # g
<1> DEFINE groups == {recs[n].group : n \in {i, j}} \ {0}
           g == GroupOf(recs, {i, j})
<1>1. /\ k \in DOMAIN t /\ t[k].kind = "relation" /\ t[k].part = 1
      /\ i \in DOMAIN recs /\ j \in DOMAIN recs /\ recs[i].index = k /\ recs[j].index = k + 1
  BY DEF AreOfRelation
<1>2. TreeIsWhole(t) /\ recs \in Seq(Record) /\ RecordsAreDistinct(recs) /\ GroupsAgree(Range(recs), t)
  BY DEF Holds, Follow
<1>3. k + 1 \in DOMAIN t /\ t[k + 1].id = t[k].id
  BY <1>1, <1>2, NodeOfRelation
<1>4. /\ recs[i] \in Range(recs) /\ recs[j] \in Range(recs)
      /\ recs[i].group \in Nat /\ recs[j].group \in Nat
  <2>1. recs[i] \in Record /\ recs[j] \in Record /\ recs[i] \in Range(recs) /\ recs[j] \in Range(recs)
    BY <1>1, RecordAt
  <2>2. QED
    BY <2>1 DEF Record
<1>5. \A s \in Range(recs) : (s.index = k => s = recs[i]) /\ (s.index = k + 1 => s = recs[j])
  BY <1>1, <1>2 DEF Range, RecordsAreDistinct
<1>6. recs[i].group # 0 => recs[j].group = recs[i].group
  <2>1. SUFFICES ASSUME recs[i].group # 0 PROVE recs[j].group = recs[i].group
    OBVIOUS
  <2>2. \E s \in Range(recs) : s.index = k + 1 /\ s.group = recs[i].group
    BY <1>1, <1>2, <1>3, <1>4, <2>1 DEF GroupsAgree
  <2>3. QED
    BY <1>5, <2>2
<1>7. recs[j].group # 0 => recs[i].group = recs[j].group
  <2>1. SUFFICES ASSUME recs[j].group # 0 PROVE recs[i].group = recs[j].group
    OBVIOUS
  <2>2. \E s \in Range(recs) : s.index = k /\ s.group = recs[j].group
    BY <1>1, <1>2, <1>3, <1>4, <2>1 DEF GroupsAgree
  <2>3. QED
    BY <1>5, <2>2
<1>8. CASE recs[i].group # 0
  <2>1. groups = {recs[i].group}
    BY <1>6, <1>8
  <2>2. Smallest({recs[i].group}) = recs[i].group
    <3>1. recs[i].group <= recs[i].group
      BY <1>4
    <3>2. QED
      BY <3>1 DEF Smallest
  <2>3. g = recs[i].group
    BY <2>1, <2>2 DEF GroupOf
  <2>4. QED
    BY <1>4, <1>6, <1>8, <2>1, <2>3
<1>9. CASE recs[i].group = 0
  <2>1. recs[j].group = 0 /\ groups = {}
    BY <1>7, <1>9
  <2> DEFINE all == {0} \cup {recs[n].group : n \in DOMAIN recs}
             m == Max(all)
  <2>2. m \in Nat /\ \A x \in all : x <= m
    BY <1>2, GroupsEnd
  <2>3. g = 1 + m
    BY <2>1 DEF GroupOf
  <2> HIDE DEF m, g
  <2>4. \A r \in Range(recs) : r.group \in all
    BY DEF Range
  <2>5. \A x \in all : x # 1 + m
    <3>1. all \subseteq Nat
      <4>1. \A n \in DOMAIN recs : recs[n] \in Record
        BY <1>2
      <4>2. QED
        BY <4>1 DEF Record
    <3>2. QED
      BY <2>2, <3>1
  <2>6. \A r \in Range(recs) : r.group # g
    BY <2>3, <2>4, <2>5
  <2>7. g \in Nat \ {0}
    BY <2>2, <2>3
  <2> HIDE DEF groups
  <2>8. groups \in SUBSET {g}
    BY <2>1
  <2>9. QED
    BY <1>9, <2>1, <2>6, <2>7, <2>8 DEF g, groups
<1>10. QED
  BY <1>4, <1>8, <1>9

\* The records at mine put into group g.
Regrouped(recs, mine, g) ==
  [n \in DOMAIN recs |-> IF n \in mine THEN [recs[n] EXCEPT !.group = g] ELSE recs[n]]

\* The records of a relation hold in their group.
LEMMA RegroupedHolds ==
  ASSUME NEW t, NEW recs, Holds(t, recs), NEW k, NEW i, NEW j, AreOfRelation(t, recs, k, i, j)
  PROVE  Holds(t, Regrouped(recs, {i, j}, GroupOf(recs, {i, j})))
<1> DEFINE g == GroupOf(recs, {i, j})
           out == Regrouped(recs, {i, j}, g)
           R == Range(recs)
           S == Range(out)
<1>1. /\ k \in DOMAIN t /\ t[k].kind = "relation" /\ t[k].part = 1
      /\ i \in DOMAIN recs /\ j \in DOMAIN recs /\ recs[i].index = k /\ recs[j].index = k + 1
  BY DEF AreOfRelation
<1>2. /\ TreeIsWhole(t) /\ recs \in Seq(Record) /\ RecordsAreDistinct(recs)
      /\ Follow(R, t) /\ BoundIn(R, t)
  BY DEF Holds
<1>3. g \in Nat \ {0}
  BY RelationGroup
<1>4. \/ recs[i].group = g /\ recs[j].group = g
      \/ recs[i].group = 0 /\ recs[j].group = 0 /\ \A r \in R : r.group # g
  BY RelationGroup
<1>5. /\ k + 1 \in DOMAIN t /\ t[k + 1].kind = "relation" /\ t[k + 1].id = t[k].id
      /\ \A m \in DOMAIN t : t[m].id = t[k].id => m = k \/ m = k + 1
  BY <1>1, <1>2, NodeOfRelation
<1> HIDE DEF g
<1>6. \A n \in DOMAIN recs : recs[n] \in Record
  BY <1>2
<1>7. /\ out \in Seq(Record) /\ DOMAIN out = DOMAIN recs
  <2>1. \A n \in DOMAIN recs : out[n] \in Record
    BY <1>3, <1>6 DEF Record, Regrouped
  <2>2. DOMAIN recs = 1..Len(recs) /\ Len(recs) \in Nat /\ DOMAIN out = DOMAIN recs
    BY <1>2 DEF Regrouped
  <2>3. out = [n \in 1..Len(recs) |-> out[n]]
    BY <2>2 DEF Regrouped
  <2> HIDE DEF out
  <2>4. QED
    BY <2>1, <2>2, <2>3
<1>8. \A n \in DOMAIN recs :
        /\ out[n].index = recs[n].index /\ out[n].slot = recs[n].slot /\ out[n].cell = recs[n].cell
        /\ out[n].original = recs[n].original /\ out[n].present = recs[n].present
        /\ out[n].spelling = recs[n].spelling
        /\ out[n].group = IF n \in {i, j} THEN g ELSE recs[n].group
  BY <1>6 DEF Record, Regrouped
<1> HIDE DEF out
<1>9. /\ \A r \in R : \E n \in DOMAIN recs : r = recs[n]
      /\ \A r \in S : \E n \in DOMAIN recs : r = out[n]
      /\ \A n \in DOMAIN recs : recs[n] \in R /\ out[n] \in S
  BY <1>7 DEF Range
<1> HIDE DEF R, S
<1>10. RecordsAreDistinct(out)
  BY <1>2, <1>7, <1>8 DEF RecordsAreDistinct
<1>11. \A r, s \in S : r.index = s.index => r = s
  BY <1>7, <1>9, <1>10 DEF RecordsAreDistinct
<1>12. ASSUME NEW r \in S
       PROVE r.index \in DOMAIN t /\ Describes(r, t[r.index]) /\ r.slot = Address(t, r.index)
             /\ r.cell = t[r.index].cell
  <2>1. PICK n \in DOMAIN recs : r = out[n]
    BY <1>9
  <2>2. recs[n].index \in DOMAIN t /\ Describes(recs[n], t[recs[n].index])
        /\ recs[n].slot = Address(t, recs[n].index) /\ recs[n].cell = t[recs[n].index].cell
    BY RecordAt
  <2>3. n \in {i, j} => t[recs[n].index].kind = "relation"
    BY <1>1, <1>5
  <2>4. QED
    BY <1>8, <2>1, <2>2, <2>3 DEF Describes
<1>13. \A m \in DOMAIN t : IsKnown(S, t, m)
  <2>1. SUFFICES ASSUME NEW m \in DOMAIN t PROVE IsKnown(S, t, m)
    OBVIOUS
  <2>2. IsKnown(R, t, m)
    BY <1>2 DEF Follow
  <2>3. \A r \in R : \E s \in S : s.index = r.index /\ s.spelling = r.spelling
    BY <1>8, <1>9
  <2>4. \A r \in S : \E s \in R : s.index = r.index /\ s.spelling = r.spelling
    BY <1>8, <1>9
  <2>5. QED
    BY <2>2, <2>3, <2>4 DEF IsKnown
<1>14. GroupsAgree(S, t)
  <2>1. GroupsAgree(R, t)
    BY <1>2 DEF Follow
  <2>2. \A n \in DOMAIN recs : recs[n].index \in {k, k + 1} => n \in {i, j}
    BY <1>1, <1>2 DEF RecordsAreDistinct
  <2>3. ASSUME NEW n \in DOMAIN recs, out[n].group = g
        PROVE  recs[n].index \in {k, k + 1}
    <3>1. CASE n \in {i, j}
      BY <1>1, <3>1
    <3>2. CASE n \notin {i, j}
      <4>1. recs[n].group = g /\ recs[n] \in R /\ recs[i] \in R
        BY <1>1, <1>8, <1>9, <2>3, <3>2
      <4>2. recs[i].group = g
        BY <1>4, <4>1
      <4>3. t[recs[n].index].id = t[recs[i].index].id
        BY <1>3, <2>1, <4>1, <4>2 DEF GroupsAgree
      <4>4. recs[n].index \in DOMAIN t
        BY RecordAt
      <4>5. QED
        BY <1>1, <1>5, <4>3, <4>4
    <3>3. QED
      BY <3>1, <3>2
  <2>4. ASSUME NEW r \in S, r.group # 0, NEW m \in DOMAIN t, t[m].id = t[r.index].id
        PROVE  \E s \in S : s.index = m /\ s.group = r.group
    <3>1. PICK n \in DOMAIN recs : r = out[n]
      BY <1>9
    <3>2. CASE r.group = g
      <4>1. r.index \in {k, k + 1}
        BY <1>8, <2>3, <3>1, <3>2
      <4>2. m \in {k, k + 1}
        BY <1>5, <2>4, <4>1
      <4>3. out[i] \in S /\ out[i].index = k /\ out[i].group = g
            /\ out[j] \in S /\ out[j].index = k + 1 /\ out[j].group = g
        BY <1>1, <1>8, <1>9
      <4>4. QED
        BY <3>2, <4>2, <4>3
    <3>3. CASE r.group # g
      <4>1. n \notin {i, j} /\ recs[n] \in R /\ recs[n].group = r.group /\ recs[n].index = r.index
        BY <1>8, <1>9, <3>1, <3>3
      <4>2. PICK s \in R : s.index = m /\ s.group = r.group
        BY <2>1, <2>4, <4>1 DEF GroupsAgree
      <4>3. PICK o \in DOMAIN recs : s = recs[o]
        BY <1>9
      <4>4. o \notin {i, j}
        BY <1>4, <2>4, <3>3, <4>2, <4>3
      <4>5. QED
        BY <1>8, <1>9, <4>2, <4>3, <4>4
    <3>4. QED
      BY <3>2, <3>3
  <2>5. ASSUME NEW r \in S, NEW s \in S, r.group # 0, r.group = s.group
        PROVE  t[r.index].id = t[s.index].id
    <3>1. PICK n \in DOMAIN recs : r = out[n]
      BY <1>9
    <3>2. PICK o \in DOMAIN recs : s = out[o]
      BY <1>9
    <3>3. CASE r.group = g
      <4>1. r.index \in {k, k + 1} /\ s.index \in {k, k + 1}
        BY <1>8, <2>3, <2>5, <3>1, <3>2, <3>3
      <4>2. QED
        BY <1>5, <4>1
    <3>4. CASE r.group # g
      <4>1. /\ recs[n] \in R /\ recs[n].group = r.group /\ recs[n].index = r.index
            /\ recs[o] \in R /\ recs[o].group = s.group /\ recs[o].index = s.index
        BY <1>8, <1>9, <2>5, <3>1, <3>2, <3>4
      <4>2. QED
        BY <2>1, <2>5, <4>1 DEF GroupsAgree
    <3>5. QED
      BY <3>3, <3>4
  <2>6. QED
    BY <2>4, <2>5 DEF GroupsAgree
<1>15. Follow(S, t) /\ BoundIn(S, t)
  BY <1>11, <1>12, <1>13, <1>14 DEF Follow, BoundIn
<1>16. QED
  BY <1>2, <1>7, <1>10, <1>15 DEF Holds, out, g, S

\* A record stands for itself as long as its string is as it was.
LEMMA SameStands ==
  ASSUME NEW t, NEW recs, Holds(t, recs), NEW at \in DOMAIN recs
  PROVE  /\ StandsFor(t[recs[at].index], t[recs[at].index])
         /\ RecordStandsFor(recs[at], recs[at], t[recs[at].index])
<1> DEFINE k == recs[at].index
           r == recs[at]
<1>1. /\ r \in Record /\ r \in Range(recs) /\ k \in DOMAIN t /\ Describes(r, t[k])
      /\ r.cell = t[k].cell /\ r.index = k
  BY RecordAt
<1>2. t[k] \in String /\ IsKnown(Range(recs), t, k) /\ \A s \in Range(recs) : s.index = k => s = r
  BY <1>1 DEF Holds, TreeIsWhole, Follow
<1> HIDE DEF r, k
<1>3. t[k].text # NoText /\ r.spelling = NULL =>
        t[k].due = Plain(t[k]) /\ (t[k].location = "fragment" => t[k].text = t[k].first)
  BY <1>1, <1>2 DEF IsKnown
<1>4. QED
  BY <1>1, <1>2, <1>3 DEF StandsFor, RecordStandsFor, Describes, r, k

\* A part of a relation after it was asked to be value, spelled as given or not,
\* and the record of it.
PartAfter(s, value, cell, given) ==
  IF s.text # value \/ given THEN Changed(s, value, cell, given) ELSE s
RecordAfter(r, s, value, cell, given) ==
  IF s.text # value \/ given THEN Respelled(r, r.slot, cell, GivenSpelling(value, given)) ELSE r

\* The patch may make this of the part: a new string is at a new address; the name
\* of a relation that a fragment brought is given its spelling.
PartMayBe(t, recs, at, value, cell, given) ==
  LET s == t[recs[at].index]
  IN  /\ at \in DOMAIN recs /\ s.kind = "relation"
      /\ value \in Texts /\ given \in BOOLEAN /\ cell \in Nat
      /\ s.text # value \/ given => cell \notin Cells(t)
      /\ ~given /\ s.text # value /\ value # NoText => s.location # "fragment"
      /\ s.part = 2 /\ s.location = "fragment" => given
      /\ s.part = 1 /\ s.location = "fragment" /\ value # NoText =>
           \E r \in Range(recs) : r.index = recs[at].index + 1 /\ r.spelling # NULL

\* Part and record after the patch hold for the tree.
PartIs(t, recs, at, value, cell, given) ==
  LET s == t[recs[at].index]
      w == PartAfter(s, value, cell, given)
      q == RecordAfter(recs[at], s, value, cell, given)
  IN  /\ Holds([t EXCEPT ![recs[at].index] = w], [recs EXCEPT ![at] = q])
      /\ w.text = value
      /\ w.cell = IF s.text # value \/ given THEN cell ELSE s.cell
      /\ StandsFor(w, s)
      /\ q.index = recs[at].index
      /\ given => q.spelling # NULL

\* Such a part holds with its record after the patch.
LEMMA PartHolds ==
  ASSUME NEW t, NEW recs, Holds(t, recs), NEW at, NEW value, NEW cell, NEW given,
         PartMayBe(t, recs, at, value, cell, given)
  PROVE  PartIs(t, recs, at, value, cell, given)
<1> DEFINE s == t[recs[at].index]
<1>1. /\ at \in DOMAIN recs /\ s.kind = "relation"
      /\ value \in Texts /\ given \in BOOLEAN /\ cell \in Nat
      /\ (s.text # value \/ given => cell \notin Cells(t))
      /\ (~given /\ s.text # value /\ value # NoText => s.location # "fragment")
      /\ (s.part = 2 /\ s.location = "fragment" => given)
      /\ (s.part = 1 /\ s.location = "fragment" /\ value # NoText =>
           \E r \in Range(recs) : r.index = recs[at].index + 1 /\ r.spelling # NULL)
  BY DEF PartMayBe
<1>2. s = t[recs[at].index]
  OBVIOUS
<1> HIDE DEF s
<1> DEFINE r == recs[at]
           k == r.index
           w == PartAfter(s, value, cell, given)
           q == RecordAfter(r, s, value, cell, given)
<1>3. /\ r \in Record /\ Describes(r, s) /\ k \in DOMAIN t /\ r.slot = Address(t, k)
  BY <1>1, <1>2, RecordAt
<1>4. s \in String /\ r.slot \in Nat \X Nat
  BY <1>3, <1>2, StringFacts DEF Holds, TreeIsWhole
<1> HIDE DEF r, k
<1>5. given => GivenSpelling(value, given) # NULL
  <2>1. given => GivenSpelling(value, given) \in Spelling
    BY <1>1 DEF GivenSpelling, Spell, Spelling, Forms
  <2>2. QED
    BY <2>1, SpellingIsNotNull
<1>6. /\ StandsFor(w, s) /\ RecordStandsFor(q, r, w) /\ w.text = value
      /\ (w.cell = IF s.text # value \/ given THEN cell ELSE s.cell)
      /\ (given => q.spelling # NULL)
  <2>1. CASE s.text # value \/ given
    <3> DEFINE v == Renamed(s, r, value, cell, given)
               o == Respelled(r, r.slot, cell, GivenSpelling(value, given))
               slot == r.slot
    <3>1. /\ value \in Texts /\ cell \in Nat /\ given \in BOOLEAN /\ (s.text # value \/ given)
          /\ (~given /\ s.kind = "relation" /\ value # NoText => s.location # "fragment")
      BY <1>1, <2>1
    <3>2. s \in String /\ r \in Record /\ Describes(r, s) /\ slot \in Nat \X Nat /\ slot = r.slot
      BY <1>3, <1>4
    <3>3. v = w /\ o = q
      BY <1>1, <2>1 DEF Renamed, Retagged, PartAfter, RecordAfter
    <3>4. o = Respelled(r, slot, cell, GivenSpelling(value, given))
      OBVIOUS
    <3> HIDE DEF w, q, v, o, slot
    <3>5. /\ StandsFor(v, s) /\ RecordStandsFor(o, r, v)
          /\ v.cell = cell /\ v.text = value /\ o.spelling = GivenSpelling(value, given)
      BY <3>1, <3>2, <3>4, ChangedFacts DEF v
    <3>6. QED
      BY <1>5, <2>1, <3>3, <3>5
  <2>2. CASE ~(s.text # value \/ given)
    <3>1. w = s /\ q = r
      BY <2>2 DEF PartAfter, RecordAfter
    <3>2. StandsFor(s, s) /\ RecordStandsFor(r, r, s)
      BY <1>1, <1>2, SameStands DEF r
    <3> HIDE DEF w, q
    <3>3. QED
      BY <2>2, <3>1, <3>2
  <2>3. QED
    BY <2>1, <2>2
<1> HIDE DEF w, q
<1>7. /\ w.kind = s.kind /\ w.part = s.part /\ w.location = s.location /\ q.index = k
  BY <1>1, <1>6 DEF StandsFor, RecordStandsFor, k
<1>8. w.cell = s.cell \/ w.cell \notin Cells(t)
  BY <1>1, <1>6
<1>9. w.kind = "relation" /\ w.location = "fragment" /\ w.part = 2 => q.spelling # NULL
  BY <1>1, <1>6, <1>7
<1>10. w.kind = "relation" /\ w.location = "fragment" /\ w.part = 1 /\ w.text # NoText =>
        \E o \in Range(recs) : o.index = k + 1 /\ o.spelling # NULL
  BY <1>1, <1>6, <1>7 DEF k, r
<1>11. Holds([t EXCEPT ![recs[at].index] = w], [recs EXCEPT ![at] = q])
  BY <1>1, <1>2, <1>6, <1>8, <1>9, <1>10, ChangedHolds DEF k, r
<1>12. QED
  BY <1>6, <1>7, <1>11 DEF w, q, k, r, s, PartIs

\* The relation at k became v1, v2: its tree and its records.
RelationTree(t, k, v1, first, g1, v2, second, g2) ==
  [t EXCEPT ![k] = PartAfter(t[k], v1, first, g1), ![k + 1] = PartAfter(t[k + 1], v2, second, g2)]
RelationRecords(t, recs, k, a, b, v1, first, g1, v2, second, g2) ==
  [recs EXCEPT ![a] = RecordAfter(recs[a], t[k], v1, first, g1),
               ![b] = RecordAfter(recs[b], t[k + 1], v2, second, g2)]

\* Both parts of a relation replaced, one after the other, with their records.
LEMMA RelationReplaced ==
  ASSUME NEW t, NEW recs, Holds(t, recs), NEW k, NEW a, NEW b, AreOfRelation(t, recs, k, a, b),
         NEW given \in BOOLEAN, ~given => t[k].location # "fragment",
         NEW v1 \in Texts, NEW v2 \in Texts, NEW g1 \in BOOLEAN, g1 <=> given /\ v1 # NoText,
         NEW first \in Nat, NEW second \in Nat,
         t[k].text # v1 \/ g1 => first \notin Cells(t),
         t[k].text # v1 \/ g1 => first # second,
         t[k + 1].text # v2 \/ given => second \notin Cells(t)
  PROVE  LET u == RelationTree(t, k, v1, first, g1, v2, second, given)
             out == RelationRecords(t, recs, k, a, b, v1, first, g1, v2, second, given)
         IN  /\ Holds(u, out) /\ DOMAIN u = DOMAIN t /\ DOMAIN out = DOMAIN recs
             /\ u[k].text = v1 /\ u[k + 1].text = v2 /\ out[a].index = k /\ out[b].index = k + 1
             /\ u[k].cell = IF t[k].text # v1 \/ g1 THEN first ELSE t[k].cell
             /\ u[k + 1].cell = IF t[k + 1].text # v2 \/ given THEN second ELSE t[k + 1].cell
             /\ \A m \in DOMAIN t : u[m].kind = t[m].kind /\ u[m].part = t[m].part
                                    /\ u[m].first = t[m].first /\ u[m].id = t[m].id
<1>1. /\ k \in DOMAIN t /\ t[k].kind = "relation" /\ t[k].part = 1
      /\ a \in DOMAIN recs /\ b \in DOMAIN recs /\ recs[a].index = k /\ recs[b].index = k + 1
  BY DEF AreOfRelation
<1>2. /\ k + 1 \in DOMAIN t /\ t[k + 1].part = 2 /\ t[k + 1].kind = "relation"
      /\ t[k + 1].location = t[k].location /\ k # k + 1
  BY <1>1, NodeOfRelation DEF Holds
<1>3. a # b
  BY <1>1, <1>2
<1> DEFINE w1 == PartAfter(t[k], v1, first, g1)
           w2 == PartAfter(t[k + 1], v2, second, given)
           q1 == RecordAfter(recs[a], t[k], v1, first, g1)
           q2 == RecordAfter(recs[b], t[k + 1], v2, second, given)
           t1 == [t EXCEPT ![k + 1] = w2]
           recs1 == [recs EXCEPT ![b] = q2]
           t2 == [t1 EXCEPT ![k] = w1]
           recs2 == [recs1 EXCEPT ![a] = q1]
<1>4. /\ Holds(t1, recs1) /\ w2.text = v2 /\ q2.index = k + 1 /\ StandsFor(w2, t[k + 1])
      /\ (w2.cell = IF t[k + 1].text # v2 \/ given THEN second ELSE t[k + 1].cell)
      /\ (given => q2.spelling # NULL)
  <2>1. PartMayBe(t, recs, b, v2, second, given)
    BY <1>1, <1>2 DEF PartMayBe
  <2>2. PartIs(t, recs, b, v2, second, given)
    BY <2>1, PartHolds
  <2>3. QED
    BY <1>1, <2>2 DEF PartIs
<1>5. /\ t1[k] = t[k] /\ t1[k + 1] = w2 /\ DOMAIN t1 = DOMAIN t
      /\ \A m \in DOMAIN t : m # k + 1 => t1[m] = t[m]
  BY <1>1, <1>2
<1>6. recs1[a] = recs[a] /\ recs1[b] = q2 /\ DOMAIN recs1 = DOMAIN recs
  BY <1>1, <1>3
<1>7. t[k].text # v1 \/ g1 => first \notin Cells(t1)
  <2>1. \A m \in DOMAIN t1 : t1[m].cell \in Cells(t) \/ t1[m].cell = second
    BY <1>2, <1>4, <1>5 DEF Cells
  <2>2. QED
    BY <2>1 DEF Cells
<1> HIDE DEF w1, w2, q1, q2, t1, recs1
<1>8. /\ Holds(t2, recs2) /\ w1.text = v1 /\ q1.index = k /\ StandsFor(w1, t[k])
      /\ (w1.cell = IF t[k].text # v1 \/ g1 THEN first ELSE t[k].cell)
  <2>1. recs1[b] \in Range(recs1) /\ recs1[b].index = k + 1 /\ (given => recs1[b].spelling # NULL)
    BY <1>1, <1>4, <1>6 DEF Range
  <2>2. t1[recs1[a].index] = t[k] /\ recs1[a].index = k /\ a \in DOMAIN recs1
    BY <1>1, <1>5, <1>6
  <2>3. PartMayBe(t1, recs1, a, v1, first, g1)
    BY <1>1, <1>7, <2>1, <2>2 DEF PartMayBe
  <2>4. PartIs(t1, recs1, a, v1, first, g1)
    BY <1>4, <2>3, PartHolds
  <2>5. QED
    BY <1>6, <2>2, <2>4 DEF PartIs, w1, q1
<1>9. t2 = RelationTree(t, k, v1, first, g1, v2, second, given)
  BY <1>1, <1>2 DEF t1, w1, w2, RelationTree
<1>10. recs2 = RelationRecords(t, recs, k, a, b, v1, first, g1, v2, second, given)
  BY <1>1, <1>3 DEF recs1, q1, q2, RelationRecords
<1>11. /\ DOMAIN t2 = DOMAIN t /\ t2[k] = w1 /\ t2[k + 1] = w2
       /\ \A m \in DOMAIN t : m # k /\ m # k + 1 => t2[m] = t[m]
  BY <1>1, <1>2, <1>5
<1>12. DOMAIN recs2 = DOMAIN recs /\ recs2[a] = q1 /\ recs2[b] = q2
  BY <1>1, <1>3, <1>6
<1> HIDE DEF t2, recs2
<1>13. \A m \in DOMAIN t : t2[m].kind = t[m].kind /\ t2[m].part = t[m].part
                           /\ t2[m].first = t[m].first /\ t2[m].id = t[m].id
  BY <1>4, <1>8, <1>11 DEF StandsFor
<1>14. QED
  BY <1>4, <1>8, <1>9, <1>10, <1>11, <1>12, <1>13

\* A spelling that is due is one of the text; that of a name which was given none is
\* the one its text has of itself.
LEMMA DueFacts ==
  ASSUME NEW t, NEW recs, Holds(t, recs), NEW k \in DOMAIN t, t[k].text # NoText
  PROVE  /\ t[k].due.of = t[k].text /\ t[k].due \in Spelling
         /\ (\A r \in Range(recs) : r.index = k => r.spelling = NULL) =>
              t[k].due = Plain(t[k]) /\ (t[k].location = "fragment" => t[k].text = t[k].first)
<1>1. IsKnown(Range(recs), t, k) /\ t[k] \in String /\ t[k].due \in Spelling
  BY StringFacts DEF Holds, Follow, TreeIsWhole
<1>2. Plain(t[k]).of = t[k].text
  BY DEF Plain, OwnSpelling, Spell
<1>3. CASE \A r \in Range(recs) : r.index = k => r.spelling = NULL
  BY <1>1, <1>2, <1>3 DEF IsKnown
<1>4. CASE \E r \in Range(recs) : r.index = k /\ r.spelling # NULL
  <2>1. PICK r \in Range(recs) : r.index = k /\ r.spelling # NULL
    BY <1>4
  <2>2. Describes(r, t[k])
    BY <2>1 DEF Holds, Follow
  <2>3. QED
    BY <1>1, <1>4, <2>1, <2>2 DEF Describes
<1>5. QED
  BY <1>3, <1>4

\* Columns are qualified with the spelling that is due for the name of the relation.
LEMMA OutputFacts ==
  ASSUME NEW t, NEW recs, Holds(t, recs), NEW k \in DOMAIN t, t[k].text # NoText
  PROVE  OutputSpelling(t, recs, k) = t[k].due
<1> DEFINE mine == {j \in DOMAIN recs : recs[j].slot = Address(t, k)}
           r == recs[Smallest(mine)]
<1>1. \A m \in DOMAIN t : Address(t, m) = Address(t, k) => m = k
  BY DEF Holds, TreeIsWhole, AddressesDiffer, Address
<1>2. mine = {j \in DOMAIN recs : recs[j].index = k}
  BY <1>1, RecordAt
<1>3. OutputSpelling(t, recs, k) =
        IF mine # {} /\ r.spelling # NULL THEN r.spelling
        ELSE IF mine # {} /\ r.original # t[k].text THEN Spell("default", t[k].text)
        ELSE OwnSpelling(t[k].location, t[k].text)
  BY DEF OutputSpelling
<1> HIDE DEF mine
<1>4. CASE mine = {}
  <2>1. \A s \in Range(recs) : s.index # k
    BY <1>2, <1>4 DEF Range
  <2>2. t[k].due = Plain(t[k])
    BY <2>1, DueFacts
  <2>3. t[k].text = t[k].first
    BY <2>1 DEF Holds, Follow, IsKnown
  <2>4. QED
    BY <1>3, <1>4, <2>2, <2>3 DEF Plain
<1>5. CASE mine # {}
  <2>1. PICK j \in mine : TRUE
    BY <1>5
  <2>2. mine = {j} /\ j \in DOMAIN recs /\ recs[j].index = k
    BY <1>2, <2>1 DEF Holds, RecordsAreDistinct
  <2>3. recs[j] \in Range(recs) /\ Describes(recs[j], t[k]) /\ j \in Nat
    BY <2>2, RecordAt
  <2>4. Smallest({j}) = j
    BY <2>3 DEF Smallest
  <2>5. r = recs[j]
    BY <2>2, <2>4
  <2> HIDE DEF r
  <2>6. CASE r.spelling # NULL
    BY <1>3, <1>5, <2>3, <2>5, <2>6 DEF Describes
  <2>7. CASE r.spelling = NULL
    <3>1. \A s \in Range(recs) : s.index = k => s.spelling = NULL
      BY <2>2, <2>5, <2>7 DEF Holds, Range, RecordsAreDistinct
    <3>2. t[k].due = Plain(t[k])
      BY <3>1, DueFacts
    <3>3. r.original = t[k].first
      BY <2>3, <2>5 DEF Describes
    <3>4. QED
      BY <1>3, <1>5, <2>7, <3>2, <3>3 DEF Plain
  <2>8. QED
    BY <2>6, <2>7
<1>6. QED
  BY <1>4, <1>5

\* A node that takes the place of a qualifier: it has no record yet.
LEMMA ReplacedNode ==
  ASSUME NEW t, NEW recs, Holds(t, recs), NEW q \in DOMAIN t, t[q].kind = "qualifier",
         NEW w \in String, w.id \notin Ids(t), w.part = 1, w.kind = "qualifier",
         w.location = "style", w.cell \notin Cells(t), w.text = w.first, w.due = Plain(w),
         NEW gone \in SUBSET DOMAIN recs, gone = {j \in DOMAIN recs : recs[j].index = q}
  PROVE  /\ Holds([t EXCEPT ![q] = w], Without(recs, gone))
         /\ \A r \in Range(Without(recs, gone)) : r.index # q
<1> DEFINE u == [t EXCEPT ![q] = w]
           out == Without(recs, gone)
           R == Range(recs)
           S == Range(out)
<1>1. /\ recs \in Seq(Record) /\ RecordsAreDistinct(recs) /\ t \in Seq(String)
      /\ NodesAreWhole(t) /\ AddressesDiffer(t) /\ Follow(R, t) /\ BoundIn(R, t)
  BY DEF Holds, TreeIsWhole
<1>2. /\ u \in Seq(String) /\ DOMAIN u = DOMAIN t /\ Len(u) = Len(t) /\ u[q] = w
      /\ \A m \in DOMAIN t : m # q => u[m] = t[m]
  BY <1>1
<1>3. out \in Seq(Record) /\ RecordsAreDistinct(out) /\ S = {recs[j] : j \in DOMAIN recs \ gone}
  BY <1>1, WithoutFacts
<1>4. \A r \in S : r \in R /\ r.index # q
  BY <1>3 DEF Range
<1>5. \A r \in R : r.index # q => r \in S
  BY <1>3 DEF Range
<1> HIDE DEF u, out, R, S
<1>6. DOMAIN t = 1..Len(t) /\ Len(t) \in Nat
  BY <1>1
<1>7. t[q].part = 1
  <2>1. t[q] \in String
    BY <1>1
  <2>2. t[q].part \in {1, 2}
    BY <2>1 DEF String
  <2>3. QED
    BY <1>1, <2>2 DEF NodesAreWhole
<1>8. NodesAreWhole(u)
  <2>1. SUFFICES ASSUME NEW m \in DOMAIN t
                 PROVE  /\ u[m].part = 2 => /\ m > 1 /\ u[m].kind = "relation"
                                            /\ u[m - 1].kind = "relation"
                                            /\ u[m - 1].part = 1 /\ u[m - 1].id = u[m].id
                                            /\ u[m - 1].location = u[m].location
                        /\ u[m].kind = "relation" /\ u[m].part = 1 =>
                             m < Len(u) /\ u[m + 1].part = 2 /\ u[m + 1].id = u[m].id
    BY <1>2 DEF NodesAreWhole
  <2>2. m \in 1..Len(t) /\ (m > 1 => m - 1 \in DOMAIN t) /\ (m < Len(t) => m + 1 \in DOMAIN t)
    BY <1>6
  <2>3. CASE m = q
    BY <1>2, <2>3
  <2>4. CASE m # q
    <3>1. u[m] = t[m]
      BY <1>2, <2>4
    <3>2. t[m].part = 2 => m > 1 /\ u[m - 1] = t[m - 1]
      BY <1>1, <1>2, <2>2 DEF NodesAreWhole
    <3>3. t[m].kind = "relation" /\ t[m].part = 1 => m < Len(t) /\ u[m + 1] = t[m + 1]
      BY <1>1, <1>2, <1>7, <2>2 DEF NodesAreWhole
    <3>4. QED
      BY <1>1, <1>2, <3>1, <3>2, <3>3 DEF NodesAreWhole
  <2>5. QED
    BY <2>3, <2>4
<1>9. AddressesDiffer(u)
  <2>1. \A m \in DOMAIN t : m # q => u[m].id # w.id /\ u[m].cell # w.cell
    BY <1>2 DEF Ids, Cells
  <2>2. QED
    BY <1>1, <1>2, <2>1 DEF AddressesDiffer
<1>10. TreeIsWhole(u)
  BY <1>2, <1>8, <1>9 DEF TreeIsWhole
<1>11. \A r \in S : /\ r.index \in DOMAIN t /\ r.index # q /\ u[r.index] = t[r.index]
                    /\ Describes(r, u[r.index])
  BY <1>1, <1>2, <1>4 DEF Follow
<1>12. BoundIn(S, u)
  BY <1>1, <1>4, <1>11 DEF BoundIn, Address
<1>13. ASSUME NEW k \in DOMAIN u PROVE IsKnown(S, u, k)
  <2>1. CASE k = q
    BY <1>2, <2>1 DEF IsKnown
  <2>2. CASE k # q
    <3>1. IsKnown(R, t, k) /\ u[k] = t[k] /\ k \in DOMAIN t
      BY <1>1, <1>2, <2>2 DEF Follow
    <3>2. \A r \in R : r.index = k => r \in S
      BY <1>5, <2>2
    <3>3. t[k].kind = "relation" /\ t[k].part = 1 => \A r \in R : r.index = k + 1 => r \in S
      <4>1. t[k].kind = "relation" /\ t[k].part = 1 => k + 1 # q
        BY <1>1, <1>7, <3>1 DEF NodesAreWhole
      <4>2. QED
        BY <1>5, <4>1
    <3>4. QED
      BY <1>4, <3>1, <3>2, <3>3 DEF IsKnown
  <2>3. QED
    BY <2>1, <2>2
<1>14. GroupsAgree(S, u)
  <2>1. GroupsAgree(R, t)
    BY <1>1 DEF Follow
  <2>2. ASSUME NEW r \in S, r.group # 0, NEW m \in DOMAIN u, u[m].id = u[r.index].id
        PROVE  \E s \in S : s.index = m /\ s.group = r.group
    <3>1. m # q
      <4>1. u[r.index].id \in Ids(t)
        BY <1>11 DEF Ids
      <4>2. QED
        BY <1>2, <2>2, <4>1
    <3>2. m \in DOMAIN t /\ t[m].id = t[r.index].id
      BY <1>2, <1>11, <2>2, <3>1
    <3>3. PICK s \in R : s.index = m /\ s.group = r.group
      BY <1>4, <2>1, <2>2, <3>2 DEF GroupsAgree
    <3>4. QED
      BY <1>5, <3>1, <3>3
  <2>3. QED
    BY <1>4, <1>11, <2>1, <2>2 DEF GroupsAgree
<1>15. Follow(S, u)
  <2>1. \A r, s \in S : r.index = s.index => r = s
    BY <1>1, <1>4 DEF Follow
  <2>2. QED
    BY <1>2, <1>11, <1>13, <1>14, <2>1 DEF Follow
<1>16. QED
  BY <1>3, <1>4, <1>10, <1>12, <1>15 DEF Holds, u, out, S

\* One column qualified anew.
LEMMA RequalifyHolds ==
  ASSUME NEW t, NEW recs, Holds(t, recs), NEW q \in DOMAIN t, t[q].kind = "qualifier",
         NEW name \in String, name.due.of = name.text
  PROVE  LET after == Requalify(t, recs, q, name, name.due)
         IN  /\ Holds(after.tree, after.records) /\ DOMAIN after.tree = DOMAIN t
             /\ \A m \in DOMAIN t : after.tree[m].kind = t[m].kind
<1> DEFINE id == LowestFree(Ids(t))
           cell == LowestFree(Cells(t))
           node == NewString(id, 1, "qualifier", "style", cell, name.text)
           w == [node EXCEPT !.due = name.due]
           plain == [t EXCEPT ![q] = node]
           next == [t EXCEPT ![q] = w]
           gone == {j \in DOMAIN recs : recs[j].slot = Address(t, q)}
           others == Without(recs, gone)
           n == Len(others)
           r == NewRecord(plain, q)
           o == [r EXCEPT !.spelling = name.due]
           prepared == Append(others, r)
           out == [prepared EXCEPT ![n + 1] = o]
<1>1. t \in Seq(String) /\ TreeIsWhole(t)
  BY DEF Holds, TreeIsWhole
<1>2. id \in Nat /\ id \notin Ids(t) /\ cell \in Nat /\ cell \notin Cells(t)
  BY <1>1, FiniteAddresses, LowestFreeFacts
<1>3. name.text \in Texts /\ name.due \in Spelling /\ name.due # NULL
  BY SpellingIsNotNull DEF String
<1> HIDE DEF id, cell
<1>4. /\ node \in String /\ node.id = id /\ node.part = 1 /\ node.kind = "qualifier"
      /\ node.location = "style" /\ node.cell = cell /\ node.text = name.text
      /\ node.first = name.text /\ node.due = Plain(node)
  <2>1. Spell("default", name.text) \in Spelling
    BY <1>3 DEF Spell, Spelling, Forms
  <2>2. OwnSpelling("style", name.text) = Spell("default", name.text)
    BY DEF OwnSpelling
  <2>3. "style" \in Locations /\ "qualifier" \in Kinds
    BY DEF Locations, Kinds
  <2>4. QED
    BY <1>2, <1>3, <2>1, <2>2, <2>3 DEF NewString, String, Plain
<1> HIDE DEF node
<1>5. /\ w \in String /\ w.id = id /\ w.part = 1 /\ w.kind = "qualifier"
      /\ w.location = "style" /\ w.cell = cell /\ w.text = name.text
      /\ w.first = name.text /\ w.due = name.due
  BY <1>3, <1>4 DEF String
<1>6. gone = {j \in DOMAIN recs : recs[j].index = q}
  <2>1. \A m \in DOMAIN t : Address(t, m) = Address(t, q) => m = q
    BY <1>1 DEF TreeIsWhole, AddressesDiffer, Address
  <2>2. QED
    BY <2>1, RecordAt
<1> HIDE DEF w, gone
<1>7. Holds(plain, others) /\ \A s \in Range(others) : s.index # q
  <2>1. gone \in SUBSET DOMAIN recs
    BY <1>6
  <2>2. QED
    BY <1>2, <1>4, <1>6, <2>1, ReplacedNode
<1>8. /\ plain[q] = node /\ next[q] = w /\ DOMAIN plain = DOMAIN t /\ DOMAIN next = DOMAIN t
      /\ [plain EXCEPT ![q] = w] = next /\ q \in DOMAIN plain /\ plain \in Seq(String)
      /\ \A m \in DOMAIN t : m # q => next[m] = t[m]
  <2> HIDE DEF others, n, r, o, prepared, out
  <2>1. plain[q] = node /\ next[q] = w /\ DOMAIN plain = DOMAIN t /\ DOMAIN next = DOMAIN t
    OBVIOUS
  <2>2. [plain EXCEPT ![q] = w] = next
    OBVIOUS
  <2>3. plain \in Seq(String)
    BY <1>1, <1>4
  <2>4. \A m \in DOMAIN t : m # q => next[m] = t[m]
    OBVIOUS
  <2> HIDE DEF plain, next
  <2>5. QED
    BY <2>1, <2>2, <2>3, <2>4
<1> HIDE DEF plain, others
<1>9. /\ r \in Record /\ r.index = q /\ r.slot = Address(plain, q) /\ r.cell = cell
      /\ r.group = 0 /\ r.spelling = NULL /\ Describes(r, node)
  BY <1>4, <1>8, NewRecordFacts
<1>10. NewRecord(next, q) = r /\ Address(next, q) = Address(plain, q)
  BY <1>4, <1>5, <1>8 DEF NewRecord, Address
<1> HIDE DEF next, r
<1>11. /\ Holds(plain, prepared) /\ Range(prepared) = Range(others) \cup {r}
       /\ Len(prepared) = n + 1 /\ n \in Nat /\ DOMAIN prepared = 1..(n + 1)
       /\ prepared[n + 1] = r
  <2>1. r.index \in DOMAIN plain /\ (\A s \in Range(others) : s.index # r.index)
        /\ Describes(r, plain[r.index]) /\ r.slot = Address(plain, r.index)
        /\ r.cell = plain[r.index].cell
    BY <1>4, <1>7, <1>8, <1>9
  <2>2. QED
    BY <1>7, <1>9, <2>1, AppendedRecord
<1> HIDE DEF n, prepared
<1>12. n + 1 \in DOMAIN prepared
  BY <1>11
<1>13. /\ o \in Record /\ o.index = r.index /\ o.slot = r.slot /\ o.cell = r.cell
       /\ o.original = r.original /\ o.present = r.present /\ o.group = r.group
       /\ o.spelling = name.due
  BY <1>3, <1>9 DEF Record
<1> HIDE DEF o
<1>14. StandsFor(w, node) /\ RecordStandsFor(o, r, w)
  BY <1>3, <1>4, <1>5, <1>9, <1>13 DEF StandsFor, RecordStandsFor
<1>15. Holds([plain EXCEPT ![prepared[n + 1].index] = w], [prepared EXCEPT ![n + 1] = o])
  <2>1. prepared[n + 1].index = q /\ w.cell = node.cell /\ w.kind # "relation"
    BY <1>4, <1>5, <1>9, <1>11
  <2>2. /\ StandsFor(w, plain[prepared[n + 1].index])
        /\ RecordStandsFor(o, prepared[n + 1], w)
        /\ w.cell = plain[prepared[n + 1].index].cell
    BY <1>8, <1>11, <1>14, <2>1
  <2>3. QED
    BY <1>11, <1>12, <2>1, <2>2, ChangedHolds
<1>16. Holds(next, out)
  BY <1>8, <1>9, <1>11, <1>15
<1>17. Rebind(next, others) = others
  <2>1. TreeIsWhole(next)
    BY <1>16 DEF Holds
  <2>2. /\ others \in Seq(Record) /\ RecordsAreDistinct(others)
        /\ \A s \in Range(others) : s.index \in DOMAIN plain /\ s.slot = Address(plain, s.index)
                                    /\ s.cell = plain[s.index].cell
    BY <1>7 DEF Holds, Follow, BoundIn
  <2>3. \A m \in DOMAIN t : m # q => plain[m] = t[m]
    BY <1>1 DEF plain
  <2>4. \A s \in Range(others) : s.index \in DOMAIN next /\ next[s.index] = plain[s.index]
    BY <1>7, <1>8, <2>2, <2>3
  <2>5. BoundIn(Range(others), next)
    BY <2>2, <2>4 DEF BoundIn, Address
  <2>6. QED
    BY <2>1, <2>2, <2>4, <2>5, RebindBound
<1>18. Prepare(next, others, q) = prepared
  <2>1. \A j \in DOMAIN others : others[j] \in Range(others)
    BY DEF Range
  <2>2. \A s \in Range(others) : s.index \in DOMAIN plain /\ s.slot = Address(plain, s.index)
    BY <1>7 DEF Holds, Follow, BoundIn
  <2>3. \A m \in DOMAIN plain : Address(plain, m) = Address(plain, q) => m = q
    BY <1>7, <1>8 DEF Holds, TreeIsWhole, AddressesDiffer, Address
  <2>4. RecordsOf(next, others, q) = {}
    BY <1>7, <1>10, <2>1, <2>2, <2>3 DEF RecordsOf
  <2>5. QED
    BY <1>10, <2>4 DEF Prepare, prepared
<1>19. RecordIndex(next, prepared, q) = n + 1
  <2>1. RecordIndex(plain, prepared, q) = n + 1
    BY <1>8, <1>9, <1>11, <1>12, RecordsOfString
  <2>2. RecordIndex(next, prepared, q) = RecordIndex(plain, prepared, q)
    BY <1>10 DEF RecordIndex, RecordsOf
  <2>3. QED
    BY <2>1, <2>2
<1>20. [prepared EXCEPT ![n + 1].spelling = name.due] = out
  BY <1>11, <1>12 DEF o
<1> HIDE DEF out
<1>21. Requalify(t, recs, q, name, name.due) = [tree |-> next, records |-> out]
  BY <1>17, <1>18, <1>19, <1>20 DEF Requalify, others, gone, next, w, node, id, cell
<1>22. \A m \in DOMAIN t : next[m].kind = t[m].kind
  BY <1>5, <1>8
<1>23. QED
  BY <1>8, <1>16, <1>21, <1>22

\* All bound columns qualified anew, node by node.
LEMMA RequalifyAllHolds ==
  ASSUME NEW t, NEW recs, Holds(t, recs), NEW columns,
         \A q \in columns : q \in DOMAIN t => t[q].kind = "qualifier",
         NEW name \in String, name.due.of = name.text
  PROVE  LET after == RequalifyAll(t, recs, columns, name, name.due)
         IN  Holds(after.tree, after.records)
<1> DEFINE n == Len(t)
           start == [tree |-> t, records |-> recs]
           G == {v \in [tree : Seq(String), records : Seq(Record)] :
                   /\ Holds(v.tree, v.records) /\ DOMAIN v.tree = DOMAIN t
                   /\ \A m \in DOMAIN t : v.tree[m].kind = t[m].kind}
           go(v, k) == IF k \in columns THEN Requalify(v.tree, v.records, k, name, name.due) ELSE v
           step == [k \in 1..n |-> [v \in G |-> go(v, k)]]
           Defined(f) == f = [k \in 0..n |-> IF k = 0 THEN start
                                             ELSE IF k \in columns
                                             THEN Requalify(f[k - 1].tree, f[k - 1].records, k,
                                                            name, name.due)
                                             ELSE f[k - 1]]
<1>1. n \in Nat /\ DOMAIN t = 1..n /\ t \in Seq(String) /\ recs \in Seq(Record)
  BY DEF Holds, TreeIsWhole
<1> HIDE DEF n
<1>2. start \in G
  BY <1>1
<1>3. ASSUME NEW v \in G, NEW k \in 1..n, k \in columns
      PROVE  Requalify(v.tree, v.records, k, name, name.due) \in G
  <2> DEFINE u == v.tree
             o == v.records
             after == Requalify(u, o, k, name, name.due)
  <2>1. /\ Holds(u, o) /\ DOMAIN u = DOMAIN t /\ k \in DOMAIN u /\ u[k].kind = "qualifier"
        /\ \A m \in DOMAIN t : u[m].kind = t[m].kind
    BY <1>1, <1>3
  <2>2. \E x, y : after = [tree |-> x, records |-> y]
    BY DEF Requalify
  <2> HIDE DEF u, o
  <2>3. /\ Holds(after.tree, after.records) /\ DOMAIN after.tree = DOMAIN u
        /\ \A m \in DOMAIN u : after.tree[m].kind = u[m].kind
    BY <2>1, RequalifyHolds
  <2> HIDE DEF after
  <2>4. after.tree \in Seq(String) /\ after.records \in Seq(Record)
    BY <2>3 DEF Holds, TreeIsWhole
  <2>5. after \in [tree : Seq(String), records : Seq(Record)]
    BY <2>2, <2>4
  <2>6. after \in G
    BY <2>1, <2>3, <2>5
  <2>7. QED
    BY <2>6 DEF after, u, o
<1>4. step \in [1..n -> [G -> G]]
  <2>1. ASSUME NEW k \in 1..n, NEW v \in G PROVE go(v, k) \in G
    <3> HIDE DEF G
    <3>1. CASE k \in columns
      BY <1>3, <3>1
    <3>2. CASE k \notin columns
      BY <3>2
    <3>3. QED
      BY <3>1, <3>2
  <2> HIDE DEF G, go
  <2>2. QED
    BY <2>1
<1> HIDE DEF G
<1>5. PICK g : Stepwise(g, start, n, step, G)
  <2> HIDE DEF start, step
  <2>1. QED
    BY <1>1, <1>2, <1>4, StepwiseExists
<1>6. Defined(g)
  <2>1. g \in [0..n -> G] /\ g[0] = start /\ \A k \in 1..n : g[k] = step[k][g[k - 1]]
    BY <1>5 DEF Stepwise
  <2> HIDE DEF start
  <2>2. \A k \in 1..n : g[k] = go(g[k - 1], k)
    <3>1. ASSUME NEW k \in 1..n PROVE k - 1 \in 0..n /\ g[k - 1] \in G
      BY <1>1, <2>1
    <3> HIDE DEF go
    <3>2. QED
      BY <2>1, <3>1
  <2>3. g = [k \in 0..n |-> g[k]]
    BY <2>1
  <2>4. \A k \in 0..n : k = 0 \/ k \in 1..n
    BY <1>1
  <2> HIDE DEF step
  <2>5. \A k \in 0..n : g[k] = IF k = 0 THEN start
                               ELSE IF k \in columns
                               THEN Requalify(g[k - 1].tree, g[k - 1].records, k, name, name.due)
                               ELSE g[k - 1]
    BY <2>1, <2>2, <2>4
  <2>6. QED
    BY <2>3, <2>5
<1> DEFINE f == CHOOSE f : Defined(f)
<1>7. Defined(f)
  BY <1>6
<1>8. RequalifyAll(t, recs, columns, name, name.due) = f[n]
  BY DEF RequalifyAll, n
<1> HIDE DEF f
<1>9. f[0] = start /\ \A k \in 1..n : f[k] = go(f[k - 1], k)
  <2> HIDE DEF start
  <2>1. \A k \in 0..n : f[k] = IF k = 0 THEN start
                               ELSE IF k \in columns
                               THEN Requalify(f[k - 1].tree, f[k - 1].records, k, name, name.due)
                               ELSE f[k - 1]
    BY <1>7
  <2>2. 0 \in 0..n /\ \A k \in 1..n : k \in 0..n /\ k # 0
    BY <1>1
  <2>3. QED
    BY ONLY <2>1, <2>2
<1>10. \A k \in 1..n : f[k - 1] \in G => f[k] = step[k][f[k - 1]]
  <2> HIDE DEF go
  <2>1. QED
    BY <1>9
<1> HIDE DEF start, step, go
<1>11. \A k \in 0..n : f[k] \in G
  BY <1>1, <1>2, <1>4, <1>9, <1>10, StepwiseTyped
<1>12. f[n] \in G
  BY <1>1, <1>11
<1>13. QED
  BY <1>8, <1>12 DEF G

\* A record is its fields.
LEMMA SameRecord ==
  ASSUME NEW r \in Record, NEW s \in Record,
         r.index = s.index, r.group = s.group, r.slot = s.slot, r.cell = s.cell,
         r.original = s.original, r.present = s.present, r.spelling = s.spelling
  PROVE  r = s
<1>1. r = [index |-> r.index, group |-> r.group, slot |-> r.slot, cell |-> r.cell,
           original |-> r.original, present |-> r.present, spelling |-> r.spelling]
  BY DEF Record
<1>2. s = [index |-> s.index, group |-> s.group, slot |-> s.slot, cell |-> s.cell,
           original |-> s.original, present |-> s.present, spelling |-> s.spelling]
  BY DEF Record
<1>3. QED
  BY ONLY <1>1, <1>2, r.index = s.index, r.group = s.group, r.slot = s.slot, r.cell = s.cell,
          r.original = s.original, r.present = s.present, r.spelling = s.spelling

\* The record of a part as the patch writes it.
InGroup(r, g) == [r EXCEPT !.group = g]
Made(u, m, r, g, spelling) ==
  [BoundTo(u, r, m) EXCEPT !.index = r.index, !.group = g, !.spelling = spelling]
SpellingAfter(r, s, value, given) ==
  IF s.text # value \/ given THEN GivenSpelling(value, given) ELSE r.spelling

\* The string at m is the new one, or that of the record.
CellIs(u, m, r, s, value, cell, given) ==
  u[m].cell = IF s.text # value \/ given THEN cell ELSE r.cell

\* The record that the patch makes in one go is the one made step by step: put in its
\* group, then given the new string and spelling.
LEMMA RecordMade ==
  ASSUME NEW u \in Seq(String), NEW m \in DOMAIN u, NEW r \in Record,
         r.index = m, r.slot = Address(u, m), NEW g \in Nat,
         NEW s, NEW value \in Texts, NEW given \in BOOLEAN, NEW cell,
         CellIs(u, m, r, s, value, cell, given)
  PROVE  /\ Made(u, m, r, g, SpellingAfter(r, s, value, given))
              = RecordAfter(InGroup(r, g), s, value, cell, given)
         /\ RecordAfter(InGroup(r, g), s, value, cell, given).spelling
              = SpellingAfter(r, s, value, given)
         /\ BoundTo(u, r, m).spelling = r.spelling
<1> DEFINE b == BoundTo(u, r, m)
           spelling == SpellingAfter(r, s, value, given)
           x == Made(u, m, r, g, spelling)
           y == InGroup(r, g)
           z == RecordAfter(y, s, value, cell, given)
<1>1. /\ b \in Record /\ b.index = m /\ b.slot = Address(u, m) /\ b.cell = u[m].cell
      /\ b.group = r.group /\ b.original = r.original
      /\ b.present = r.present /\ b.spelling = r.spelling
  BY BoundToFacts
<1>2. /\ r.index \in Nat \ {0} /\ r.slot \in (Nat \X Nat) \cup {NULL} /\ u[m].cell \in Nat \cup {NULL}
      /\ r.spelling \in Spelling \cup {NULL}
  BY StringFacts DEF Record
<1>3. GivenSpelling(value, given) \in Spelling \cup {NULL}
  BY DEF GivenSpelling, Spell, Spelling, Forms
<1>4. spelling \in Spelling \cup {NULL}
  BY <1>2, <1>3 DEF SpellingAfter
<1>5. x = [b EXCEPT !.index = r.index, !.group = g, !.spelling = spelling]
  BY DEF Made
<1> HIDE DEF b, x, spelling
<1>6. /\ x \in Record /\ x.index = m /\ x.slot = Address(u, m) /\ x.cell = u[m].cell
      /\ x.group = g /\ x.original = r.original
      /\ x.present = r.present /\ x.spelling = spelling
  BY <1>1, <1>2, <1>4, <1>5 DEF Record
<1>7. /\ y \in Record /\ y.index = r.index /\ y.slot = r.slot /\ y.cell = r.cell
      /\ y.group = g /\ y.original = r.original
      /\ y.present = r.present /\ y.spelling = r.spelling
  BY DEF Record, InGroup
<1> HIDE DEF y
<1>8. /\ z \in Record /\ z.index = y.index /\ z.slot = r.slot /\ z.cell = u[m].cell
      /\ z.group = y.group /\ z.original = y.original
      /\ z.present = y.present /\ z.spelling = spelling
  <2>1. CASE s.text # value \/ given
    <3>1. z = [y EXCEPT !.slot = r.slot, !.cell = u[m].cell, !.spelling = spelling]
      BY <1>7, <2>1 DEF RecordAfter, Respelled, SpellingAfter, spelling, CellIs
    <3> HIDE DEF z
    <3>2. QED
      BY <1>2, <1>4, <1>7, <3>1 DEF Record
  <2>2. CASE ~(s.text # value \/ given)
    <3>1. z = y /\ spelling = r.spelling /\ u[m].cell = r.cell
      BY <2>2 DEF RecordAfter, SpellingAfter, spelling, CellIs
    <3> HIDE DEF z
    <3>2. QED
      BY <1>7, <3>1
  <2>3. QED
    BY <2>1, <2>2
<1> HIDE DEF z
<1>9. x = z
  BY <1>6, <1>7, <1>8, SameRecord
<1>10. QED
  BY <1>1, <1>8, <1>9 DEF x, y, z, b, spelling

\* Both strings of the relation have records once they are prepared.
LEMMA PreparedRelation ==
  ASSUME NEW t, NEW recs, Holds(t, recs), NEW k \in DOMAIN t,
         t[k].kind = "relation", t[k].part = 1
  PROVE  LET p == Prepare(t, Prepare(t, recs, k), k + 1)
         IN  /\ Holds(t, p)
             /\ AreOfRelation(t, p, k, RecordIndex(t, p, k), RecordIndex(t, p, k + 1))
<1> DEFINE p1 == Prepare(t, recs, k)
           a == RecordIndex(t, p1, k)
           p == Prepare(t, p1, k + 1)
           b == RecordIndex(t, p, k + 1)
<1>1. k + 1 \in DOMAIN t
  BY NodeOfRelation DEF Holds
<1>2. Holds(t, p1) /\ a \in DOMAIN p1 /\ p1[a].index = k
  BY PrepareFacts
<1> HIDE DEF p1, a
<1>3. /\ Holds(t, p) /\ b \in DOMAIN p /\ p[b].index = k + 1
      /\ \A j \in DOMAIN p1 : j \in DOMAIN p /\ p[j] = p1[j]
  BY <1>1, <1>2, PrepareFacts
<1> HIDE DEF p, b
<1>4. a \in DOMAIN p /\ p[a].index = k
  BY <1>2, <1>3
<1>5. RecordIndex(t, p, k) = a
  BY <1>3, <1>4, RecordsOfString
<1>6. AreOfRelation(t, p, k, a, b)
  BY <1>3, <1>4 DEF AreOfRelation
<1>7. QED
  BY <1>3, <1>5, <1>6 DEF p, p1, b

\* sqlparser_replace_relation_and_bound_qualifiers: schema and name with one group,
\* records dropped if all is undone, then each column qualified with the relation.
LEMMA SetRelationKeeps ==
  ASSUME MutationsInvariant, Admitted = {}, NEW k \in DOMAIN tree, NEW given \in BOOLEAN,
         tree[k].kind = "relation", tree[k].part = 1,
         NEW schema \in Schemas \cup {NoText}, NEW nm \in Names,
         SetRelation(k, <<schema, nm>>, given)
  PROVE  MutationsInvariant'
<1> DEFINE values == <<schema, nm>>
           spelled == [p \in 1..2 |-> given /\ values[p] # NoText]
           changed == {p \in 1..2 : tree[k + p - 1].text # values[p] \/ spelled[p]}
           prepared == Prepare(tree, Prepare(tree, records, k), k + 1)
           at == [p \in 1..2 |-> RecordIndex(tree, prepared, k + p - 1)]
           mine == {at[1], at[2]}
           group == GroupOf(prepared, mine)
           undone == \A p \in 1..2 : prepared[at[p]].original = values[p] /\ ~spelled[p]
           first == IF 1 \in changed THEN LowestFree(Cells(tree)) ELSE tree[k].cell
           second == IF 2 \in changed THEN LowestFree(Cells(tree) \cup {first}) ELSE tree[k + 1].cell
           written == [tree EXCEPT
             ![k] = IF 1 \in changed THEN Changed(@, values[1], first, spelled[1]) ELSE @,
             ![k + 1] = IF 2 \in changed THEN Changed(@, values[2], second, spelled[2]) ELSE @]
           replaced == [j \in DOMAIN prepared |->
             IF j \notin mine THEN prepared[j]
             ELSE LET p == IF j = at[1] THEN 1 ELSE 2
                  IN  [BoundTo(written, prepared[j], k + p - 1) EXCEPT
                         !.index = prepared[j].index,
                         !.group = group,
                         !.spelling = IF p \notin changed THEN @
                                      ELSE IF spelled[p] THEN Spell("given", values[p]) ELSE NULL]]
           kept == IF undone THEN Without(replaced, mine) ELSE replaced
           spelling == OutputSpelling(written, kept, k + 1)
           requalified == RequalifyAll(written, kept, BoundQualifiers(tree, k + 1),
                                       written[k + 1], spelling)
<1>1. Patching /\ loaded /\ steps < MaxSteps
  BY DEF SetRelation, Patching
<1>2. Holds(tree, records) /\ tree \in Seq(String) /\ TreeIsWhole(tree)
  BY <1>1, InvariantHolds DEF Holds, TreeIsWhole
<1>3. /\ ~given => tree[k].location # "fragment"
      /\ undone /\ (\E p \in {1, 2} \ changed : prepared[at[p]].spelling # NULL) => FALSE
      /\ IF Cardinality({prepared[j].group : j \in mine} \ {0}) > 1
         THEN status' = "internal_error" /\ UNCHANGED <<tree, records>>
         ELSE /\ tree' = requalified.tree
              /\ records' = Rebind(requalified.tree, requalified.records)
              /\ UNCHANGED status
      /\ steps' = steps + 1
      /\ UNCHANGED <<loaded, backing>>
  BY DEF SetRelation
<1> DEFINE a == at[1]
           b == at[2]
           g1 == spelled[1]
           g2 == spelled[2]
           c1 == tree[k].text # schema \/ g1
           c2 == tree[k + 1].text # nm \/ given
<1>4. /\ k + 1 \in DOMAIN tree /\ tree[k + 1].kind = "relation" /\ tree[k + 1].part = 2
      /\ k # k + 1 /\ k \in Nat /\ k + 1 - 1 = k /\ k + 2 - 1 = k + 1
  BY <1>2, NodeOfRelation
<1>5. Holds(tree, prepared) /\ AreOfRelation(tree, prepared, k, a, b)
  BY <1>2, <1>4, PreparedRelation
<1>6. /\ nm # NoText /\ nm \in Texts /\ schema \in Texts
      /\ g1 \in BOOLEAN /\ (g1 <=> given /\ schema # NoText) /\ (g2 <=> given)
      /\ g2 \in BOOLEAN
  <2>1. nm # NoText /\ nm \in Texts /\ schema \in Texts
    BY NamesAssumption DEF Texts
  <2>2. values[1] = schema /\ values[2] = nm
    OBVIOUS
  <2> HIDE DEF values
  <2>3. spelled[1] = (given /\ schema # NoText) /\ spelled[2] = (given /\ nm # NoText)
    BY <2>2
  <2> HIDE DEF spelled
  <2>4. QED
    BY <2>1, <2>3
<1>7. (1 \in changed <=> c1) /\ (2 \in changed <=> c2) /\ changed \in SUBSET {1, 2}
  BY <1>4, <1>6
<1>8. /\ first \in Nat /\ second \in Nat
      /\ (c1 => first \notin Cells(tree) /\ first # second)
      /\ (c2 => second \notin Cells(tree))
      /\ (~c1 => first = tree[k].cell) /\ (~c2 => second = tree[k + 1].cell)
  <2>1. tree[k].cell \in Nat /\ tree[k + 1].cell \in Nat /\ tree[k + 1].cell \in Cells(tree)
    BY <1>2, <1>4, StringFacts DEF Cells
  <2> HIDE DEF changed
  <2>2. LowestFree(Cells(tree)) \in Nat /\ LowestFree(Cells(tree)) \notin Cells(tree)
    BY <1>2, FiniteAddresses, LowestFreeFacts
  <2>3. first \in Nat /\ (c1 => first \notin Cells(tree)) /\ (~c1 => first = tree[k].cell)
    BY <1>7, <2>1, <2>2
  <2> HIDE DEF first
  <2>4. IsFiniteSet(Cells(tree) \cup {first})
    BY <1>2, FiniteAddresses
  <2>5. /\ LowestFree(Cells(tree) \cup {first}) \in Nat
        /\ LowestFree(Cells(tree) \cup {first}) \notin Cells(tree) \cup {first}
    BY <2>4, LowestFreeFacts
  <2>6. second \in Nat /\ (c2 => second \notin Cells(tree) /\ second # first)
        /\ (~c2 => second = tree[k + 1].cell)
    BY <1>7, <2>1, <2>5
  <2>7. QED
    BY <2>1, <2>3, <2>6
<1>9. mine = {a, b}
  OBVIOUS
<1>10. \A p \in 1..2 : values[p] = IF p = 1 THEN schema ELSE nm
  OBVIOUS
<1>11. written = RelationTree(tree, k, schema, first, g1, nm, second, given)
  <2>1. (IF 1 \in changed THEN Changed(tree[k], values[1], first, spelled[1]) ELSE tree[k])
          = PartAfter(tree[k], schema, first, g1)
    BY <1>7 DEF PartAfter
  <2>2. (IF 2 \in changed THEN Changed(tree[k + 1], values[2], second, spelled[2]) ELSE tree[k + 1])
          = PartAfter(tree[k + 1], nm, second, given)
    <3>1. spelled[2] = given
      BY <1>6
    <3>2. QED
      BY <1>7, <3>1 DEF PartAfter
  <2> HIDE DEF first, second, changed, spelled, values
  <2>3. QED
    BY <1>4, <2>1, <2>2 DEF RelationTree
<1> DEFINE grouped == Regrouped(prepared, {a, b}, group)
           out == RelationRecords(tree, grouped, k, a, b, schema, first, g1, nm, second, given)
<1>12. /\ prepared \in Seq(Record) /\ a \in DOMAIN prepared /\ b \in DOMAIN prepared
       /\ prepared[a].index = k /\ prepared[b].index = k + 1 /\ a # b
       /\ prepared[a] \in Record /\ prepared[b] \in Record
       /\ prepared[a].slot = Address(tree, k) /\ prepared[a].cell = tree[k].cell
       /\ prepared[b].slot = Address(tree, k + 1) /\ prepared[b].cell = tree[k + 1].cell
       /\ Describes(prepared[a], tree[k]) /\ Describes(prepared[b], tree[k + 1])
  <2> HIDE DEF prepared, at
  <2>1. /\ prepared \in Seq(Record) /\ a \in DOMAIN prepared /\ b \in DOMAIN prepared
        /\ prepared[a].index = k /\ prepared[b].index = k + 1
    BY <1>5 DEF Holds, AreOfRelation
  <2>2. a # b
    BY <1>4, <2>1
  <2>3. QED
    BY <1>5, <2>1, <2>2, RecordAt
<1>13. /\ group \in Nat \ {0}
       /\ {prepared[j].group : j \in mine} \ {0} \in SUBSET {group}
       /\ Holds(tree, grouped)
  <2> HIDE DEF prepared, at
  <2>1. group = GroupOf(prepared, {a, b}) /\ mine = {a, b}
    OBVIOUS
  <2> HIDE DEF group, mine
  <2>2. QED
    BY <1>5, <2>1, RelationGroup, RegroupedHolds
<1> HIDE DEF prepared, at, spelled, changed, values, first, second, group, undone
<1>14. /\ DOMAIN grouped = DOMAIN prepared
       /\ grouped[a] = [prepared[a] EXCEPT !.group = group]
       /\ grouped[b] = [prepared[b] EXCEPT !.group = group]
       /\ \A j \in DOMAIN prepared : j \notin mine => grouped[j] = prepared[j]
  BY <1>12 DEF Regrouped
<1>15. /\ [prepared[a] EXCEPT !.group = group].index = k
       /\ [prepared[b] EXCEPT !.group = group].index = k + 1
       /\ [prepared[a] EXCEPT !.group = group].slot = prepared[a].slot
       /\ [prepared[b] EXCEPT !.group = group].slot = prepared[b].slot
  BY <1>12, <1>13 DEF Record
<1>16. AreOfRelation(tree, grouped, k, a, b)
  BY <1>12, <1>14, <1>15 DEF AreOfRelation
<1> HIDE DEF grouped
<1>17. /\ Holds(written, out) /\ DOMAIN written = DOMAIN tree /\ DOMAIN out = DOMAIN prepared
       /\ written[k].text = schema /\ written[k + 1].text = nm
       /\ out[a].index = k /\ out[b].index = k + 1
       /\ written[k].cell = (IF c1 THEN first ELSE tree[k].cell)
       /\ written[k + 1].cell = (IF c2 THEN second ELSE tree[k + 1].cell)
       /\ \A m \in DOMAIN tree : /\ written[m].kind = tree[m].kind /\ written[m].part = tree[m].part
                                 /\ written[m].first = tree[m].first /\ written[m].id = tree[m].id
  <2> DEFINE u == RelationTree(tree, k, schema, first, g1, nm, second, given)
  <2>1. /\ ~given => tree[k].location # "fragment"
        /\ g1 \in BOOLEAN /\ (g1 <=> given /\ schema # NoText)
        /\ first \in Nat /\ second \in Nat
        /\ (c1 => first \notin Cells(tree)) /\ (c1 => first # second)
        /\ (c2 => second \notin Cells(tree))
        /\ schema \in Texts /\ nm \in Texts
    BY <1>3, <1>6, <1>8
  <2> HIDE DEF written
  <2>2. /\ Holds(u, out) /\ DOMAIN u = DOMAIN tree /\ DOMAIN out = DOMAIN grouped
        /\ u[k].text = schema /\ u[k + 1].text = nm
        /\ out[a].index = k /\ out[b].index = k + 1
        /\ u[k].cell = (IF c1 THEN first ELSE tree[k].cell)
        /\ u[k + 1].cell = (IF c2 THEN second ELSE tree[k + 1].cell)
        /\ \A m \in DOMAIN tree : /\ u[m].kind = tree[m].kind /\ u[m].part = tree[m].part
                                  /\ u[m].first = tree[m].first /\ u[m].id = tree[m].id
    BY <1>13, <1>16, <2>1, RelationReplaced
  <2>3. u = written
    BY <1>11
  <2> HIDE DEF u, out
  <2>4. QED
    BY <1>14, <2>2, <2>3
<1> HIDE DEF written
<1>18. written \in Seq(String) /\ TreeIsWhole(written)
  BY <1>17 DEF Holds, TreeIsWhole
<1> DEFINE made(p, r) == [BoundTo(written, r, k + p - 1) EXCEPT
                            !.index = r.index,
                            !.group = group,
                            !.spelling = IF p \notin changed THEN @
                                         ELSE IF spelled[p] THEN Spell("given", values[p]) ELSE NULL]
<1>19. \A j \in DOMAIN prepared :
         replaced[j] = IF j \notin mine THEN prepared[j] ELSE made(IF j = a THEN 1 ELSE 2, prepared[j])
  BY <1>9
<1>20. /\ made(1, prepared[a]) = out[a]
       /\ out[a].spelling = SpellingAfter(prepared[a], tree[k], schema, g1)
  <2> DEFINE r == prepared[a]
             s == tree[k]
             spelling1 == SpellingAfter(r, s, schema, g1)
             x == RecordAfter(InGroup(r, group), s, schema, first, g1)
  <2>1. /\ r \in Record /\ r.index = k /\ k \in DOMAIN written /\ group \in Nat
        /\ r.slot = Address(written, k)
        /\ CellIs(written, k, r, s, schema, first, g1)
    BY <1>12, <1>13, <1>17 DEF Address, CellIs
  <2>2. out[a] = x
    BY <1>12, <1>14 DEF RelationRecords, InGroup
  <2> HIDE DEF r, s, out
  <2>3. /\ Made(written, k, r, group, spelling1) = x /\ x.spelling = spelling1
        /\ BoundTo(written, r, k).spelling = r.spelling
    BY <1>6, <1>18, <2>1, RecordMade
  <2>4. (IF 1 \notin changed THEN BoundTo(written, r, k).spelling
         ELSE IF spelled[1] THEN Spell("given", values[1]) ELSE NULL) = spelling1
    BY <1>7, <1>10, <2>3 DEF SpellingAfter, GivenSpelling, s
  <2>5. made(1, r) = Made(written, k, r, group, spelling1)
    BY <1>4, <2>4 DEF Made
  <2> HIDE DEF made, x, spelling1
  <2>6. QED
    BY <2>2, <2>3, <2>5 DEF r, s, spelling1
<1>21. /\ made(2, prepared[b]) = out[b]
       /\ out[b].spelling = SpellingAfter(prepared[b], tree[k + 1], nm, given)
  <2> DEFINE r == prepared[b]
             s == tree[k + 1]
             spelling2 == SpellingAfter(r, s, nm, given)
             x == RecordAfter(InGroup(r, group), s, nm, second, given)
  <2>1. /\ r \in Record /\ r.index = k + 1 /\ k + 1 \in DOMAIN written /\ group \in Nat
        /\ r.slot = Address(written, k + 1)
        /\ CellIs(written, k + 1, r, s, nm, second, given)
    BY <1>4, <1>12, <1>13, <1>17 DEF Address, CellIs
  <2>2. out[b] = x
    BY <1>12, <1>14 DEF RelationRecords, InGroup
  <2> HIDE DEF r, s, out
  <2>3. /\ Made(written, k + 1, r, group, spelling2) = x /\ x.spelling = spelling2
        /\ BoundTo(written, r, k + 1).spelling = r.spelling
    BY <1>6, <1>18, <2>1, RecordMade
  <2>4. (IF 2 \notin changed THEN BoundTo(written, r, k + 1).spelling
         ELSE IF spelled[2] THEN Spell("given", values[2]) ELSE NULL) = spelling2
    BY <1>6, <1>7, <1>10, <2>3 DEF SpellingAfter, GivenSpelling, s
  <2>5. made(2, r) = Made(written, k + 1, r, group, spelling2)
    BY <1>4, <2>4 DEF Made
  <2> HIDE DEF made, x, spelling2
  <2>6. QED
    BY <2>2, <2>3, <2>5 DEF r, s, spelling2
<1>22. replaced = out
  <2>1. ASSUME NEW j \in DOMAIN prepared PROVE replaced[j] = out[j]
    <3> HIDE DEF made, replaced
    <3>1. CASE j = a
      BY <1>9, <1>12, <1>19, <1>20, <3>1
    <3>2. CASE j = b
      BY <1>9, <1>12, <1>19, <1>21, <3>2
    <3>3. CASE j # a /\ j # b
      <4>1. j \notin mine /\ replaced[j] = prepared[j]
        BY <1>19, <3>3
      <4>2. out[j] = grouped[j]
        BY <1>14, <3>3 DEF RelationRecords
      <4>3. QED
        BY <1>14, <4>1, <4>2
    <3>4. QED
      BY <3>1, <3>2, <3>3
  <2>2. DOMAIN replaced = DOMAIN prepared /\ replaced = [j \in DOMAIN prepared |-> replaced[j]]
    OBVIOUS
  <2>3. out \in Seq(Record)
    BY <1>17 DEF Holds
  <2>4. out = [j \in DOMAIN prepared |-> out[j]]
    BY <1>17, <2>3
  <2> HIDE DEF replaced, out
  <2>5. QED
    BY <2>1, <2>2, <2>4
<1> HIDE DEF replaced, made, out
<1>23. Holds(written, kept)
  <2>1. CASE ~undone
    BY <1>17, <1>22, <2>1
  <2>2. CASE undone
    <3>1. /\ prepared[a].original = schema /\ ~g1 /\ prepared[b].original = nm /\ ~given
      <4>1. \A p \in 1..2 : prepared[at[p]].original = values[p] /\ ~spelled[p]
        BY <2>2 DEF undone
      <4>2. 1 \in 1..2 /\ 2 \in 1..2
        OBVIOUS
      <4>3. QED
        BY <1>6, <1>10, <4>1, <4>2
    <3>2. out[a].spelling = NULL /\ out[b].spelling = NULL
      <4>1. ~c1 => prepared[a].spelling = NULL
        BY <1>3, <1>7, <2>2
      <4>2. ~c2 => prepared[b].spelling = NULL
        BY <1>3, <1>7, <2>2
      <4>3. QED
        BY <1>20, <1>21, <3>1, <4>1, <4>2 DEF SpellingAfter, GivenSpelling
    <3>3. /\ written[out[a].index].text = written[out[a].index].first
          /\ written[out[b].index].text = written[out[b].index].first
      <4>1. k \in DOMAIN tree /\ k + 1 \in DOMAIN tree
        BY ONLY <1>4
      <4>2. /\ prepared[a].original = tree[k].first
            /\ prepared[b].original = tree[k + 1].first
        BY ONLY <1>12 DEF Describes
      <4>3. written[k].first = schema /\ written[k + 1].first = nm
        BY ONLY <1>17, <3>1, <4>1, <4>2
      <4>4. /\ out[a].index = k /\ out[b].index = k + 1
            /\ written[k].text = schema /\ written[k + 1].text = nm
        BY ONLY <1>17
      <4>5. QED
        BY ONLY <4>3, <4>4
    <3>4. \A j \in mine : /\ written[out[j].index].text = written[out[j].index].first
                          /\ out[j].spelling = NULL
      BY <3>2, <3>3
    <3>5. ASSUME NEW i \in DOMAIN out, NEW j \in DOMAIN out, i \in mine, out[i].group # 0,
                 out[j].group = out[i].group
          PROVE  j \in mine
      <4>1. out[i].index \in {k, k + 1}
        BY <1>17, <3>5
      <4>2. out[i] \in Range(out) /\ out[j] \in Range(out) /\ out[j].index \in DOMAIN written
        BY <1>17, RecordAt
      <4>3. written[out[j].index].id = written[out[i].index].id
        BY <1>17, <3>5, <4>2 DEF Holds, Follow, GroupsAgree
      <4>4. /\ written[k + 1].id = written[k].id
            /\ \A m \in DOMAIN written : written[m].id = written[k].id => m = k \/ m = k + 1
        BY <1>17, <1>18, NodeOfRelation
      <4>5. out[j].index = k \/ out[j].index = k + 1
        BY <4>1, <4>2, <4>3, <4>4
      <4>6. a \in DOMAIN out /\ b \in DOMAIN out
        BY <1>12, <1>17
      <4>7. j = a \/ j = b
        BY <1>17, <4>5, <4>6 DEF Holds, RecordsAreDistinct
      <4>8. QED
        BY <4>7
    <3>6. mine \in SUBSET DOMAIN out
      BY <1>12, <1>17
    <3> HIDE DEF mine
    <3>7. Holds(written, Without(out, mine))
      BY <1>17, <3>4, <3>5, <3>6, DroppedHolds
    <3>8. QED
      BY <1>22, <2>2, <3>7
  <2>3. QED
    BY <2>1, <2>2
<1> HIDE DEF kept
<1> DEFINE name == written[k + 1]
           columns == BoundQualifiers(tree, k + 1)
<1>24. /\ name \in String /\ spelling = name.due /\ name.due.of = name.text
  <2>1. k + 1 \in DOMAIN written /\ name.text # NoText
    BY <1>4, <1>6, <1>17
  <2>2. name \in String
    BY <1>18, <2>1
  <2>3. QED
    BY <1>23, <2>1, <2>2, DueFacts, OutputFacts
<1>25. \A q \in columns : q \in DOMAIN written => written[q].kind = "qualifier"
  BY <1>17 DEF BoundQualifiers
<1> HIDE DEF name, columns, spelling
<1>26. Holds(requalified.tree, requalified.records)
  <2>1. requalified = RequalifyAll(written, kept, columns, name, name.due)
    BY <1>24 DEF name, columns
  <2> HIDE DEF requalified
  <2>2. QED
    BY <1>23, <1>24, <1>25, <2>1, RequalifyAllHolds
<1> HIDE DEF requalified
<1>27. Rebind(requalified.tree, requalified.records) = requalified.records
  <2> DEFINE u == requalified.tree
             o == requalified.records
  <2>1. /\ TreeIsWhole(u) /\ o \in Seq(Record) /\ RecordsAreDistinct(o) /\ BoundIn(Range(o), u)
        /\ \A r \in Range(o) : r.index \in DOMAIN u
    BY <1>26 DEF Holds, Follow
  <2> HIDE DEF u, o
  <2>2. Rebind(u, o) = o
    BY <2>1, RebindBound
  <2>3. QED
    BY <2>2 DEF u, o
<1>28. ~(Cardinality({prepared[j].group : j \in mine} \ {0}) > 1)
  <2> DEFINE groups == {prepared[j].group : j \in mine} \ {0}
  <2>1. IsFiniteSet({group}) /\ Cardinality({group}) = 1
    BY FS_Singleton
  <2>2. groups \in SUBSET {group}
    BY <1>13
  <2> HIDE DEF groups
  <2>3. Cardinality(groups) <= 1
    BY <2>1, <2>2, FS_Subset
  <2>4. Cardinality(groups) \in Nat
    BY <2>1, <2>2, FS_Subset, FS_CardinalityType
  <2>5. QED
    BY <2>3, <2>4 DEF groups
<1>29. Holds(tree', records') /\ UNCHANGED status
  BY <1>3, <1>26, <1>27, <1>28
<1>30. steps' \in 0..MaxSteps
  BY <1>1, <1>3, BoundAssumption DEF MutationsInvariant
<1>31. QED
  BY <1>1, <1>3, <1>29, <1>30 DEF MutationsInvariant, Holds

-----------------------------------------------------------------------------
(* Structural patches.                                                     *)

\* A string that a fragment brought to t, as the fragment spells it.
IsBrought(s, t) ==
  /\ s.id \notin Ids(t) /\ (s.cell = EmptyCell \/ s.cell \notin Cells(t))
  /\ s.text = s.first /\ s.due = Plain(s)
  /\ s.kind = "relation" /\ s.part = 1 => s.first = NoText

\* u has the strings of t at the positions in P, moved to other ones, names of
\* relations next to their schemas, and strings of a fragment.
AreMoved(t, u, P, to) ==
  /\ P \in SUBSET DOMAIN t /\ to \in [P -> DOMAIN u]
  /\ \A m, i \in P : to[m] = to[i] => m = i
  /\ \A m \in P : /\ u[to[m]] = t[m]
                  /\ t[m].kind = "relation" /\ t[m].part = 1 => m + 1 \in P /\ to[m + 1] = to[m] + 1
  /\ \A k \in DOMAIN u : (\E m \in P : to[m] = k) \/ IsBrought(u[k], t)

\* The records follow their strings to the new positions, and those of removed
\* strings are dropped: the address of their string is no longer in use.
LEMMA MovedHolds ==
  ASSUME NEW t, NEW recs, Holds(t, recs), NEW u, TreeIsWhole(u), NEW P, NEW to,
         AreMoved(t, u, P, to),
         \A j \in DOMAIN recs : recs[j].cell = EmptyCell => recs[j].index \in P
  PROVE  Holds(u, Rebind(u, recs))
<1> DEFINE Q == {j \in DOMAIN recs : recs[j].index \in P}
           place == [j \in Q |-> to[recs[j].index]]
           out == Rebind(u, recs)
           R == Range(recs)
           S == Range(out)
<1>1. /\ P \in SUBSET DOMAIN t /\ to \in [P -> DOMAIN u]
      /\ \A m, i \in P : to[m] = to[i] => m = i
      /\ \A m \in P : u[to[m]] = t[m]
      /\ \A m \in P : t[m].kind = "relation" /\ t[m].part = 1 => m + 1 \in P /\ to[m + 1] = to[m] + 1
      /\ \A k \in DOMAIN u : (\E m \in P : to[m] = k) \/ IsBrought(u[k], t)
  BY DEF AreMoved
<1>2. /\ TreeIsWhole(t) /\ recs \in Seq(Record) /\ RecordsAreDistinct(recs)
      /\ Follow(R, t) /\ BoundIn(R, t) /\ t \in Seq(String) /\ u \in Seq(String)
  BY DEF Holds, TreeIsWhole
<1>3. \A j \in DOMAIN recs :
        /\ recs[j] \in Record /\ recs[j] \in R /\ recs[j].index \in DOMAIN t
        /\ Describes(recs[j], t[recs[j].index])
        /\ recs[j].slot = Address(t, recs[j].index) /\ recs[j].cell = t[recs[j].index].cell
  BY RecordAt
<1>4. place \in [Q -> DOMAIN u] /\ \A j \in Q : place[j] = to[recs[j].index]
  BY <1>1
<1>5. ASSUME NEW j \in Q PROVE FoundAt(u, recs[j]) = {place[j]}
  <2>1. u[place[j]] = t[recs[j].index] /\ place[j] \in DOMAIN u
    BY <1>1, <1>4
  <2>2. recs[j].slot = Address(u, place[j]) /\ recs[j].cell = u[place[j]].cell /\ recs[j] \in Record
    BY <1>3, <2>1 DEF Address
  <2> HIDE DEF place
  <2>3. QED
    BY <2>1, <2>2, FoundExactly
<1>6. ASSUME NEW j \in DOMAIN recs \ Q PROVE FoundAt(u, recs[j]) = {}
  <2> DEFINE r == recs[j]
             i == r.index
             named == {k \in DOMAIN u : u[k].cell = r.cell}
             exact == {k \in named : Address(u, k) = r.slot}
  <2>1. i \in DOMAIN t /\ i \notin P /\ r.cell = t[i].cell /\ r.cell # EmptyCell /\ r.slot # NULL
    BY <1>2, <1>3, StringFacts
  <2>2. ASSUME NEW k \in DOMAIN u, u[k].cell = r.cell PROVE FALSE
    <3>1. CASE \E m \in P : to[m] = k
      <4>1. PICK m \in P : to[m] = k
        BY <3>1
      <4>2. t[m].cell = t[i].cell /\ t[i].cell # EmptyCell
        BY <1>1, <2>1, <2>2, <4>1
      <4>3. m = i
        BY <1>1, <1>2, <2>1, <4>2 DEF TreeIsWhole, AddressesDiffer
      <4>4. QED
        BY <2>1, <4>3
    <3>2. CASE IsBrought(u[k], t)
      <4>1. r.cell \in Cells(t)
        BY <2>1 DEF Cells
      <4>2. QED
        BY <2>1, <2>2, <3>2, <4>1 DEF IsBrought
    <3>3. QED
      BY <1>1, <3>1, <3>2
  <2>3. named = {} /\ exact = {}
    BY <2>2
  <2> HIDE DEF named, exact
  <2>4. FoundAt(u, r) = IF exact # {} THEN exact ELSE named
    BY <2>1 DEF FoundAt, named, exact
  <2>5. QED
    BY <2>3, <2>4
<1> HIDE DEF place
<1>7. \A i, j \in Q : place[i] = place[j] => i = j
  BY <1>1, <1>2, <1>4 DEF RecordsAreDistinct
<1>8. AreFound(u, recs, Q, place)
  <2>1. Q \in SUBSET DOMAIN recs
    OBVIOUS
  <2> HIDE DEF Q
  <2>2. QED
    BY <1>4, <1>5, <1>6, <1>7, <2>1 DEF AreFound
<1>9. /\ out \in Seq(Record) /\ RecordsAreDistinct(out)
      /\ S = {BoundTo(u, recs[j], place[j]) : j \in Q}
  <2> HIDE DEF Q
  <2>1. QED
    BY <1>2, <1>8, RebindFacts
<1> HIDE DEF out, S, R
<1>10. ASSUME NEW j \in Q
       PROVE  LET b == BoundTo(u, recs[j], place[j])
              IN  /\ b \in S /\ b.index = to[recs[j].index] /\ b.group = recs[j].group
                  /\ b.spelling = recs[j].spelling /\ b.index \in DOMAIN u
                  /\ u[b.index] = t[recs[j].index] /\ Describes(b, u[b.index])
                  /\ b.slot = Address(u, b.index) /\ b.cell = u[b.index].cell
  <2> DEFINE b == BoundTo(u, recs[j], place[j])
  <2>1. /\ recs[j] \in Record /\ place[j] \in DOMAIN u /\ place[j] = to[recs[j].index]
        /\ u[place[j]] = t[recs[j].index]
    BY <1>1, <1>3, <1>4
  <2>2. /\ b.index = place[j] /\ b.slot = Address(u, place[j]) /\ b.cell = u[place[j]].cell
        /\ b.group = recs[j].group /\ b.original = recs[j].original
        /\ b.present = recs[j].present /\ b.spelling = recs[j].spelling
    BY <1>2, <2>1, BoundToFacts
  <2>3. b \in S
    BY <1>9
  <2>4. Describes(recs[j], t[recs[j].index])
    BY <1>3
  <2> HIDE DEF b, Q
  <2>5. Describes(b, t[recs[j].index])
    BY <2>2, <2>4 DEF Describes
  <2>6. QED
    BY <2>1, <2>2, <2>3, <2>5 DEF b
<1>11. \A r \in S : \E j \in Q : r = BoundTo(u, recs[j], place[j])
  BY <1>9
<1>12. \A r \in R : \E j \in DOMAIN recs : r = recs[j]
  BY DEF R, Range
\* Records of strings that stay, before and after.
<1>13. ASSUME NEW r \in R, r.index \in P
       PROVE  \E s \in S : s.index = to[r.index] /\ s.group = r.group /\ s.spelling = r.spelling
  <2>1. PICK j \in DOMAIN recs : r = recs[j]
    BY <1>12
  <2>2. j \in Q
    BY <1>13, <2>1
  <2> HIDE DEF Q
  <2>3. QED
    BY <1>10, <2>1, <2>2
<1>14. ASSUME NEW s \in S
       PROVE  \E r \in R : /\ r.index \in P /\ s.index = to[r.index] /\ s.group = r.group
                           /\ s.spelling = r.spelling /\ s.index \in DOMAIN u
                           /\ u[s.index] = t[r.index] /\ Describes(s, u[s.index])
                           /\ s.slot = Address(u, s.index) /\ s.cell = u[s.index].cell
  <2>1. PICK j \in Q : s = BoundTo(u, recs[j], place[j])
    BY <1>11
  <2>2. recs[j] \in R /\ recs[j].index \in P
    BY <1>3
  <2> HIDE DEF Q
  <2>3. QED
    BY <1>10, <2>1, <2>2
<1> HIDE DEF Q
<1>15. \A r, s \in S : r.index = s.index => r = s
  <2>1. \A i, j \in DOMAIN out : out[i].index = out[j].index => i = j
    BY <1>9 DEF RecordsAreDistinct
  <2>2. QED
    BY <2>1 DEF S, Range
<1>16. ASSUME NEW k \in DOMAIN u PROVE IsKnown(S, u, k)
  <2>1. CASE \E m \in P : to[m] = k
    <3>1. PICK m \in P : to[m] = k
      BY <2>1
    <3>2. u[k] = t[m] /\ m \in DOMAIN t /\ IsKnown(R, t, m)
      BY <1>1, <1>2, <3>1 DEF Follow
    <3>3. (\A s \in S : s.index # k) => (\A r \in R : r.index # m)
      BY <1>13, <3>1
    <3>4. (\A s \in S : s.index = k => s.spelling = NULL) => (\A r \in R : r.index = m => r.spelling = NULL)
      BY <1>13, <3>1
    <3>5. t[m].kind = "relation" /\ t[m].part = 1 /\ (\E r \in R : r.index = m + 1 /\ r.spelling # NULL)
            => \E s \in S : s.index = k + 1 /\ s.spelling # NULL
      <4>1. SUFFICES ASSUME t[m].kind = "relation", t[m].part = 1,
                            NEW r \in R, r.index = m + 1, r.spelling # NULL
                     PROVE  \E s \in S : s.index = k + 1 /\ s.spelling # NULL
        OBVIOUS
      <4>2. m + 1 \in P /\ to[m + 1] = k + 1
        BY <1>1, <3>1, <4>1
      <4>3. QED
        BY <1>13, <4>1, <4>2
    <3>6. QED
      BY <3>2, <3>3, <3>4, <3>5 DEF IsKnown
  <2>2. CASE IsBrought(u[k], t)
    BY <2>2 DEF IsBrought, IsKnown
  <2>3. QED
    BY <1>1, <2>1, <2>2
<1>17. GroupsAgree(S, u)
  <2>1. GroupsAgree(R, t)
    BY <1>2 DEF Follow
  <2>2. ASSUME NEW s \in S, s.group # 0, NEW k \in DOMAIN u, u[k].id = u[s.index].id
        PROVE  \E o \in S : o.index = k /\ o.group = s.group
    <3>1. PICK r \in R : r.index \in P /\ s.group = r.group /\ u[s.index] = t[r.index]
      BY <1>14
    <3>2. u[k].id \in Ids(t)
      BY <1>1, <2>2, <3>1 DEF Ids
    <3>3. PICK m \in P : to[m] = k
      BY <1>1, <3>2 DEF IsBrought
    <3>4. m \in DOMAIN t /\ t[m].id = t[r.index].id
      BY <1>1, <2>2, <3>1, <3>3
    <3>5. PICK p \in R : p.index = m /\ p.group = r.group
      BY <2>1, <2>2, <3>1, <3>4 DEF GroupsAgree
    <3>6. QED
      BY <1>13, <3>1, <3>3, <3>5
  <2>3. ASSUME NEW r \in S, NEW s \in S, r.group # 0, r.group = s.group
        PROVE  u[r.index].id = u[s.index].id
    <3>1. PICK p \in R : r.group = p.group /\ u[r.index] = t[p.index]
      BY <1>14
    <3>2. PICK o \in R : s.group = o.group /\ u[s.index] = t[o.index]
      BY <1>14
    <3>3. p.group # 0 /\ p.group = o.group
      BY <2>3, <3>1, <3>2
    <3>4. \A x, y \in R : x.group # 0 /\ x.group = y.group => t[x.index].id = t[y.index].id
      BY ONLY <2>1 DEF GroupsAgree
    <3>5. t[p.index].id = t[o.index].id
      BY ONLY <3>3, <3>4, p \in R, o \in R
    <3>6. QED
      BY <3>1, <3>2, <3>5
  <2>4. QED
    BY <2>2, <2>3 DEF GroupsAgree
<1>18. Follow(S, u)
  BY <1>14, <1>15, <1>16, <1>17 DEF Follow
<1>19. BoundIn(S, u)
  BY <1>14 DEF BoundIn
<1>20. QED
  BY <1>9, <1>18, <1>19 DEF Holds, out, S

\* Tree t with the strings lo .. hi replaced by those of f.
Splice(t, lo, hi, f) == SubSeq(t, 1, lo - 1) \o f \o SubSeq(t, hi + 1, Len(t))

\* Where the strings that stay go.
Stay(t, lo, hi) == DOMAIN t \ lo..hi
MovesTo(t, lo, hi, n) == [m \in Stay(t, lo, hi) |-> IF m < lo THEN m ELSE m - (hi - lo + 1) + n]

\* The range lo .. hi of t holds whole nodes.
IsNodeRange(t, lo, hi) ==
  /\ lo \in 1..(Len(t) + 1) /\ hi \in 0..Len(t) /\ hi >= lo - 1
  /\ lo <= Len(t) => t[lo].part = 1
  /\ hi < Len(t) => t[hi + 1].part = 1

\* Strings of a fragment for t: a name, a relation without a schema, or nothing.
IsFragment(f, t) ==
  /\ f \in Seq(String) /\ Len(f) \in 0..2
  /\ \A i \in DOMAIN f : IsBrought(f[i], t) /\ f[i].part = i /\ f[i].id = f[1].id
  /\ Len(f) = 1 => f[1].kind = "name"
  /\ Len(f) = 2 => /\ f[1].kind = "relation" /\ f[2].kind = "relation"
                   /\ f[1].location = f[2].location /\ f[1].cell = EmptyCell

\* u is a followed by b.
Joins(u, a, b) ==
  /\ Len(u) = Len(a) + Len(b)
  /\ \A m \in 1..Len(a) : u[m] = a[m]
  /\ \A m \in 1..Len(b) : u[Len(a) + m] = b[m]

\* A concatenation holds the elements of both.
LEMMA Concatenated ==
  ASSUME NEW T, NEW a \in Seq(T), NEW b \in Seq(T)
  PROVE  a \o b \in Seq(T) /\ Joins(a \o b, a, b)
<1>1. a \o b \in Seq(T) /\ Len(a \o b) = Len(a) + Len(b)
  OBVIOUS
<1>2. ASSUME NEW m \in 1..Len(a) PROVE (a \o b)[m] = a[m]
  OBVIOUS
<1>3. ASSUME NEW m \in 1..Len(b) PROVE (a \o b)[Len(a) + m] = b[m]
  <2>1. Len(a) + m \in 1..(Len(a) + Len(b)) /\ Len(a) + m > Len(a) /\ Len(a) + m - Len(a) = m
    OBVIOUS
  <2>2. QED
    BY <2>1
<1>4. QED
  BY <1>1, <1>2, <1>3 DEF Joins

\* The strings of the new tree u.
IsSplice(u, t, lo, hi, f) ==
  LET n == Len(f)
      d == hi - lo + 1
  IN  /\ Len(u) = Len(t) - d + n /\ n \in Nat /\ d \in Nat
      /\ \A m \in DOMAIN t : m < lo => m \in DOMAIN u /\ u[m] = t[m]
      /\ \A m \in DOMAIN t : m > hi => m - d + n \in DOMAIN u /\ u[m - d + n] = t[m]
      /\ \A i \in DOMAIN f : lo + i - 1 \in DOMAIN u /\ u[lo + i - 1] = f[i]
      /\ \A k \in DOMAIN u :
           \/ k \in DOMAIN t /\ k < lo
           \/ \E i \in DOMAIN f : k = lo + i - 1
           \/ \E m \in DOMAIN t : m > hi /\ k = m - d + n

\* The strings of a tree with some replaced are those before, the new and those after.
LEMMA SpliceFacts ==
  ASSUME NEW T, NEW t \in Seq(T), NEW f \in Seq(T), NEW lo \in 1..(Len(t) + 1),
         NEW hi \in 0..Len(t), hi >= lo - 1
  PROVE  /\ Splice(t, lo, hi, f) \in Seq(T)
         /\ IsSplice(Splice(t, lo, hi, f), t, lo, hi, f)
<1> DEFINE u == Splice(t, lo, hi, f)
           n == Len(f)
           d == hi - lo + 1
           l == Len(t)
           a == SubSeq(t, 1, lo - 1)
           c == SubSeq(t, hi + 1, l)
           b == a \o f
<1>1. n \in Nat /\ d \in Nat /\ l \in Nat /\ lo \in Nat /\ hi \in Nat /\ d = hi - lo + 1
  OBVIOUS
<1>2. /\ a \in Seq(T) /\ Len(a) = lo - 1
      /\ \A m \in 1..(lo - 1) : a[m] = t[m]
  OBVIOUS
<1>3. /\ c \in Seq(T) /\ Len(c) = l - hi
      /\ \A m \in 1..(l - hi) : c[m] = t[hi + m]
  OBVIOUS
<1> HIDE DEF a, c
<1>4. /\ b \in Seq(T) /\ Len(b) = lo - 1 + n
      /\ \A m \in 1..(lo - 1) : b[m] = a[m]
      /\ \A i \in 1..n : b[lo + i - 1] = f[i]
  <2>1. /\ b \in Seq(T) /\ Len(b) = Len(a) + n
        /\ \A m \in 1..Len(a) : b[m] = a[m]
        /\ \A m \in 1..n : b[Len(a) + m] = f[m]
    <3>1. a \in Seq(T) /\ f \in Seq(T)
      BY <1>2
    <3>2. a \o f \in Seq(T) /\ Joins(a \o f, a, f)
      BY <3>1, Concatenated
    <3>3. QED
      BY <3>2 DEF Joins
  <2>2. ASSUME NEW i \in 1..n PROVE b[lo + i - 1] = f[i]
    <3>1. Len(a) + i = lo + i - 1
      BY <1>1, <1>2
    <3>2. QED
      BY <2>1, <3>1
  <2> HIDE DEF b
  <2>3. QED
    BY <1>2, <2>1, <2>2
<1> HIDE DEF b
<1>5. /\ u = b \o c /\ u \in Seq(T) /\ Len(u) = lo - 1 + n + (l - hi)
      /\ \A m \in 1..(lo - 1 + n) : u[m] = b[m]
      /\ \A m \in 1..(l - hi) : u[lo - 1 + n + m] = c[m]
  <2>1. u = b \o c
    BY DEF u, a, b, c, Splice
  <2> HIDE DEF u
  <2>2. /\ u \in Seq(T) /\ Len(u) = Len(b) + Len(c)
        /\ \A m \in 1..Len(b) : u[m] = b[m]
        /\ \A m \in 1..Len(c) : u[Len(b) + m] = c[m]
    <3>1. b \in Seq(T) /\ c \in Seq(T)
      BY <1>3, <1>4
    <3>2. b \o c \in Seq(T) /\ Joins(b \o c, b, c)
      BY <3>1, Concatenated
    <3>3. QED
      BY <2>1, <3>2 DEF Joins
  <2>3. QED
    BY <1>3, <1>4, <2>1, <2>2
<1> HIDE DEF u, d, n, l
<1>6. DOMAIN t = 1..l /\ DOMAIN f = 1..n /\ Len(u) = l - d + n /\ DOMAIN u = 1..(l - d + n)
  BY <1>1, <1>5 DEF l, n
<1>7. lo \in 1..(l + 1) /\ hi \in 0..l /\ hi >= lo - 1
  BY DEF l
<1>8. ASSUME NEW m \in 1..l, m < lo PROVE m \in DOMAIN u /\ u[m] = t[m]
  <2>1. m \in 1..(lo - 1) /\ m \in 1..(lo - 1 + n) /\ m \in 1..(l - d + n)
    BY <1>1, <1>7, <1>8
  <2>2. QED
    BY <1>2, <1>4, <1>5, <1>6, <2>1
<1>9. ASSUME NEW m \in 1..l, m > hi PROVE m - d + n \in DOMAIN u /\ u[m - d + n] = t[m]
  <2>1. /\ m - hi \in 1..(l - hi) /\ m - d + n \in 1..(l - d + n)
        /\ m - d + n = lo - 1 + n + (m - hi) /\ hi + (m - hi) = m
    BY <1>1, <1>7, <1>9
  <2>2. QED
    BY <1>3, <1>5, <1>6, <2>1
<1>10. ASSUME NEW i \in 1..n PROVE lo + i - 1 \in DOMAIN u /\ u[lo + i - 1] = f[i]
  <2>1. lo + i - 1 \in 1..(lo - 1 + n) /\ lo + i - 1 \in 1..(l - d + n)
    BY <1>1, <1>7
  <2>2. QED
    BY <1>4, <1>5, <1>6, <2>1
<1>11. ASSUME NEW k \in 1..(l - d + n)
       PROVE  \/ k \in 1..l /\ k < lo
              \/ \E i \in 1..n : k = lo + i - 1
              \/ \E m \in 1..l : m > hi /\ k = m - d + n
  <2>1. CASE k < lo
    BY <1>1, <1>7, <2>1
  <2>2. CASE k >= lo /\ k < lo + n
    <3>1. k - lo + 1 \in 1..n /\ k = lo + (k - lo + 1) - 1
      BY <1>1, <1>7, <2>2
    <3>2. QED
      BY <3>1
  <2>3. CASE k >= lo + n
    <3>1. k + d - n \in 1..l /\ k + d - n > hi /\ k = (k + d - n) - d + n
      BY <1>1, <1>7, <2>3
    <3>2. QED
      BY <3>1
  <2>4. QED
    BY <1>1, <1>7, <2>1, <2>2, <2>3
<1>12. /\ u \in Seq(T) /\ Len(u) = l - d + n /\ n \in Nat /\ d \in Nat
       /\ \A m \in DOMAIN t : m < lo => m \in DOMAIN u /\ u[m] = t[m]
       /\ \A m \in DOMAIN t : m > hi => m - d + n \in DOMAIN u /\ u[m - d + n] = t[m]
       /\ \A i \in DOMAIN f : lo + i - 1 \in DOMAIN u /\ u[lo + i - 1] = f[i]
       /\ \A k \in DOMAIN u :
            \/ k \in DOMAIN t /\ k < lo
            \/ \E i \in DOMAIN f : k = lo + i - 1
            \/ \E m \in DOMAIN t : m > hi /\ k = m - d + n
  <2>1. u \in Seq(T) /\ Len(u) = l - d + n /\ n \in Nat /\ d \in Nat
    BY <1>1, <1>5, <1>6
  <2>2. \A m \in DOMAIN t : m < lo => m \in DOMAIN u /\ u[m] = t[m]
    BY <1>6, <1>8
  <2>3. \A m \in DOMAIN t : m > hi => m - d + n \in DOMAIN u /\ u[m - d + n] = t[m]
    BY <1>6, <1>9
  <2>4. \A i \in DOMAIN f : lo + i - 1 \in DOMAIN u /\ u[lo + i - 1] = f[i]
    BY <1>6, <1>10
  <2>5. \A k \in DOMAIN u :
          \/ k \in DOMAIN t /\ k < lo
          \/ \E i \in DOMAIN f : k = lo + i - 1
          \/ \E m \in DOMAIN t : m > hi /\ k = m - d + n
    BY <1>6, <1>11
  <2>6. QED
    BY <2>1, <2>2, <2>3, <2>4, <2>5
<1>13. QED
  BY <1>12 DEF u, d, n, l, IsSplice

\* Strings of the old tree and of the fragment keep addresses of their own.
LEMMA MovedApart ==
  ASSUME NEW t, TreeIsWhole(t), NEW u \in Seq(String), NEW P, NEW to, AreMoved(t, u, P, to),
         \A k, m \in DOMAIN u : IsBrought(u[k], t) /\ IsBrought(u[m], t) /\ k # m =>
           /\ u[k].id # u[m].id \/ u[k].part # u[m].part
           /\ u[k].cell = EmptyCell \/ u[k].cell # u[m].cell
  PROVE  AddressesDiffer(u)
<1>1. /\ P \in SUBSET DOMAIN t /\ to \in [P -> DOMAIN u]
      /\ \A m \in P : u[to[m]] = t[m]
      /\ \A k \in DOMAIN u : (\E m \in P : to[m] = k) \/ IsBrought(u[k], t)
  BY DEF AreMoved
<1>2. ASSUME NEW k \in DOMAIN u, NEW m \in DOMAIN u, k # m
      PROVE  /\ u[k].id # u[m].id \/ u[k].part # u[m].part
             /\ u[k].cell = EmptyCell \/ u[k].cell # u[m].cell
  <2>1. CASE IsBrought(u[k], t) /\ IsBrought(u[m], t)
    BY <1>2, <2>1
  <2>2. CASE \E i \in P : to[i] = k
    <3>1. PICK i \in P : to[i] = k
      BY <2>2
    <3>2. u[k] = t[i] /\ i \in DOMAIN t
      BY <1>1, <3>1
    <3>3. CASE \E j \in P : to[j] = m
      <4>1. PICK j \in P : to[j] = m
        BY <3>3
      <4>2. u[m] = t[j] /\ j \in DOMAIN t /\ i # j
        BY <1>1, <1>2, <3>1, <4>1
      <4>3. QED
        BY <3>2, <4>2 DEF TreeIsWhole, AddressesDiffer
    <3>4. CASE IsBrought(u[m], t)
      <4>1. u[k].id \in Ids(t) /\ u[k].cell \in Cells(t)
        BY <3>2 DEF Ids, Cells
      <4>2. QED
        BY <3>4, <4>1 DEF IsBrought
    <3>5. QED
      BY <1>1, <3>3, <3>4
  <2>3. CASE IsBrought(u[k], t) /\ \E j \in P : to[j] = m
    <3>1. PICK j \in P : to[j] = m
      BY <2>3
    <3>2. u[m].id \in Ids(t) /\ u[m].cell \in Cells(t)
      BY <1>1, <3>1 DEF Ids, Cells
    <3>3. QED
      BY <2>3, <3>2 DEF IsBrought
  <2>4. QED
    BY <1>1, <2>1, <2>2, <2>3
<1>3. QED
  BY <1>2 DEF AddressesDiffer

\* Nodes make way for those of a fragment.
LEMMA SpliceMoves ==
  ASSUME NEW t, TreeIsWhole(t), NEW lo, NEW hi, IsNodeRange(t, lo, hi),
         NEW f, IsFragment(f, t)
  PROVE  /\ TreeIsWhole(Splice(t, lo, hi, f))
         /\ AreMoved(t, Splice(t, lo, hi, f), Stay(t, lo, hi), MovesTo(t, lo, hi, Len(f)))
<1> DEFINE u == Splice(t, lo, hi, f)
           n == Len(f)
           d == hi - lo + 1
           P == Stay(t, lo, hi)
           to == MovesTo(t, lo, hi, n)
           At(m) == IF m < lo THEN m ELSE m - d + n
<1>1. /\ t \in Seq(String) /\ f \in Seq(String)
      /\ lo \in 1..(Len(t) + 1) /\ hi \in 0..Len(t) /\ hi >= lo - 1
      /\ lo \in Nat /\ hi \in Nat /\ Len(t) \in Nat /\ n \in 0..2
      /\ DOMAIN t = 1..Len(t) /\ DOMAIN f = 1..n
      /\ (lo <= Len(t) => t[lo].part = 1)
      /\ (hi < Len(t) => t[hi + 1].part = 1)
  BY DEF TreeIsWhole, IsNodeRange, IsFragment
<1>2. /\ u \in Seq(String) /\ n \in Nat /\ d \in Nat
      /\ \A m \in DOMAIN t : m < lo => m \in DOMAIN u /\ u[m] = t[m]
      /\ \A m \in DOMAIN t : m > hi => m - d + n \in DOMAIN u /\ u[m - d + n] = t[m]
      /\ \A i \in DOMAIN f : lo + i - 1 \in DOMAIN u /\ u[lo + i - 1] = f[i]
      /\ \A k \in DOMAIN u :
           \/ k \in DOMAIN t /\ k < lo
           \/ \E i \in DOMAIN f : k = lo + i - 1
           \/ \E m \in DOMAIN t : m > hi /\ k = m - d + n
  <2>1. u \in Seq(String) /\ IsSplice(u, t, lo, hi, f)
    BY <1>1, SpliceFacts
  <2> HIDE DEF u
  <2>2. QED
    BY <2>1 DEF IsSplice
<1>3. d = hi - lo + 1 /\ P = DOMAIN t \ lo..hi
  BY DEF Stay
<1>4. \A m \in P : to[m] = At(m)
  BY DEF MovesTo, Stay
<1>5. P \in SUBSET DOMAIN t /\ to = [m \in P |-> At(m)]
  BY DEF MovesTo, Stay
<1> HIDE DEF u, n, d, P, to
<1>6. \A m \in P : m \in DOMAIN t /\ m \in Nat /\ (m < lo \/ m > hi)
  BY <1>1, <1>3
<1>7. ASSUME NEW m \in P PROVE to[m] \in DOMAIN u /\ u[to[m]] = t[m]
  <2>1. CASE m < lo
    BY <1>2, <1>4, <1>6, <2>1
  <2>2. CASE ~(m < lo)
    <3>1. m > hi /\ to[m] = m - d + n
      BY <1>4, <1>6, <2>2
    <3>2. QED
      BY <1>2, <1>6, <3>1
  <2>3. QED
    BY <2>1, <2>2
<1>8. to \in [P -> DOMAIN u]
  <2> HIDE DEF At
  <2>1. QED
    BY <1>4, <1>5, <1>7
<1>9. \A m, i \in P : to[m] = to[i] => m = i
  <2>1. ASSUME NEW m \in P, NEW i \in P, m < i PROVE to[m] # to[i]
    <3>1. m \in Nat /\ i \in Nat /\ (m < lo \/ m > hi) /\ (i < lo \/ i > hi)
      BY <1>6
    <3>2. to[m] = At(m) /\ to[i] = At(i)
      BY <1>4
    <3>3. QED
      BY <1>1, <1>2, <1>3, <2>1, <3>1, <3>2
  <2>2. QED
    BY <1>6, <2>1
<1>10. ASSUME NEW m \in P, t[m].kind = "relation", t[m].part = 1
       PROVE  m + 1 \in P /\ to[m + 1] = to[m] + 1
  <2>1. m + 1 \in DOMAIN t /\ t[m + 1].part = 2
    BY <1>6, <1>10 DEF TreeIsWhole, NodesAreWhole
  <2>2. m + 1 # lo /\ m + 1 # hi + 1
    BY <1>1, <1>10, <2>1
  <2>3. m + 1 \in P
    BY <1>1, <1>3, <1>6, <2>1, <2>2
  <2>4. to[m] = At(m) /\ to[m + 1] = At(m + 1)
    BY <1>4, <2>3
  <2>5. m \in Nat /\ (m < lo \/ m > hi)
    BY <1>6
  <2>6. QED
    BY <1>1, <1>2, <1>3, <2>2, <2>3, <2>4, <2>5
<1>11. ASSUME NEW k \in DOMAIN u
       PROVE  (\E m \in P : to[m] = k) \/ \E i \in DOMAIN f : k = lo + i - 1 /\ u[k] = f[i]
  <2>1. CASE k \in DOMAIN t /\ k < lo
    <3>1. k \in P /\ to[k] = k
      BY <1>1, <1>3, <1>4, <2>1
    <3>2. QED
      BY <3>1
  <2>2. CASE \E i \in DOMAIN f : k = lo + i - 1
    BY <1>2, <2>2
  <2>3. CASE \E m \in DOMAIN t : m > hi /\ k = m - d + n
    <3>1. PICK m \in DOMAIN t : m > hi /\ k = m - d + n
      BY <2>3
    <3>2. m \in P /\ to[m] = k
      BY <1>1, <1>3, <1>4, <3>1
    <3>3. QED
      BY <3>2
  <2>4. QED
    BY <1>2, <2>1, <2>2, <2>3
<1>12. \A i \in DOMAIN f : IsBrought(f[i], t) /\ f[i].part = i /\ f[i].id = f[1].id
  BY DEF IsFragment
<1>13. \A k \in DOMAIN u : (\E m \in P : to[m] = k) \/ IsBrought(u[k], t)
  BY <1>11, <1>12
<1>14. AreMoved(t, u, P, to)
  BY <1>5, <1>7, <1>8, <1>9, <1>10, <1>13 DEF AreMoved
<1>15. ASSUME NEW k \in DOMAIN u, NEW m \in DOMAIN u, IsBrought(u[k], t), IsBrought(u[m], t), k # m
       PROVE  /\ u[k].id # u[m].id \/ u[k].part # u[m].part
              /\ u[k].cell = EmptyCell \/ u[k].cell # u[m].cell
  <2>1. ASSUME NEW i \in DOMAIN u, IsBrought(u[i], t)
        PROVE  \E j \in DOMAIN f : i = lo + j - 1 /\ u[i] = f[j]
    <3>1. ~(\E o \in P : to[o] = i)
      <4>1. SUFFICES ASSUME NEW o \in P, to[o] = i PROVE FALSE
        OBVIOUS
      <4>2. u[i].id \in Ids(t)
        BY <1>6, <1>7, <4>1 DEF Ids
      <4>3. QED
        BY <2>1, <4>2 DEF IsBrought
    <3>2. QED
      BY <1>11, <3>1
  <2>2. PICK i \in DOMAIN f : k = lo + i - 1 /\ u[k] = f[i]
    BY <1>15, <2>1
  <2>3. PICK j \in DOMAIN f : m = lo + j - 1 /\ u[m] = f[j]
    BY <1>15, <2>1
  <2>4. i # j /\ f[i].part = i /\ f[j].part = j
    BY <1>12, <1>15, <2>2, <2>3
  <2>5. i \in 1..n /\ j \in 1..n
    BY <1>1
  <2>6. n = 2 /\ (i = 1 \/ j = 1)
    BY <1>1, <2>4, <2>5
  <2>7. f[1].cell = EmptyCell
    BY <2>6 DEF IsFragment, n
  <2>8. QED
    BY <2>2, <2>3, <2>4, <2>6, <2>7
<1>16. AddressesDiffer(u)
  BY <1>2, <1>14, <1>15, MovedApart
<1>17. NodesAreWhole(u)
  <2>1. Len(u) \in Nat /\ DOMAIN u = 1..Len(u)
    BY <1>2
  <2>2. ASSUME NEW m \in P, t[m].part = 2
        PROVE  LET k == to[m]
               IN  /\ k > 1 /\ u[k].kind = "relation" /\ u[k - 1].kind = "relation"
                   /\ u[k - 1].part = 1 /\ u[k - 1].id = u[k].id
                   /\ u[k - 1].location = u[k].location
    <3>1. /\ m > 1 /\ m \in DOMAIN t /\ t[m].kind = "relation" /\ t[m - 1].kind = "relation"
          /\ t[m - 1].part = 1 /\ t[m - 1].id = t[m].id /\ t[m - 1].location = t[m].location
      BY <1>6, <2>2 DEF TreeIsWhole, NodesAreWhole
    <3>2. m # lo /\ m # hi + 1
      BY <1>1, <2>2, <3>1
    <3>3. m - 1 \in P
      BY <1>1, <1>3, <1>6, <3>1, <3>2
    <3>4. to[m - 1 + 1] = to[m - 1] + 1 /\ m - 1 + 1 = m
      BY <1>6, <1>10, <3>1, <3>3
    <3>5. to[m - 1] \in DOMAIN u /\ u[to[m - 1]] = t[m - 1] /\ u[to[m]] = t[m]
      BY <1>7, <3>3
    <3>6. to[m] > 1 /\ to[m] - 1 = to[m - 1]
      BY <2>1, <3>4, <3>5
    <3>7. QED
      BY <3>1, <3>5, <3>6
  <2>3. ASSUME NEW m \in P, t[m].kind = "relation", t[m].part = 1
        PROVE  LET k == to[m]
               IN  k < Len(u) /\ u[k + 1].part = 2 /\ u[k + 1].id = u[k].id
    <3>1. t[m + 1].part = 2 /\ t[m + 1].id = t[m].id
      BY <1>6, <2>3 DEF TreeIsWhole, NodesAreWhole
    <3>2. m + 1 \in P /\ to[m + 1] = to[m] + 1
      BY <1>10, <2>3
    <3>3. to[m + 1] \in DOMAIN u /\ u[to[m + 1]] = t[m + 1] /\ u[to[m]] = t[m] /\ to[m] \in DOMAIN u
      BY <1>7, <3>2
    <3>4. QED
      BY <2>1, <3>1, <3>2, <3>3
  <2>4. ASSUME NEW i \in DOMAIN f
        PROVE  LET k == lo + i - 1
               IN  /\ f[i].part = 2 =>
                        /\ k > 1 /\ u[k].kind = "relation" /\ u[k - 1].kind = "relation"
                        /\ u[k - 1].part = 1 /\ u[k - 1].id = u[k].id
                        /\ u[k - 1].location = u[k].location
                   /\ f[i].kind = "relation" /\ f[i].part = 1 =>
                        k < Len(u) /\ u[k + 1].part = 2 /\ u[k + 1].id = u[k].id
    <3>1. i \in 1..n /\ f[i].part = i /\ u[lo + i - 1] = f[i]
      BY <1>1, <1>2, <1>12
    <3>2. CASE n = 2
      <4>1. 1 \in DOMAIN f /\ 2 \in DOMAIN f
        BY <1>1, <3>2
      <4>2. /\ lo + 1 - 1 = lo /\ lo + 2 - 1 = lo + 1 /\ lo + 1 > 1 /\ lo + 1 - 1 = lo
        BY <1>1
      <4>3. u[lo] = f[1] /\ u[lo + 1] = f[2] /\ lo + 1 \in DOMAIN u /\ lo \in DOMAIN u
        BY <1>2, <4>1, <4>2
      <4>4. /\ f[1].kind = "relation" /\ f[2].kind = "relation" /\ f[1].location = f[2].location
            /\ f[1].part = 1 /\ f[2].part = 2 /\ f[1].id = f[2].id
        BY <1>12, <3>2, <4>1 DEF IsFragment, n
      <4>5. i = 1 \/ i = 2
        BY <3>1, <3>2
      <4>6. lo < Len(u)
        BY <1>1, <2>1, <4>3
      <4>7. CASE i = 1
        BY <1>1, <4>2, <4>3, <4>4, <4>6, <4>7
      <4>8. CASE i = 2
        BY <1>1, <4>2, <4>3, <4>4, <4>6, <4>8
      <4>9. QED
        BY <4>5, <4>7, <4>8
    <3>3. CASE n # 2
      <4>1. n = 1 /\ i = 1
        BY <1>1, <3>1, <3>3
      <4>2. f[1].kind = "name"
        BY <4>1 DEF IsFragment, n
      <4>3. QED
        BY <3>1, <4>1, <4>2
    <3>4. QED
      BY <3>2, <3>3
  <2>5. ASSUME NEW k \in DOMAIN u
        PROVE  /\ u[k].part = 2 => /\ k > 1 /\ u[k].kind = "relation" /\ u[k - 1].kind = "relation"
                                    /\ u[k - 1].part = 1 /\ u[k - 1].id = u[k].id
                                    /\ u[k - 1].location = u[k].location
               /\ u[k].kind = "relation" /\ u[k].part = 1 =>
                    k < Len(u) /\ u[k + 1].part = 2 /\ u[k + 1].id = u[k].id
    <3>1. CASE \E m \in P : to[m] = k
      BY <1>7, <2>2, <2>3, <3>1
    <3>2. CASE \E i \in DOMAIN f : k = lo + i - 1 /\ u[k] = f[i]
      BY <2>4, <3>2
    <3>3. QED
      BY <1>11, <3>1, <3>2
  <2>6. QED
    BY <2>5 DEF NodesAreWhole
<1>18. QED
  BY <1>2, <1>14, <1>16, <1>17 DEF TreeIsWhole, u, P, to, n

\* A string that no patch changed.
LEMMA NewStringFacts ==
  ASSUME NEW id \in Nat, NEW part \in {1, 2}, NEW kind \in Kinds, NEW location \in Locations,
         NEW cell \in Nat, NEW text \in Texts
  PROVE  LET s == NewString(id, part, kind, location, cell, text)
         IN  /\ s \in String /\ s.id = id /\ s.part = part /\ s.kind = kind
             /\ s.location = location /\ s.cell = cell /\ s.text = text /\ s.first = text
             /\ s.due = Plain(s)
<1> DEFINE own == OwnSpelling(location, text)
           s == NewString(id, part, kind, location, cell, text)
<1>1. own \in Spelling
  BY DEF OwnSpelling, Spell, Spelling, Forms, Locations
<1>2. s = [id |-> id, part |-> part, kind |-> kind, location |-> location, cell |-> cell,
           text |-> text, first |-> text, due |-> own]
  BY DEF NewString
<1> HIDE DEF own
<1>3. /\ s \in String /\ s.id = id /\ s.part = part /\ s.kind = kind
      /\ s.location = location /\ s.cell = cell /\ s.text = text /\ s.first = text
      /\ s.due = own
  BY <1>1, <1>2 DEF String
<1> HIDE DEF s
<1>4. s.due = Plain(s)
  BY <1>3 DEF Plain, own
<1>5. QED
  BY <1>3, <1>4 DEF s

\* A fragment is built while the old nodes stand, so its addresses are new.
LEMMA FragmentFacts ==
  ASSUME NEW t \in Seq(String), NEW kind \in {"relation", "name"}, NEW name \in Names
  PROVE  IsFragment(Fragment(kind, name, LowestFree(Ids(t)), LowestFree(Cells(t))), t)
<1> DEFINE id == LowestFree(Ids(t))
           cell == LowestFree(Cells(t))
           f == Fragment(kind, name, id, cell)
<1>1. id \in Nat /\ id \notin Ids(t) /\ cell \in Nat /\ cell \notin Cells(t)
  BY FiniteAddresses, LowestFreeFacts
<1> HIDE DEF id, cell
<1>2. /\ name \in Texts /\ NoText \in Texts /\ kind \in Kinds /\ "fragment" \in Locations
      /\ "relation" \in Kinds /\ "name" \in Kinds /\ EmptyCell \in Nat
  BY DEF Texts, Kinds, Locations, EmptyCell
<1>3. CASE kind = "name"
  <2> DEFINE a == NewString(id, 1, kind, "fragment", cell, name)
  <2>1. f = <<a>>
    BY <1>3 DEF Fragment
  <2>2. /\ a \in String /\ a.id = id /\ a.part = 1 /\ a.kind = kind
        /\ a.location = "fragment" /\ a.cell = cell /\ a.text = name /\ a.first = name
        /\ a.due = Plain(a)
    BY <1>1, <1>2, NewStringFacts
  <2> HIDE DEF a, f
  <2>3. IsBrought(a, t)
    BY <1>1, <1>3, <2>2 DEF IsBrought
  <2>4. f \in Seq(String) /\ Len(f) = 1 /\ DOMAIN f = {1} /\ f[1] = a
    BY <2>1, <2>2
  <2>5. IsFragment(f, t)
    BY <1>3, <2>2, <2>3, <2>4 DEF IsFragment
  <2>6. QED
    BY <2>5 DEF f, id, cell
<1>4. CASE kind = "relation"
  <2> DEFINE a == NewString(id, 1, kind, "fragment", EmptyCell, NoText)
             b == NewString(id, 2, kind, "fragment", cell, name)
  <2>1. f = <<a, b>>
    BY <1>4 DEF Fragment
  <2>2. /\ a \in String /\ a.id = id /\ a.part = 1 /\ a.kind = kind
        /\ a.location = "fragment" /\ a.cell = EmptyCell /\ a.text = NoText /\ a.first = NoText
        /\ a.due = Plain(a)
    BY <1>1, <1>2, NewStringFacts
  <2>3. /\ b \in String /\ b.id = id /\ b.part = 2 /\ b.kind = kind
        /\ b.location = "fragment" /\ b.cell = cell /\ b.text = name /\ b.first = name
        /\ b.due = Plain(b)
    BY <1>1, <1>2, NewStringFacts
  <2> HIDE DEF a, b, f
  <2>4. IsBrought(a, t) /\ IsBrought(b, t)
    BY <1>1, <2>2, <2>3 DEF IsBrought
  <2>5. f \in Seq(String) /\ Len(f) = 2 /\ DOMAIN f = {1, 2} /\ f[1] = a /\ f[2] = b
    BY <2>1, <2>2, <2>3
  <2>6. IsFragment(f, t)
    BY <1>4, <2>2, <2>3, <2>4, <2>5 DEF IsFragment
  <2>7. QED
    BY <2>6 DEF f, id, cell
<1>5. QED
  BY <1>3, <1>4

\* sqlparser_handle_commit_ast_internal: whatever nodes a patch removes and inserts,
\* the records follow the strings that stay.
LEMMA RestructureKeeps ==
  ASSUME MutationsInvariant, Admitted = {}, NEW r \in NodeRanges,
         NEW kind \in {"none", "relation", "name"}, NEW name \in Names,
         Restructure(r[1], r[2], kind, name)
  PROVE  MutationsInvariant'
<1> DEFINE lo == r[1]
           hi == r[2]
           f == IF kind = "none" THEN <<>>
                ELSE Fragment(kind, name, LowestFree(Ids(tree)), LowestFree(Cells(tree)))
           next == Splice(tree, lo, hi, f)
           P == Stay(tree, lo, hi)
           to == MovesTo(tree, lo, hi, Len(f))
<1>1. Patching /\ loaded /\ steps < MaxSteps
  BY DEF Restructure, Patching
<1>2. Holds(tree, records) /\ tree \in Seq(String) /\ TreeIsWhole(tree)
  BY <1>1, InvariantHolds DEF Holds, TreeIsWhole
<1>3. /\ \A j \in DOMAIN records : records[j].cell = EmptyCell => records[j].index \notin lo..hi
      /\ tree' = next /\ records' = Rebind(next, records)
      /\ steps' = steps + 1 /\ UNCHANGED <<loaded, backing, status>>
  BY DEF Restructure, Splice
<1>4. IsNodeRange(tree, lo, hi)
  <2>1. /\ lo \in 3..(Len(tree) + 1) /\ hi \in 2..Len(tree) /\ hi >= lo - 1
        /\ lo <= Len(tree) => tree[lo].part = 1
        /\ hi >= lo => hi = Len(tree) \/ tree[hi + 1].part = 1
    BY DEF NodeRanges
  <2>2. Len(tree) \in Nat
    BY <1>2
  <2> HIDE DEF lo, hi
  <2>3. hi < Len(tree) => tree[hi + 1].part = 1
    <3>1. CASE hi >= lo
      BY <2>1, <2>2, <3>1
    <3>2. CASE ~(hi >= lo)
      <4>1. hi + 1 = lo
        BY <2>1, <2>2, <3>2
      <4>2. QED
        BY <2>1, <2>2, <4>1
    <3>3. QED
      BY <3>1, <3>2
  <2>4. QED
    BY <2>1, <2>2, <2>3 DEF IsNodeRange
<1>5. IsFragment(f, tree)
  <2>1. CASE kind = "none"
    <3>1. f = <<>>
      BY <2>1
    <3>2. f \in Seq(String) /\ Len(f) = 0 /\ DOMAIN f = {}
      <4>1. <<>> \in Seq(String) /\ Len(<<>>) = 0
        OBVIOUS
      <4>2. DOMAIN <<>> = 1..0
        OBVIOUS
      <4>3. 1..0 = {}
        OBVIOUS
      <4> HIDE DEF f
      <4>4. QED
        BY <3>1, <4>1, <4>2, <4>3
    <3> HIDE DEF f
    <3>3. QED
      BY <3>2 DEF IsFragment
  <2>2. CASE kind # "none"
    <3>1. kind \in {"relation", "name"}
      BY <2>2
    <3>2. IsFragment(Fragment(kind, name, LowestFree(Ids(tree)), LowestFree(Cells(tree))), tree)
      BY <1>2, <3>1, FragmentFacts
    <3>3. QED
      BY <2>2, <3>2
  <2>3. QED
    BY <2>1, <2>2
<1> HIDE DEF f, lo, hi
<1>6. TreeIsWhole(next) /\ AreMoved(tree, next, P, to)
  BY <1>2, <1>4, <1>5, SpliceMoves
<1>7. \A j \in DOMAIN records : records[j].cell = EmptyCell => records[j].index \in P
  BY <1>2, <1>3, RecordAt DEF Stay
<1> HIDE DEF next, P, to
<1>8. Holds(next, Rebind(next, records))
  BY <1>2, <1>6, <1>7, MovedHolds
<1>9. steps' \in 0..MaxSteps
  BY <1>1, <1>3, BoundAssumption DEF MutationsInvariant
<1>10. QED
  BY <1>1, <1>3, <1>8, <1>9 DEF MutationsInvariant, Holds

-----------------------------------------------------------------------------
(* Between lists (DiscardAstAdapter, EnsureAst, Reparse).                  *)

\* u has the strings of t at other addresses.
SameStrings(u, t) ==
  /\ DOMAIN u = DOMAIN t
  /\ \A k \in DOMAIN t :
       /\ u[k].part = t[k].part /\ u[k].kind = t[k].kind /\ u[k].location = t[k].location
       /\ u[k].text = t[k].text /\ u[k].first = t[k].first /\ u[k].due = t[k].due
  /\ \A k, m \in DOMAIN t : u[k].id = u[m].id <=> t[k].id = t[m].id

\* The records but for the addresses they name.
SameRecords(out, recs) ==
  /\ DOMAIN out = DOMAIN recs
  /\ \A j \in DOMAIN recs :
       /\ out[j].index = recs[j].index /\ out[j].group = recs[j].group
       /\ out[j].original = recs[j].original /\ out[j].present = recs[j].present
       /\ out[j].spelling = recs[j].spelling

\* What the records follow does not depend on addresses.
LEMMA FollowAnywhere ==
  ASSUME NEW t, NEW u, NEW recs, NEW out, Follow(Range(recs), t), RecordsAreDistinct(recs),
         SameStrings(u, t), SameRecords(out, recs)
  PROVE  Follow(Range(out), u) /\ RecordsAreDistinct(out)
<1> DEFINE R == Range(recs)
           S == Range(out)
<1>1. /\ \A r \in R : \E s \in S : /\ s.index = r.index /\ s.group = r.group
                                   /\ s.spelling = r.spelling
      /\ \A s \in S : \E r \in R : /\ s.index = r.index /\ s.group = r.group
                                   /\ s.original = r.original /\ s.present = r.present
                                   /\ s.spelling = r.spelling
  BY DEF Range, SameRecords
<1>2. RecordsAreDistinct(out)
  BY DEF SameRecords, RecordsAreDistinct
<1>3. \A s, o \in S : s.index = o.index => s = o
  BY <1>2 DEF Range, RecordsAreDistinct
<1>4. /\ \A r \in R : r.index \in DOMAIN t /\ Describes(r, t[r.index])
      /\ \A k \in DOMAIN t : IsKnown(R, t, k)
      /\ GroupsAgree(R, t)
  BY DEF Follow
<1> HIDE DEF R, S
<1>5. /\ DOMAIN u = DOMAIN t
      /\ \A k \in DOMAIN t :
           /\ u[k].part = t[k].part /\ u[k].kind = t[k].kind /\ u[k].location = t[k].location
           /\ u[k].text = t[k].text /\ u[k].first = t[k].first /\ u[k].due = t[k].due
      /\ \A k, m \in DOMAIN t : u[k].id = u[m].id <=> t[k].id = t[m].id
  BY DEF SameStrings
<1>6. ASSUME NEW s \in S PROVE s.index \in DOMAIN u /\ Describes(s, u[s.index])
  <2>1. PICK r \in R : /\ s.index = r.index /\ s.group = r.group /\ s.original = r.original
                       /\ s.present = r.present /\ s.spelling = r.spelling
    BY <1>1
  <2>2. r.index \in DOMAIN t /\ Describes(r, t[r.index])
    BY <1>4
  <2>3. QED
    BY <1>5, <2>1, <2>2 DEF Describes
<1>7. ASSUME NEW k \in DOMAIN u PROVE IsKnown(S, u, k)
  <2>1. k \in DOMAIN t /\ IsKnown(R, t, k)
    BY <1>4, <1>5
  <2>2. (\A s \in S : s.index # k) => (\A r \in R : r.index # k)
    BY <1>1
  <2>3. (\A s \in S : s.index = k => s.spelling = NULL) => (\A r \in R : r.index = k => r.spelling = NULL)
    BY <1>1
  <2>4. (\E r \in R : r.index = k + 1 /\ r.spelling # NULL) => \E s \in S : s.index = k + 1 /\ s.spelling # NULL
    BY <1>1
  <2>5. Plain(u[k]) = Plain(t[k])
    BY <1>5, <2>1 DEF Plain
  <2>6. QED
    BY <1>5, <2>1, <2>2, <2>3, <2>4, <2>5 DEF IsKnown
<1>8. GroupsAgree(S, u)
  <2>1. ASSUME NEW s \in S, s.group # 0, NEW m \in DOMAIN u, u[m].id = u[s.index].id
        PROVE  \E o \in S : o.index = m /\ o.group = s.group
    <3>1. PICK r \in R : s.index = r.index /\ s.group = r.group
      BY <1>1
    <3>2. m \in DOMAIN t /\ t[m].id = t[r.index].id
      BY <1>4, <1>5, <2>1, <3>1
    <3>3. PICK p \in R : p.index = m /\ p.group = r.group
      BY <1>4, <2>1, <3>1, <3>2 DEF GroupsAgree
    <3>4. QED
      BY <1>1, <3>1, <3>3
  <2>2. ASSUME NEW s \in S, NEW o \in S, s.group # 0, s.group = o.group
        PROVE  u[s.index].id = u[o.index].id
    <3>1. PICK r \in R : s.index = r.index /\ s.group = r.group
      BY <1>1
    <3>2. PICK p \in R : o.index = p.index /\ o.group = p.group
      BY <1>1
    <3>3. r.index \in DOMAIN t /\ p.index \in DOMAIN t /\ r.group # 0 /\ r.group = p.group
      BY <1>4, <2>2, <3>1, <3>2
    <3>4. t[r.index].id = t[p.index].id
      BY <1>4, <3>3 DEF GroupsAgree
    <3>5. QED
      BY <1>5, <3>1, <3>2, <3>3, <3>4
  <2>3. QED
    BY <2>1, <2>2 DEF GroupsAgree
<1>9. QED
  BY <1>2, <1>3, <1>6, <1>7, <1>8 DEF Follow, S

\* The nodes of a statement, whatever their addresses.
NodesAreParted(t) ==
  \A k \in DOMAIN t :
    /\ t[k].part = 2 => /\ k > 1 /\ t[k].kind = "relation" /\ t[k - 1].kind = "relation"
                        /\ t[k - 1].part = 1 /\ t[k - 1].location = t[k].location
    /\ t[k].kind = "relation" /\ t[k].part = 1 => k < Len(t) /\ t[k + 1].part = 2

\* A tree unpacked anew is whole.
LEMMA UnpackedFacts ==
  ASSUME NEW t \in Seq(String), NodesAreParted(t)
  PROVE  LET u == Unpacked(t)
         IN  /\ TreeIsWhole(u) /\ DOMAIN u = DOMAIN t
             /\ \A k \in DOMAIN t :
                  /\ u[k].part = t[k].part /\ u[k].kind = t[k].kind /\ u[k].location = t[k].location
                  /\ u[k].text = t[k].text /\ u[k].first = t[k].first /\ u[k].due = t[k].due
                  /\ u[k].id = k + 1 - t[k].part
<1> DEFINE u == Unpacked(t)
           n == Len(t)
           Cell(k) == IF t[k].text = NoText THEN EmptyCell ELSE k
<1>1. n \in Nat /\ DOMAIN t = 1..n /\ \A k \in 1..n : t[k] \in String
  OBVIOUS
<1>2. \A k \in 1..n : t[k].part \in {1, 2}
  BY <1>1 DEF String
<1>3. u = [k \in 1..n |-> [t[k] EXCEPT !.id = k + 1 - t[k].part, !.cell = Cell(k)]]
  BY DEF Unpacked
<1> HIDE DEF u, n
<1>4. ASSUME NEW k \in 1..n
      PROVE  /\ u[k] \in String /\ u[k].id = k + 1 - t[k].part /\ u[k].cell = Cell(k)
             /\ u[k].part = t[k].part /\ u[k].kind = t[k].kind /\ u[k].location = t[k].location
             /\ u[k].text = t[k].text /\ u[k].first = t[k].first /\ u[k].due = t[k].due
  <2>1. t[k] \in String /\ t[k].part \in {1, 2}
    BY <1>1, <1>2
  <2>2. k + 1 - t[k].part \in Nat /\ Cell(k) \in Nat
    BY <1>1, <2>1 DEF EmptyCell
  <2>3. u[k] = [t[k] EXCEPT !.id = k + 1 - t[k].part, !.cell = Cell(k)]
    BY <1>3
  <2> HIDE DEF Cell
  <2>4. QED
    BY <2>1, <2>2, <2>3 DEF String
<1>5. u \in Seq(String) /\ DOMAIN u = 1..n /\ Len(u) = n
  <2>1. DOMAIN u = 1..n
    BY <1>3
  <2>2. u \in [1..n -> String]
    BY <1>3, <1>4, <2>1
  <2>3. QED
    BY <1>1, <2>1, <2>2
<1>6. AddressesDiffer(u)
  <2>1. ASSUME NEW k \in 1..n, NEW m \in 1..n
        PROVE  /\ u[k].id = u[m].id /\ u[k].part = u[m].part => k = m
               /\ u[k].cell = u[m].cell /\ u[k].cell # EmptyCell => k = m
    <3>1. t[k].part \in {1, 2} /\ t[m].part \in {1, 2}
      BY <1>2
    <3>2. QED
      BY <1>1, <1>4, <3>1
  <2>2. QED
    BY <1>5, <2>1 DEF AddressesDiffer
<1>7. NodesAreWhole(u)
  <2>1. ASSUME NEW k \in 1..n
        PROVE  /\ t[k].part = 2 => /\ k > 1 /\ t[k].kind = "relation" /\ t[k - 1].kind = "relation"
                                   /\ t[k - 1].part = 1 /\ t[k - 1].location = t[k].location
               /\ t[k].kind = "relation" /\ t[k].part = 1 => k < n /\ t[k + 1].part = 2
    BY <1>1 DEF NodesAreParted, n
  <2>2. ASSUME NEW k \in 1..n, u[k].part = 2
        PROVE  /\ k > 1 /\ u[k].kind = "relation" /\ u[k - 1].kind = "relation"
               /\ u[k - 1].part = 1 /\ u[k - 1].id = u[k].id
               /\ u[k - 1].location = u[k].location
    <3>1. t[k].part = 2 /\ k > 1
      BY <1>4, <2>1, <2>2
    <3>2. k > 1 /\ k - 1 \in 1..n /\ k - 1 + 1 - 1 = k + 1 - 2
      BY <1>1, <3>1
    <3>3. QED
      BY <1>4, <2>1, <2>2, <3>2
  <2>3. ASSUME NEW k \in 1..n, u[k].kind = "relation", u[k].part = 1
        PROVE  k < n /\ u[k + 1].part = 2 /\ u[k + 1].id = u[k].id
    <3>1. k < n /\ k + 1 \in 1..n /\ k + 1 + 1 - 2 = k + 1 - 1
      BY <1>1, <1>4, <2>1, <2>3
    <3>2. QED
      BY <1>4, <2>1, <2>3, <3>1
  <2>4. QED
    BY <1>5, <2>2, <2>3 DEF NodesAreWhole
<1>8. QED
  BY <1>1, <1>4, <1>5, <1>6, <1>7 DEF TreeIsWhole, u

\* The same strings as before.
LEMMA UnpackedSame ==
  ASSUME NEW t, TreeIsWhole(t)
  PROVE  TreeIsWhole(Unpacked(t)) /\ SameStrings(Unpacked(t), t)
<1> DEFINE u == Unpacked(t)
<1>1. t \in Seq(String) /\ NodesAreParted(t)
  BY DEF TreeIsWhole, NodesAreWhole, NodesAreParted
<1>2. /\ TreeIsWhole(u) /\ DOMAIN u = DOMAIN t
      /\ \A k \in DOMAIN t :
           /\ u[k].part = t[k].part /\ u[k].kind = t[k].kind /\ u[k].location = t[k].location
           /\ u[k].text = t[k].text /\ u[k].first = t[k].first /\ u[k].due = t[k].due
           /\ u[k].id = k + 1 - t[k].part
  BY <1>1, UnpackedFacts
<1> HIDE DEF u
<1>3. ASSUME NEW k \in DOMAIN t, NEW m \in DOMAIN t
      PROVE  u[k].id = u[m].id <=> t[k].id = t[m].id
  <2>1. /\ t[k].part \in {1, 2} /\ t[m].part \in {1, 2} /\ k \in Nat /\ m \in Nat
        /\ DOMAIN t = 1..Len(t) /\ Len(t) \in Nat
    <3>1. t[k] \in String /\ t[m] \in String /\ DOMAIN t = 1..Len(t) /\ Len(t) \in Nat
      BY <1>1
    <3>2. QED
      BY <3>1 DEF String
  <2>2. ASSUME NEW i \in DOMAIN t, t[i].part = 2
        PROVE  i - 1 \in DOMAIN t /\ t[i - 1].part = 1 /\ t[i - 1].id = t[i].id
    BY <2>1, <2>2 DEF TreeIsWhole, NodesAreWhole
  <2>3. \A i, j \in DOMAIN t : t[i].id = t[j].id /\ t[i].part = t[j].part => i = j
    BY DEF TreeIsWhole, AddressesDiffer
  <2>4. CASE t[k].part = t[m].part
    BY <1>2, <2>1, <2>3, <2>4
  <2>5. CASE t[k].part = 2 /\ t[m].part = 1
    <3>1. t[k].id = t[m].id <=> m = k - 1
      BY <2>2, <2>3, <2>5
    <3>2. u[k].id = k + 1 - 2 /\ u[m].id = m + 1 - 1
      BY <1>2, <2>5
    <3>3. QED
      BY <2>1, <3>1, <3>2
  <2>6. CASE t[k].part = 1 /\ t[m].part = 2
    <3>1. t[k].id = t[m].id <=> k = m - 1
      BY <2>2, <2>3, <2>6
    <3>2. u[m].id = m + 1 - 2 /\ u[k].id = k + 1 - 1
      BY <1>2, <2>6
    <3>3. QED
      BY <2>1, <3>1, <3>2
  <2>7. QED
    BY <2>1, <2>4, <2>5, <2>6
<1>4. QED
  BY <1>2, <1>3 DEF SameStrings, u

\* sqlparser_handle_discard_ast_adapter: records keep their ordinals only.
LEMMA DiscardKeeps ==
  ASSUME MutationsInvariant, DiscardAstAdapter
  PROVE  MutationsInvariant'
<1>1. /\ loaded' = FALSE
      /\ records' = [j \in DOMAIN records |-> [records[j] EXCEPT !.slot = NULL, !.cell = NULL]]
      /\ UNCHANGED <<tree, backing, status, steps>>
  BY DEF DiscardAstAdapter
<1>2. /\ TreeIsWhole(tree) /\ records \in Seq(Record) /\ RecordsAreDistinct(records)
      /\ Follow(Range(records), tree)
  BY DEF MutationsInvariant
<1>3. ASSUME NEW j \in DOMAIN records
      PROVE  LET r == records[j]
                 o == records'[j]
             IN  /\ o \in Record /\ o.slot = NULL /\ o.cell = NULL
                 /\ o.index = r.index /\ o.group = r.group /\ o.original = r.original
                 /\ o.present = r.present /\ o.spelling = r.spelling
  <2>1. records[j] \in Record
    BY <1>2
  <2>2. records'[j] = [records[j] EXCEPT !.slot = NULL, !.cell = NULL]
    BY <1>1
  <2>3. QED
    BY <2>1, <2>2 DEF Record
<1>4. DOMAIN records' = DOMAIN records /\ records' \in Seq(Record)
  <2>1. DOMAIN records' = DOMAIN records
    BY <1>1
  <2>2. Len(records) \in Nat /\ DOMAIN records = 1..Len(records)
    BY <1>2
  <2>3. records' = [j \in 1..Len(records) |-> records'[j]] /\ \A j \in 1..Len(records) : records'[j] \in Record
    BY <1>1, <1>3, <2>1, <2>2
  <2>4. QED
    BY <2>1, <2>2, <2>3
<1>5. SameRecords(records', records) /\ SameStrings(tree, tree)
  BY <1>3, <1>4 DEF SameRecords, SameStrings
<1>6. Follow(Range(records'), tree) /\ RecordsAreDistinct(records')
  BY <1>2, <1>5, FollowAnywhere
<1>7. Unbound(Range(records'))
  BY <1>3, <1>4 DEF Unbound, Range
<1>8. QED
  BY <1>1, <1>2, <1>4, <1>6, <1>7 DEF MutationsInvariant

\* Records that only name an ordinal find their strings in the tree unpacked anew.
LEMMA EnsureKeeps ==
  ASSUME MutationsInvariant, EnsureAst
  PROVE  MutationsInvariant'
<1> DEFINE u == Unpacked(tree)
           J == DOMAIN records
           at == [j \in J |-> records[j].index]
           out == Rebind(u, records)
<1>1. /\ ~loaded /\ loaded' = TRUE /\ tree' = u /\ records' = out
      /\ UNCHANGED <<backing, status, steps>>
  BY DEF EnsureAst
<1>2. /\ TreeIsWhole(tree) /\ records \in Seq(Record) /\ RecordsAreDistinct(records)
      /\ Follow(Range(records), tree) /\ Unbound(Range(records))
  BY <1>1 DEF MutationsInvariant
<1>3. TreeIsWhole(u) /\ SameStrings(u, tree) /\ u \in Seq(String)
  BY <1>2, UnpackedSame DEF TreeIsWhole
<1>4. DOMAIN u = DOMAIN tree
  BY <1>3 DEF SameStrings
<1> HIDE DEF u
<1>5. \A j \in J : /\ records[j] \in Record /\ records[j].index \in DOMAIN u
                   /\ records[j].slot = NULL
  BY <1>2, <1>4 DEF Follow, Unbound, Range
<1>6. AreFound(u, records, J, at)
  <2>1. \A j \in J : FoundAt(u, records[j]) = {at[j]}
    <3>1. SUFFICES ASSUME NEW j \in J PROVE FoundAt(u, records[j]) = {at[j]}
      OBVIOUS
    <3>2. FoundAt(u, records[j]) = {records[j].index} \cap DOMAIN u
      BY <1>5 DEF FoundAt
    <3>3. QED
      BY <1>5, <3>2
  <2>2. \A i, j \in J : at[i] = at[j] => i = j
    BY <1>2 DEF RecordsAreDistinct
  <2>3. at \in [J -> DOMAIN u] /\ J \in SUBSET DOMAIN records
    BY <1>5
  <2>4. QED
    BY <2>1, <2>2, <2>3 DEF AreFound
<1>7. /\ out \in Seq(Record) /\ RecordsAreDistinct(out)
      /\ out = [j \in DOMAIN records |-> BoundTo(u, records[j], at[j])]
  BY <1>2, <1>3, <1>6, RebindFacts
<1>8. ASSUME NEW j \in J
      PROVE  LET r == records[j]
                 o == out[j]
             IN  /\ o.index = r.index /\ o.group = r.group /\ o.original = r.original
                 /\ o.present = r.present /\ o.spelling = r.spelling
                 /\ o.slot = Address(u, o.index) /\ o.cell = u[o.index].cell
  <2>1. out[j] = BoundTo(u, records[j], records[j].index)
    BY <1>7
  <2> HIDE DEF out
  <2>2. QED
    BY <1>3, <1>5, <2>1, BoundToFacts
<1>9. DOMAIN out = DOMAIN records
  BY <1>7
<1> HIDE DEF out
<1>10. SameRecords(out, records)
  BY <1>8, <1>9 DEF SameRecords
<1>11. Follow(Range(out), u)
  BY <1>2, <1>3, <1>10, FollowAnywhere
<1>12. BoundIn(Range(out), u)
  BY <1>8, <1>9 DEF BoundIn, Range
<1>13. QED
  BY <1>1, <1>3, <1>7, <1>11, <1>12 DEF MutationsInvariant

\* A tree as a parse yields it has no records.
LEMMA ParsedHolds ==
  ASSUME NEW t \in Seq(String), NodesAreParted(t),
         \A k \in DOMAIN t : t[k].location = "source" /\ t[k].text = t[k].first /\ t[k].due = Plain(t[k])
  PROVE  Holds(Unpacked(t), <<>>)
<1> DEFINE u == Unpacked(t)
<1>1. /\ TreeIsWhole(u) /\ DOMAIN u = DOMAIN t
      /\ \A k \in DOMAIN t :
           /\ u[k].part = t[k].part /\ u[k].kind = t[k].kind /\ u[k].location = t[k].location
           /\ u[k].text = t[k].text /\ u[k].first = t[k].first /\ u[k].due = t[k].due
           /\ u[k].id = k + 1 - t[k].part
  BY UnpackedFacts
<1> HIDE DEF u
<1>2. Range(<<>>) = {} /\ <<>> \in Seq(Record) /\ RecordsAreDistinct(<<>>)
  BY DEF Range, RecordsAreDistinct
<1>3. \A k \in DOMAIN u : IsKnown({}, u, k)
  <2>1. \A k \in DOMAIN u : /\ u[k].location = "source" /\ u[k].text = u[k].first
                            /\ u[k].due = Plain(u[k])
    BY <1>1 DEF Plain
  <2>2. QED
    BY <2>1 DEF IsKnown
<1>4. Follow({}, u)
  BY <1>3 DEF Follow, GroupsAgree
<1>5. BoundIn({}, u)
  BY DEF BoundIn
<1>6. QED
  BY <1>1, <1>2, <1>4, <1>5 DEF Holds, u

\* sqlparser_parse_with_options_into: a parsed statement has no records.
LEMMA InitHolds ==
  ASSUME Init
  PROVE  MutationsInvariant
<1>1. PICK t \in Sources : tree = Unpacked(t)
  BY DEF Init
<1>2. /\ t \in Seq(String)
      /\ \A k \in DOMAIN t :
           /\ t[k] = NewString(t[k].id, t[k].part, t[k].kind, "source", t[k].cell, t[k].text)
           /\ t[k].part = 2 => k > 1 /\ t[k - 1].part = 1 /\ {t[k - 1].kind, t[k].kind} = {"relation"}
           /\ t[k].kind = "relation" /\ t[k].part = 1 => k < Len(t) /\ t[k + 1].part = 2
  BY SourcesAssumption DEF IsParsed
<1>3. ASSUME NEW k \in DOMAIN t
      PROVE  t[k].location = "source" /\ t[k].text = t[k].first /\ t[k].due = Plain(t[k])
  <2>1. t[k] \in String
    BY <1>2
  <2>2. /\ t[k].id \in Nat /\ t[k].part \in {1, 2} /\ t[k].kind \in Kinds /\ t[k].cell \in Nat
        /\ t[k].text \in Texts
    BY <2>1 DEF String
  <2>3. "source" \in Locations
    BY DEF Locations
  <2>4. t[k] = NewString(t[k].id, t[k].part, t[k].kind, "source", t[k].cell, t[k].text)
    BY <1>2
  <2>5. QED
    BY <2>2, <2>3, <2>4, NewStringFacts
<1>4. NodesAreParted(t)
  <2>1. ASSUME NEW k \in DOMAIN t, t[k].part = 2
        PROVE  /\ k > 1 /\ t[k].kind = "relation" /\ t[k - 1].kind = "relation"
               /\ t[k - 1].part = 1 /\ t[k - 1].location = t[k].location
    <3>1. k > 1 /\ t[k - 1].part = 1 /\ {t[k - 1].kind, t[k].kind} = {"relation"}
      BY <1>2, <2>1
    <3>2. t[k].kind = "relation" /\ t[k - 1].kind = "relation"
      BY <3>1
    <3>3. k - 1 \in DOMAIN t
      BY <1>2, <3>1
    <3>4. QED
      BY <1>3, <3>1, <3>2, <3>3
  <2>2. QED
    BY <1>2, <2>1 DEF NodesAreParted
<1>5. Holds(Unpacked(t), <<>>)
  BY <1>2, <1>3, <1>4, ParsedHolds
<1>6. QED
  BY <1>1, <1>5, BoundAssumption DEF Init, MutationsInvariant, Holds

\* The fragment's spelling of a name that a fragment brought.
LEMMA FragmentSpellingFacts ==
  ASSUME NEW t, NEW recs, Holds(t, recs), NEW k \in DOMAIN t, t[k].location = "fragment",
         t[k].text = t[k].first, t[k].text # NoText,
         \A r \in Range(recs) : r.index = k => r.spelling = NULL
  PROVE  FragmentSpelling(t, k) = Spell("fragment", t[k].first)
<1> DEFINE R == Range(recs)
           before == {q \in 1..k : t[q].id = t[k].id}
           named == {q \in before : t[q].text # NoText}
           stored == {q \in DOMAIN t : t[q].id = t[k].id /\ t[q].first # NoText}
<1>1. /\ t \in Seq(String) /\ TreeIsWhole(t) /\ Follow(R, t)
      /\ \A m \in DOMAIN t : IsKnown(R, t, m)
  BY DEF Holds, TreeIsWhole, Follow
<1>2. DOMAIN t = 1..Len(t) /\ Len(t) \in Nat /\ k \in Nat /\ 1..k \in SUBSET DOMAIN t
  BY <1>1
<1>3. \A m \in DOMAIN t : t[m].part \in {1, 2}
  <2>1. \A m \in DOMAIN t : t[m] \in String
    BY <1>1
  <2>2. QED
    BY <2>1 DEF String
\* Another string of the node is the empty schema of a relation.
<1>4. ASSUME NEW m \in DOMAIN t, t[m].id = t[k].id, m # k
      PROVE  t[m].text = NoText /\ t[m].first = NoText
  <2>1. t[m].part # t[k].part
    BY <1>1, <1>4 DEF TreeIsWhole, AddressesDiffer
  <2>2. CASE t[m].part = 2
    <3>1. /\ m > 1 /\ t[m - 1].kind = "relation" /\ t[m - 1].part = 1 /\ t[m - 1].id = t[k].id
          /\ m - 1 \in DOMAIN t
      BY <1>1, <1>2, <1>4, <2>2 DEF TreeIsWhole, NodesAreWhole
    <3>2. t[k].part = 1
      BY <1>3, <2>1, <2>2
    <3>3. m - 1 = k
      BY <1>1, <3>1, <3>2 DEF TreeIsWhole, AddressesDiffer
    <3>4. t[k].first = NoText
      BY <1>1, <3>1, <3>3 DEF IsKnown
    <3>5. QED
      BY <3>4
  <2>3. CASE t[m].part = 1
    <3>1. t[k].part = 2
      BY <1>3, <2>1, <2>3
    <3>2. /\ k > 1 /\ t[k - 1].kind = "relation" /\ t[k - 1].part = 1 /\ t[k - 1].id = t[m].id
          /\ t[k - 1].location = "fragment" /\ k - 1 \in DOMAIN t
      BY <1>1, <1>2, <1>4, <3>1 DEF TreeIsWhole, NodesAreWhole
    <3>3. m = k - 1 /\ m + 1 = k
      BY <1>1, <1>2, <2>3, <3>2 DEF TreeIsWhole, AddressesDiffer
    <3>4. t[m].first = NoText /\ (t[m].text # NoText => \E r \in R : r.index = k /\ r.spelling # NULL)
      BY <1>1, <3>2, <3>3 DEF IsKnown
    <3>5. QED
      BY <3>4
  <2>4. QED
    BY <1>3, <2>2, <2>3
<1>5. named = {k} /\ stored = {k}
  BY <1>2, <1>4
<1>6. Cardinality({k}) = 1
  BY FS_Singleton
<1>7. {p \in {k} : p <= k} = {k}
  BY <1>2
<1> DEFINE Is(q) == Cardinality({p \in {k} : p <= q}) = Cardinality({k})
           place == CHOOSE q \in {k} : Is(q)
<1>8. place = k
  <2>1. Is(k)
    BY <1>7
  <2> HIDE DEF Is
  <2>2. QED
    BY <2>1
<1>9. FragmentSpelling(t, k) =
        IF Cardinality(named) <= Cardinality(stored)
        THEN Spell("fragment",
               t[CHOOSE q \in stored :
                   Cardinality({p \in stored : p <= q}) = Cardinality(named)].first)
        ELSE NULL
  BY DEF FragmentSpelling
<1> HIDE DEF named, stored, before
<1>10. FragmentSpelling(t, k) =
         IF Cardinality({k}) <= Cardinality({k}) THEN Spell("fragment", t[place].first) ELSE NULL
  BY <1>5, <1>9, Zenon
<1> HIDE DEF place
<1>11. QED
  BY <1>6, <1>8, <1>10

-----------------------------------------------------------------------------
(* What deparse writes.                                                    *)

\* Every name is written as it is due.
LEMMA WrittenAsDue ==
  ASSUME NEW t, NEW recs, Holds(t, recs), NEW k \in DOMAIN t, t[k].text # NoText
  PROVE  Written(t, recs, k) = t[k].due
<1> DEFINE s == t[k]
           mine == {j \in Tagged(t, recs) : recs[j].index = k}
           r == recs[Smallest(mine)]
           own == IF s.location = "fragment" THEN FragmentSpelling(t, k)
                  ELSE IF s.text = s.first THEN OwnSpelling(s.location, s.text)
                  ELSE Spell("default", s.text)
<1>1. Written(t, recs, k) =
        IF mine = {} THEN own
        ELSE IF r.spelling # NULL THEN r.spelling
        ELSE IF r.present /\ s.text = r.original THEN Spell("source", r.original)
        ELSE IF s.location # "fragment" THEN Spell("default", s.text)
        ELSE own
  BY DEF Written
<1>2. s \in String /\ s.location \in {"source", "fragment", "style"} /\ IsKnown(Range(recs), t, k)
  <2>1. t[k] \in String /\ IsKnown(Range(recs), t, k)
    BY DEF Holds, TreeIsWhole, Follow
  <2>2. QED
    BY <2>1 DEF String, Locations
<1>3. \A i, j \in DOMAIN recs : recs[i].index = recs[j].index => i = j
  BY DEF Holds, RecordsAreDistinct
<1>4. \A j \in DOMAIN recs : recs[j].index = k => Describes(recs[j], s) /\ recs[j] \in Range(recs)
  BY RecordAt
<1>5. \A q \in Range(recs) : \E j \in DOMAIN recs : q = recs[j]
  BY DEF Range
<1>6. \A j \in DOMAIN recs : recs[j].index = k =>
        (j \in mine <=> recs[j].group # 0 \/ recs[j].spelling # NULL \/ s.text # recs[j].original)
  BY DEF Tagged
<1>7. mine \in SUBSET DOMAIN recs
  BY DEF Tagged
<1> HIDE DEF mine
\* Where no spelling was given, the name is due as its node spells it.
<1>8. ASSUME \A q \in Range(recs) : q.index = k => q.spelling = NULL
      PROVE  /\ s.due = Plain(s) /\ (s.location = "fragment" => s.text = s.first)
             /\ own = s.due
  <2>1. s.due = Plain(s) /\ (s.location = "fragment" => s.text = s.first)
    BY <1>2, <1>8 DEF IsKnown
  <2>2. CASE s.location = "fragment"
    <3>1. FragmentSpelling(t, k) = Spell("fragment", s.first)
      BY <1>8, <2>1, <2>2, FragmentSpellingFacts
    <3>2. QED
      BY <2>1, <2>2, <3>1 DEF Plain, OwnSpelling
  <2>3. CASE s.location # "fragment"
    BY <2>1, <2>3 DEF Plain
  <2>4. QED
    BY <2>1, <2>2, <2>3
<1>9. CASE mine = {}
  <2>1. \A q \in Range(recs) : q.index = k => q.spelling = NULL
    BY <1>5, <1>6, <1>9
  <2>2. QED
    BY <1>1, <1>8, <1>9, <2>1
<1>10. CASE mine # {}
  <2>1. PICK j \in mine : TRUE
    BY <1>10
  <2>2. j \in DOMAIN recs /\ recs[j].index = k
    BY <1>7, <2>1 DEF mine
  <2>3. mine = {j}
    BY <1>3, <1>7, <2>1, <2>2 DEF mine
  <2>4. Smallest(mine) = j
    <3>1. j \in Nat
      BY <2>2, RecordAt
    <3>2. QED
      BY <2>3, <3>1 DEF Smallest
  <2>5. r = recs[j] /\ Describes(r, s)
    BY <1>4, <2>2, <2>4
  <2> HIDE DEF r
  <2>6. CASE r.spelling # NULL
    BY <1>1, <1>10, <2>5, <2>6 DEF Describes
  <2>7. CASE r.spelling = NULL
    <3>1. \A q \in Range(recs) : q.index = k => q.spelling = NULL
      BY <1>3, <1>5, <2>2, <2>5, <2>7
    <3>2. s.due = Plain(s) /\ own = s.due
      BY <1>8, <3>1
    <3> HIDE DEF own
    <3>3. r.original = s.first /\ (r.present <=> s.first # NoText /\ s.location = "source")
      BY <2>5 DEF Describes
    <3>4. CASE r.present /\ s.text = r.original
      <4>1. s.due = Spell("source", s.text)
        BY <3>2, <3>3, <3>4 DEF Plain, OwnSpelling
      <4>2. QED
        BY <1>1, <1>10, <2>7, <3>4, <4>1
    <3>5. CASE ~(r.present /\ s.text = r.original) /\ s.location # "fragment"
      <4>1. Written(t, recs, k) = Spell("default", s.text)
        BY <1>1, <1>10, <2>7, <3>5
      <4>2. CASE s.text = s.first
        <5>1. s.location = "style"
          BY <1>2, <3>3, <3>5, <4>2
        <5>2. QED
          BY <3>2, <4>1, <4>2, <5>1 DEF Plain, OwnSpelling
      <4>3. CASE s.text # s.first
        BY <3>2, <4>1, <4>3 DEF Plain
      <4>4. QED
        BY <4>2, <4>3
    <3>6. CASE ~(r.present /\ s.text = r.original) /\ s.location = "fragment"
      BY <1>1, <1>10, <2>7, <3>2, <3>6
    <3>7. QED
      BY <3>4, <3>5, <3>6
  <2>8. QED
    BY <2>6, <2>7
<1>11. QED
  BY <1>9, <1>10

\* Deparse takes the records and writes every name as it is due.
LEMMA DeparseSucceeds ==
  ASSUME NEW t, NEW recs, Holds(t, recs)
  PROVE  /\ ~DeparseFails(t, recs)
         /\ \A k \in DOMAIN t : t[k].text # NoText =>
              Written(t, recs, k) = t[k].due /\ Written(t, recs, k).of = t[k].text
<1>1. ASSUME NEW k \in DOMAIN t, t[k].text # NoText
      PROVE  /\ Written(t, recs, k) = t[k].due /\ Written(t, recs, k).of = t[k].text
             /\ Written(t, recs, k) # NULL
  BY <1>1, WrittenAsDue, DueFacts, SpellingIsNotNull
<1>2. Tagged(t, recs) \in SUBSET DOMAIN recs
  BY DEF Tagged
<1>3. \A i, j \in DOMAIN recs : recs[i].index = recs[j].index => i = j
  BY DEF Holds, RecordsAreDistinct
<1>4. \A j \in DOMAIN recs : recs[j].original = t[recs[j].index].first
  BY RecordAt DEF Describes
<1>5. ~DeparseFails(t, recs)
  BY <1>1, <1>2, <1>3, <1>4 DEF DeparseFails
<1>6. QED
  BY <1>1, <1>5

\* sqlparser_handle_reparse_destructive: what deparse wrote is parsed, without records.
LEMMA ReparseKeeps ==
  ASSUME MutationsInvariant, Reparse
  PROVE  MutationsInvariant'
<1> DEFINE Text(k) == IF tree[k].text = NoText THEN NoText ELSE Written(tree, records, k).of
           t == [k \in DOMAIN tree |-> NewString(0, tree[k].part, tree[k].kind, "source", 0, Text(k))]
<1>1. loaded /\ UNCHANGED <<loaded, backing, steps>>
  BY DEF Reparse
<1>2. Holds(tree, records) /\ tree \in Seq(String) /\ TreeIsWhole(tree)
  BY <1>1, InvariantHolds DEF Holds, TreeIsWhole
<1>3. /\ ~DeparseFails(tree, records)
      /\ \A k \in DOMAIN tree : Text(k) = tree[k].text
  BY <1>2, DeparseSucceeds
<1>4. tree' = Unpacked(t) /\ records' = <<>> /\ status' = status
  BY <1>3 DEF Reparse
<1> HIDE DEF Text
<1>5. ASSUME NEW k \in DOMAIN tree
      PROVE  /\ t[k] \in String /\ t[k].part = tree[k].part /\ t[k].kind = tree[k].kind
             /\ t[k].location = "source" /\ t[k].text = t[k].first /\ t[k].due = Plain(t[k])
  <2>1. tree[k] \in String
    BY <1>2
  <2>2. tree[k].part \in {1, 2} /\ tree[k].kind \in Kinds /\ Text(k) \in Texts
    BY <1>3, <2>1 DEF String
  <2>3. 0 \in Nat /\ "source" \in Locations
    BY DEF Locations
  <2>4. t[k] = NewString(0, tree[k].part, tree[k].kind, "source", 0, Text(k))
    OBVIOUS
  <2> HIDE DEF t
  <2>5. QED
    BY <2>2, <2>3, <2>4, NewStringFacts
<1>6. t \in Seq(String) /\ DOMAIN t = DOMAIN tree /\ Len(t) = Len(tree)
  <2>1. DOMAIN t = DOMAIN tree /\ DOMAIN tree = 1..Len(tree) /\ Len(tree) \in Nat
    BY <1>2
  <2>2. t = [k \in 1..Len(tree) |-> t[k]] /\ \A k \in 1..Len(tree) : t[k] \in String
    BY <1>5, <2>1
  <2> HIDE DEF t
  <2>3. QED
    BY <2>1, <2>2
<1> HIDE DEF t
<1>7. NodesAreParted(t)
  <2>1. DOMAIN tree = 1..Len(tree) /\ Len(tree) \in Nat
    BY <1>2
  <2>2. ASSUME NEW k \in DOMAIN tree, t[k].part = 2
        PROVE  /\ k > 1 /\ t[k].kind = "relation" /\ t[k - 1].kind = "relation"
               /\ t[k - 1].part = 1 /\ t[k - 1].location = t[k].location
    <3>1. /\ k > 1 /\ tree[k].kind = "relation" /\ tree[k - 1].kind = "relation"
          /\ tree[k - 1].part = 1
      BY <1>2, <1>5, <2>2 DEF TreeIsWhole, NodesAreWhole
    <3>2. k - 1 \in DOMAIN tree
      BY <2>1, <3>1
    <3>3. QED
      BY <1>5, <3>1, <3>2
  <2>3. ASSUME NEW k \in DOMAIN tree, t[k].kind = "relation", t[k].part = 1
        PROVE  k < Len(t) /\ t[k + 1].part = 2
    <3>1. k < Len(tree) /\ tree[k + 1].part = 2
      BY <1>2, <1>5, <2>3 DEF TreeIsWhole, NodesAreWhole
    <3>2. k + 1 \in DOMAIN tree
      BY <2>1, <3>1
    <3>3. QED
      BY <1>5, <1>6, <3>1, <3>2
  <2>4. QED
    BY <1>6, <2>2, <2>3 DEF NodesAreParted
<1>8. Holds(tree', records')
  BY <1>4, <1>5, <1>6, <1>7, ParsedHolds
<1>9. QED
  BY <1>1, <1>4, <1>8 DEF MutationsInvariant, Holds

-----------------------------------------------------------------------------
(* Theorems: of every parse, whatever patches and lists follow, as long as *)
(* no patch runs into one of the Troubles.                                 *)

\* The records and the tree they follow stay together, step by step.
THEOREM MutationsInvariantHolds ==
  ASSUME Admitted = {}
  PROVE  Spec => []MutationsInvariant
<1>1. Init => MutationsInvariant
  BY InitHolds
<1>2. MutationsInvariant /\ [Next]_vars => MutationsInvariant'
  <2> SUFFICES ASSUME MutationsInvariant, [Next]_vars
               PROVE  MutationsInvariant'
    OBVIOUS
  <2>1. ASSUME NEW k \in DOMAIN tree, NEW given \in BOOLEAN,
               NEW text \in IF tree[k].kind = "relation" /\ tree[k].part = 1 THEN Schemas ELSE Names,
               SetName(k, text, given)
        PROVE  MutationsInvariant'
    <3>1. text \in Names \cup Schemas
      OBVIOUS
    <3>2. QED
      BY <2>1, <3>1, SetNameKeeps
  <2>2. ASSUME NEW k \in DOMAIN tree, NEW given \in BOOLEAN,
               tree[k].kind = "relation", tree[k].part = 1,
               NEW schema \in Schemas \cup {NoText}, NEW name \in Names,
               SetRelation(k, <<schema, name>>, given)
        PROVE  MutationsInvariant'
    BY <2>2, SetRelationKeeps
  <2>3. ASSUME NEW r \in NodeRanges, NEW kind \in {"none", "relation", "name"}, NEW name \in Names,
               Restructure(r[1], r[2], kind, name)
        PROVE  MutationsInvariant'
    BY <2>3, RestructureKeeps
  <2>4. CASE DiscardAstAdapter
    BY <2>4, DiscardKeeps
  <2>5. CASE EnsureAst
    BY <2>5, EnsureKeeps
  <2>6. CASE Reparse
    BY <2>6, ReparseKeeps
  <2>7. CASE UNCHANGED vars
    BY <2>7 DEF vars, MutationsInvariant, TreeIsWhole, NodesAreWhole, AddressesDiffer
  <2>8. QED
    BY <2>1, <2>2, <2>3, <2>4, <2>5, <2>6, <2>7 DEF Next
<1>3. QED
  BY <1>1, <1>2, PTL DEF Spec

\* The tree and the records hold values of their types.
THEOREM TypeOKHolds ==
  ASSUME Admitted = {}
  PROVE  Spec => []TypeOK
<1>1. MutationsInvariant => TypeOK
  BY DEF MutationsInvariant, TreeIsWhole, TypeOK
<1>2. QED
  BY <1>1, MutationsInvariantHolds, PTL

\* Records name strings of the tree, by ordinal and, if it is there, by address.
LEMMA RecordsBound ==
  ASSUME MutationsInvariant
  PROVE  RecordsAreBound
<1>1. ASSUME NEW j \in DOMAIN records
      PROVE  LET r == records[j]
             IN  /\ r.index \in DOMAIN tree
                 /\ IF loaded THEN r = BoundTo(tree, r, r.index) ELSE r.slot = NULL /\ r.cell = NULL
  <2>1. /\ records[j] \in Record /\ records[j] \in Range(records) /\ tree \in Seq(String)
        /\ records[j].index \in DOMAIN tree
    BY DEF MutationsInvariant, Follow, TreeIsWhole, Range
  <2>2. CASE loaded
    <3>1. records[j].slot = Address(tree, records[j].index) /\ records[j].cell = tree[records[j].index].cell
      BY <2>1, <2>2 DEF MutationsInvariant, BoundIn
    <3>2. QED
      BY <2>1, <2>2, <3>1, BoundToFacts
  <2>3. CASE ~loaded
    BY <2>1, <2>3 DEF MutationsInvariant, Unbound
  <2>4. QED
    BY <2>2, <2>3
<1>2. QED
  BY <1>1 DEF RecordsAreBound

\* Each record follows its own string: the ordinal, the address of the field and that
\* of the string agree after every patch, and the original text is that of the source
\* (sqlparser_handle_rebind_identifier_mutations).
THEOREM RecordsFollow ==
  ASSUME Admitted = {}
  PROVE  Spec => []RecordsFollowTheirStrings
<1>1. MutationsInvariant => RecordsFollowTheirStrings
  <2> SUFFICES ASSUME MutationsInvariant
               PROVE  RecordsFollowTheirStrings
    OBVIOUS
  <2>1. ASSUME NEW j \in DOMAIN records
        PROVE  /\ \A i \in DOMAIN records : records[i].index = records[j].index => i = j
               /\ tree[records[j].index].first = records[j].original
    BY DEF MutationsInvariant, RecordsAreDistinct, Follow, Describes, Range
  <2>2. QED
    BY <2>1, RecordsBound DEF RecordsFollowTheirStrings
<1>2. QED
  BY <1>1, MutationsInvariantHolds, PTL

\* The group of the string at k.
LEMMA GroupAtFacts ==
  ASSUME MutationsInvariant, NEW k \in DOMAIN tree
  PROVE  /\ \A r \in Range(records) : r.index = k => GroupAt(k) = r.group
         /\ GroupAt(k) # 0 => \E r \in Range(records) : r.index = k /\ GroupAt(k) = r.group
<1> DEFINE mine == {j \in DOMAIN records : records[j].index = k}
<1>1. \A i, j \in DOMAIN records : records[i].index = records[j].index => i = j
  BY DEF MutationsInvariant, RecordsAreDistinct
<1>2. DOMAIN records \in SUBSET Nat
  BY DEF MutationsInvariant
<1>3. ASSUME NEW j \in mine PROVE GroupAt(k) = records[j].group
  <2>1. mine = {j}
    BY <1>1, <1>3
  <2>2. Smallest(mine) = j
    BY <1>2, <2>1 DEF Smallest
  <2>3. QED
    BY <2>1, <2>2 DEF GroupAt
<1>4. mine = {} => GroupAt(k) = 0
  BY DEF GroupAt
<1>5. \A j \in mine : records[j] \in Range(records) /\ records[j].index = k
  BY DEF Range
<1>6. \A r \in Range(records) : r.index = k => \E j \in mine : r = records[j]
  BY DEF Range
<1> HIDE DEF mine
<1>7. QED
  BY <1>3, <1>4, <1>5, <1>6

\* The parts of a relation share a group of their own, so no patch stops with
\* "relation identifier provenance is inconsistent".
THEOREM GroupsStayTogether ==
  ASSUME Admitted = {}
  PROVE  Spec => []RelationGroupsAgree
<1>1. MutationsInvariant => RelationGroupsAgree
  <2> SUFFICES ASSUME MutationsInvariant
               PROVE  RelationGroupsAgree
    OBVIOUS
  <2> DEFINE R == Range(records)
  <2>1. /\ \A r \in R : r.index \in DOMAIN tree /\ Describes(r, tree[r.index])
        /\ GroupsAgree(R, tree) /\ status = "ok"
    BY DEF MutationsInvariant, Follow
  <2>2. \A k \in DOMAIN tree :
          /\ \A r \in R : r.index = k => GroupAt(k) = r.group
          /\ GroupAt(k) # 0 => \E r \in R : r.index = k /\ GroupAt(k) = r.group
    BY GroupAtFacts
  <2> HIDE DEF R
  <2>3. ASSUME NEW k \in DOMAIN tree, NEW m \in DOMAIN tree, GroupAt(k) # 0
        PROVE  /\ tree[k].kind = "relation"
               /\ tree[k].id = tree[m].id => GroupAt(m) = GroupAt(k)
               /\ GroupAt(m) = GroupAt(k) => tree[k].id = tree[m].id
    <3>1. PICK r \in R : r.index = k /\ GroupAt(k) = r.group
      BY <2>2, <2>3
    <3>2. tree[k].kind = "relation"
      BY <2>1, <2>3, <3>1 DEF Describes
    <3>3. ASSUME tree[k].id = tree[m].id PROVE GroupAt(m) = GroupAt(k)
      <4>1. PICK s \in R : s.index = m /\ s.group = r.group
        BY <2>1, <2>3, <3>1, <3>3 DEF GroupsAgree
      <4>2. QED
        BY <2>2, <3>1, <4>1
    <3>4. ASSUME GroupAt(m) = GroupAt(k) PROVE tree[k].id = tree[m].id
      <4>1. PICK s \in R : s.index = m /\ GroupAt(m) = s.group
        BY <2>2, <2>3, <3>4
      <4>2. r.group # 0 /\ r.group = s.group
        BY <2>3, <3>1, <3>4, <4>1
      <4>3. tree[r.index].id = tree[s.index].id
        BY <2>1, <4>2 DEF GroupsAgree
      <4>4. QED
        BY <3>1, <4>1, <4>3
    <3>5. QED
      BY <3>2, <3>3, <3>4
  <2>4. QED
    BY <2>1, <2>3 DEF RelationGroupsAgree
<1>2. QED
  BY <1>1, MutationsInvariantHolds, PTL

\* No change of a name is lost: deparse takes the records and writes a spelling of
\* the text the tree holds.
THEOREM NamesAreWritten ==
  ASSUME Admitted = {}
  PROVE  Spec => []NamesAreWrittenAsTheyStand
<1>1. MutationsInvariant => NamesAreWrittenAsTheyStand
  BY InvariantHolds, DeparseSucceeds DEF NamesAreWrittenAsTheyStand
<1>2. QED
  BY <1>1, MutationsInvariantHolds, PTL

\* And it is the spelling that the last patch of the name asked for.
THEOREM SpellingIsGiven ==
  ASSUME Admitted = {}
  PROVE  Spec => []SpellingIsTheOneGiven
<1>1. MutationsInvariant => SpellingIsTheOneGiven
  BY InvariantHolds, DeparseSucceeds DEF SpellingIsTheOneGiven
<1>2. QED
  BY <1>1, MutationsInvariantHolds, PTL
===============================================================================
