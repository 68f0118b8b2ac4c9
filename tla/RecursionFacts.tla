---------------------------- MODULE RecursionFacts ----------------------------
(***************************************************************************)
(* What proofs about recursive functions start from: every set of naturals *)
(* has a least element, hence a set that has 0 and the successor of each   *)
(* of its members has all of them.  A property that depends on a number is *)
(* proved by taking the set of the numbers that have it.  And what the      *)
(* operators on sequences do that the models are built from.               *)
(***************************************************************************)
EXTENDS Integers, SequencesExt, SequenceTheorems, WellFoundedInduction, TLAPS

\* The naturals are well-ordered.
LEMMA LeastNatural ==
    ASSUME NEW S \in SUBSET Nat, S # {}
    PROVE  \E m \in S : \A k \in S : m <= k
<1> DEFINE R == OpToRel(<, Nat)
<1>1. IsWellFoundedOn(R, Nat)
  BY NatLessThanWellFounded
<1>2. \A x, y \in Nat : <<x, y>> \in R <=> x < y
  BY DEF OpToRel
<1> HIDE DEF R
<1>3. PICK m \in S : \A k \in S : ~ (<<k, m>> \in R)
  BY <1>1, WFMin
<1>4. ASSUME NEW k \in S PROVE m <= k
  <2>1. k \in Nat /\ m \in Nat
    OBVIOUS
  <2>2. ~ (k < m)
    BY <1>2, <1>3, <2>1
  <2>3. QED
    BY <2>1, <2>2
<1>5. QED
  BY <1>4

\* Induction: the set of the numbers with a property.
LEMMA SetInduction ==
    ASSUME NEW S, 0 \in S, \A n \in Nat : n \in S => n + 1 \in S
    PROVE  Nat \subseteq S
<1> DEFINE T == Nat \ S
<1>1. SUFFICES ASSUME T # {} PROVE FALSE
  OBVIOUS
<1>2. PICK m \in T : \A k \in T : m <= k
  BY <1>1, LeastNatural
<1>3. m # 0 /\ m - 1 \in Nat /\ m - 1 \notin T
  BY <1>2
<1>4. QED
  BY <1>2, <1>3

\* Induction up to a bound, from any number.
LEMMA IntervalInduction ==
    ASSUME NEW a \in Int, NEW m \in Int, a <= m, NEW S, a \in S,
           \A n \in a..(m - 1) : n \in S => n + 1 \in S
    PROVE  a..m \subseteq S
<1> DEFINE T == {n \in Nat : a + n \in S \/ a + n > m}
<1>1. 0 \in T
  OBVIOUS
<1>2. ASSUME NEW n \in Nat, n \in T PROVE n + 1 \in T
  <2>1. CASE a + n > m
    BY <2>1
  <2>2. CASE a + n <= m - 1
    <3>1. a + n \in S /\ a + n \in a..(m - 1)
      BY <1>2, <2>2
    <3>2. (a + n) + 1 \in S
      BY <3>1
    <3>3. QED
      BY <3>2
  <2>3. CASE a + n = m
    BY <2>3
  <2>4. QED
    BY <2>1, <2>2, <2>3
<1> HIDE DEF T
<1>3. Nat \subseteq T
  BY <1>1, <1>2, SetInduction
<1>4. ASSUME NEW k \in a..m PROVE k \in S
  <2>1. k - a \in Nat /\ a + (k - a) = k /\ ~(k > m)
    OBVIOUS
  <2>2. k - a \in T
    BY <1>3, <2>1
  <2>3. QED
    BY <2>1, <2>2 DEF T
<1>5. QED
  BY <1>4

-----------------------------------------------------------------------------
(* Functions that go from each number to the next by a step.               *)

Stepwise(f, c, n, step, T) ==
  f \in [0..n -> T] /\ f[0] = c /\ \A k \in 1..n : f[k] = step[k][f[k - 1]]

\* There is such a function, with values where the steps have them.
LEMMA StepwiseExists ==
    ASSUME NEW T, NEW c \in T, NEW n \in Nat, NEW step \in [1..n -> [T -> T]]
    PROVE  \E f : Stepwise(f, c, n, step, T)
<1> DEFINE Runs(f, m) == /\ f \in [0..m -> T] /\ f[0] = c
                         /\ \A k \in 1..m : f[k] = step[k][f[k - 1]]
           S == {m \in Nat : \E f : Runs(f, m)}
<1>1. 0 \in S
  <2> DEFINE f == [k \in 0..0 |-> c]
  <2>1. Runs(f, 0)
    OBVIOUS
  <2> HIDE DEF f
  <2>2. QED
    BY <2>1
<1>2. ASSUME NEW m \in 0..(n - 1), m \in S PROVE m + 1 \in S
  <2>1. PICK f : Runs(f, m)
    BY <1>2
  <2> DEFINE g == [k \in 0..(m + 1) |-> IF k = m + 1 THEN step[m + 1][f[m]] ELSE f[k]]
  <2>2. f[m] \in T /\ step[m + 1] \in [T -> T]
    BY <2>1
  <2>3. g \in [0..(m + 1) -> T] /\ g[0] = c
    BY <2>1, <2>2
  <2>4. \A k \in 1..(m + 1) : g[k] = step[k][g[k - 1]]
    BY <2>1
  <2> HIDE DEF g
  <2>5. m + 1 \in Nat /\ Runs(g, m + 1)
    BY <2>3, <2>4
  <2>6. QED
    BY <2>5
<1>3. n \in S
  <2>1. 0 \in Int /\ n \in Int /\ 0 <= n
    OBVIOUS
  <2> HIDE DEF S
  <2>2. 0..n \subseteq S
    BY ONLY <1>1, <1>2, <2>1, IntervalInduction
  <2>3. QED
    BY <2>2
<1>4. QED
  BY <1>3 DEF Stepwise

\* A function that takes the steps as long as it has such values has them.
LEMMA StepwiseTyped ==
    ASSUME NEW T, NEW c \in T, NEW n \in Nat, NEW step \in [1..n -> [T -> T]],
           NEW f, f[0] = c, \A k \in 1..n : f[k - 1] \in T => f[k] = step[k][f[k - 1]]
    PROVE  \A k \in 0..n : f[k] \in T
<1> DEFINE S == {m \in Nat : f[m] \in T}
<1>1. 0 \in S
  OBVIOUS
<1>2. ASSUME NEW m \in 0..(n - 1), m \in S PROVE m + 1 \in S
  <2>1. m + 1 \in 1..n /\ (m + 1) - 1 = m /\ m + 1 \in Nat /\ f[m] \in T
    BY <1>2
  <2>2. f[m + 1] = step[m + 1][f[m]] /\ step[m + 1] \in [T -> T]
    BY <2>1
  <2>3. QED
    BY <2>1, <2>2
<1>3. 0 \in Int /\ n \in Int /\ 0 <= n
  OBVIOUS
<1> HIDE DEF S
<1>4. 0..n \subseteq S
  BY ONLY <1>1, <1>2, <1>3, IntervalInduction
<1>5. QED
  BY <1>4 DEF S

-----------------------------------------------------------------------------
(* Sequences.                                                              *)

\* The partial results of FlattenSeq.
LEMMA FlattenFacts ==
    ASSUME NEW T, NEW s \in Seq(Seq(T)), s # <<>>
    PROVE  \E f : /\ \A i \in 1..Len(s) : f[i] \in Seq(T)
                  /\ f[1] = s[1]
                  /\ \A i \in 2..Len(s) : f[i] = f[i - 1] \o s[i]
                  /\ FlattenSeq(s) = f[Len(s)]
<1> DEFINE Flat(f, m) == f = [i \in 1..m |-> IF i = 1 THEN s[i] ELSE f[i - 1] \o s[i]]
           S == {m \in Nat : \E f : Flat(f, m)}
<1>1. 1 \in S
  <2> DEFINE f == [i \in 1..1 |-> s[i]]
  <2>1. Flat(f, 1)
    OBVIOUS
  <2> HIDE DEF f
  <2>2. QED
    BY <2>1
<1>2. ASSUME NEW m \in 1..(Len(s) - 1), m \in S PROVE m + 1 \in S
  <2>1. PICK f : Flat(f, m)
    BY <1>2
  <2> DEFINE g == [i \in 1..(m + 1) |-> IF i = m + 1 THEN f[m] \o s[m + 1] ELSE f[i]]
  <2>2. \A i \in 1..m : f[i] = IF i = 1 THEN s[i] ELSE f[i - 1] \o s[i]
    BY <2>1
  <2>3. \A i \in 1..(m + 1) : g[i] = IF i = 1 THEN s[i] ELSE g[i - 1] \o s[i]
    <3>1. ASSUME NEW i \in 1..(m + 1), i # 1 PROVE g[i - 1] = f[i - 1] /\ i - 1 \in 1..m
      BY <3>1
    <3>2. g[1] = s[1]
      BY <2>2
    <3>3. QED
      BY <2>2, <3>1, <3>2
  <2>4. g = [i \in 1..(m + 1) |-> g[i]]
    OBVIOUS
  <2> HIDE DEF g
  <2>5. Flat(g, m + 1)
    BY <2>3, <2>4
  <2>6. m + 1 \in Nat
    OBVIOUS
  <2>7. QED
    BY <2>5, <2>6
<1>3. Len(s) \in Nat /\ Len(s) \in Int /\ 1 \in Int /\ 1 <= Len(s)
  OBVIOUS
<1>4. Len(s) \in S
  <2> HIDE DEF S
  <2>1. 1..Len(s) \subseteq S
    BY ONLY <1>1, <1>2, <1>3, IntervalInduction
  <2>2. QED
    BY <1>3, <2>1
<1> DEFINE f == CHOOSE f : Flat(f, Len(s))
<1>5. Flat(f, Len(s))
  BY <1>4
<1>6. FlattenSeq(s) = f[Len(s)]
  BY <1>3 DEF FlattenSeq
<1> HIDE DEF f
<1>7. f[1] = s[1] /\ \A i \in 2..Len(s) : f[i] = f[i - 1] \o s[i]
  <2>1. \A i \in 1..Len(s) : f[i] = IF i = 1 THEN s[i] ELSE f[i - 1] \o s[i]
    BY <1>5
  <2>2. 1 \in 1..Len(s) /\ \A i \in 2..Len(s) : i \in 1..Len(s) /\ i # 1
    BY ONLY <1>3
  <2>3. QED
    BY ONLY <2>1, <2>2
<1>8. 1..Len(s) \subseteq {i \in Nat : f[i] \in Seq(T)}
  <2> DEFINE U == {i \in Nat : f[i] \in Seq(T)}
  <2>1. 1 \in U
    BY <1>3, <1>7
  <2>2. ASSUME NEW i \in 1..(Len(s) - 1), i \in U PROVE i + 1 \in U
    <3>1. i + 1 \in 2..Len(s) /\ (i + 1) - 1 = i /\ s[i + 1] \in Seq(T)
      BY <1>3
    <3>2. f[i + 1] = f[i] \o s[i + 1]
      BY <1>7, <3>1
    <3>3. f[i] \in Seq(T)
      BY <2>2
    <3>4. f[i] \o s[i + 1] \in Seq(T)
      BY <3>1, <3>3
    <3>5. f[i + 1] \in Seq(T)
      BY ONLY <3>2, <3>4
    <3>6. i + 1 \in Nat
      OBVIOUS
    <3>7. QED
      BY <3>5, <3>6
  <2> HIDE DEF U
  <2>3. 1..Len(s) \subseteq U
    BY ONLY <1>3, <2>1, <2>2, IntervalInduction
  <2>4. QED
    BY <2>3 DEF U
<1>9. QED
  BY <1>6, <1>7, <1>8

-----------------------------------------------------------------------------
(* Sequences.                                                              *)

\* Concatenation, element by element.
LEMMA ConcatFacts ==
    ASSUME NEW T, NEW p \in Seq(T), NEW q \in Seq(T)
    PROVE  /\ p \o q \in Seq(T)
           /\ Len(p \o q) = Len(p) + Len(q)
           /\ \A j \in 1..(Len(p) + Len(q)) :
                  (p \o q)[j] = IF j <= Len(p) THEN p[j] ELSE q[j - Len(p)]
  OBVIOUS

\* An insertion makes one place and keeps the order of the others.
LEMMA InsertAtFacts ==
    ASSUME NEW T, NEW s \in Seq(T), NEW i \in 1..(Len(s) + 1), NEW e \in T
    PROVE  /\ InsertAt(s, i, e) \in Seq(T)
           /\ Len(InsertAt(s, i, e)) = Len(s) + 1
           /\ DOMAIN InsertAt(s, i, e) = 1..(Len(s) + 1)
           /\ \A j \in 1..(Len(s) + 1) :
                  InsertAt(s, i, e)[j] =
                      IF j < i THEN s[j] ELSE IF j = i THEN e ELSE s[j - 1]
<1> DEFINE left == SubSeq(s, 1, i - 1)
           right == SubSeq(s, i, Len(s))
           mid == left \o <<e>>
<1>1. left \in Seq(T) /\ Len(left) = i - 1 /\ \A j \in 1..(i - 1) : left[j] = s[j]
  OBVIOUS
<1>2. /\ right \in Seq(T) /\ Len(right) = Len(s) + 1 - i
      /\ \A j \in 1..(Len(s) + 1 - i) : right[j] = s[i + j - 1]
  OBVIOUS
<1> HIDE DEF left, right
<1>3. /\ mid \in Seq(T) /\ Len(mid) = i
      /\ \A j \in 1..i : mid[j] = IF j < i THEN s[j] ELSE e
  BY <1>1
<1> HIDE DEF mid
<1>4. /\ mid \o right \in Seq(T) /\ Len(mid \o right) = Len(s) + 1
      /\ \A j \in 1..(Len(s) + 1) :
             (mid \o right)[j] = IF j <= i THEN mid[j] ELSE right[j - i]
  <2>1. mid \in Seq(T) /\ right \in Seq(T) /\ Len(mid) = i /\ Len(mid) + Len(right) = Len(s) + 1
    BY <1>2, <1>3
  <2>2. QED
    BY <2>1, ConcatFacts, ZenonT(40)
<1>5. InsertAt(s, i, e) = mid \o right
  BY DEF InsertAt, mid, left, right
<1>6. \A j \in 1..(Len(s) + 1) : j > i => right[j - i] = s[j - 1]
  BY <1>2
<1>7. QED
  BY <1>3, <1>4, <1>5, <1>6

\* A removal closes one place and keeps the order of the others.
LEMMA RemoveAtFacts ==
    ASSUME NEW T, NEW s \in Seq(T), NEW i \in 1..Len(s)
    PROVE  /\ RemoveAt(s, i) \in Seq(T)
           /\ Len(RemoveAt(s, i)) = Len(s) - 1
           /\ DOMAIN RemoveAt(s, i) = 1..(Len(s) - 1)
           /\ \A j \in 1..(Len(s) - 1) :
                  RemoveAt(s, i)[j] = IF j < i THEN s[j] ELSE s[j + 1]
<1> DEFINE left == SubSeq(s, 1, i - 1)
           right == SubSeq(s, i + 1, Len(s))
<1>1. left \in Seq(T) /\ Len(left) = i - 1 /\ \A j \in 1..(i - 1) : left[j] = s[j]
  OBVIOUS
<1>2. /\ right \in Seq(T) /\ Len(right) = Len(s) - i
      /\ \A j \in 1..(Len(s) - i) : right[j] = s[i + j]
  OBVIOUS
<1> HIDE DEF left, right
<1>3. /\ left \o right \in Seq(T) /\ Len(left \o right) = Len(s) - 1
      /\ \A j \in 1..(Len(s) - 1) :
             (left \o right)[j] = IF j <= i - 1 THEN left[j] ELSE right[j - (i - 1)]
  <2>1. left \in Seq(T) /\ right \in Seq(T) /\ Len(left) = i - 1 /\ Len(left) + Len(right) = Len(s) - 1
    BY <1>1, <1>2
  <2>2. /\ left \o right \in Seq(T) /\ Len(left \o right) = Len(left) + Len(right)
        /\ \A j \in 1..(Len(left) + Len(right)) :
               (left \o right)[j] = IF j <= Len(left) THEN left[j] ELSE right[j - Len(left)]
    BY <2>1, ConcatFacts
  <2>3. QED
    BY <2>1, <2>2
<1>4. RemoveAt(s, i) = left \o right
  BY DEF RemoveAt, left, right
<1>5. \A j \in 1..(Len(s) - 1) : j >= i => right[j - (i - 1)] = s[j + 1]
  BY <1>2, SMTT(40)
<1>6. ASSUME NEW j \in 1..(Len(s) - 1)
      PROVE  (left \o right)[j] = IF j < i THEN s[j] ELSE s[j + 1]
  <2>1. CASE j < i
    <3>1. j <= i - 1 /\ j \in 1..(i - 1)
      BY <2>1
    <3>2. QED
      BY <1>1, <1>3, <2>1, <3>1
  <2>2. CASE j >= i
    <3>1. ~(j <= i - 1) /\ ~(j < i)
      BY <2>2
    <3>2. QED
      BY <1>3, <1>5, <2>2, <3>1
  <2>3. j < i \/ j >= i
    OBVIOUS
  <2> HIDE DEF left, right
  <2>4. QED
    BY ONLY <2>1, <2>2, <2>3
<1>7. \A t \in Seq(T) : DOMAIN t = 1..Len(t)
  OBVIOUS
<1> HIDE DEF left, right
<1>8. QED
  BY <1>3, <1>4, <1>6, <1>7
===============================================================================
