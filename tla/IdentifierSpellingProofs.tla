----------------------- MODULE IdentifierSpellingProofs -----------------------
(***************************************************************************)
(* Proofs about the spelling arena: what the locations read, what a sweep  *)
(* leaves, and when the arena refuses.                                     *)
(***************************************************************************)
EXTENDS IdentifierSpelling, RecursionFacts

\* An arena the code can be in: its index from which holes are searched is at
\* most one past the groups, and a group being built is one of them.
Arena ==
  {a \in [groups : Seq(Group), capacity : 0..MaxGroups, free : Nat \ {0},
          build : Nat \cup {NULL}, status : Statuses] :
     /\ Count(a) <= a.capacity
     /\ a.free <= Count(a) + 1
     /\ a.build = NULL \/ a.build \in 1..Count(a)}

\* No hole is before that index, unless building failed.
HolesAhead(a) == a.status = "OK" => \A g \in Holes(a) : g >= a.free

-----------------------------------------------------------------------------
(* Groups.                                                                 *)

\* A group is a sequence of at most Components texts.
LEMMA GroupFacts ==
  \A g : g \in Group <=> g \in Seq(Texts) /\ Len(g) <= Components
<1>1. Components \in Nat
  BY SizeAssumption
<1>2. ASSUME NEW g \in Group PROVE g \in Seq(Texts) /\ Len(g) <= Components
  <2>1. PICK m \in 0..Components : g \in [1..m -> Texts]
    BY DEF Group, SeqOf
  <2>2. QED
    BY <1>1, <2>1
<1>3. ASSUME NEW g \in Seq(Texts), Len(g) <= Components PROVE g \in Group
  <2>1. Len(g) \in 0..Components /\ g \in [1..Len(g) -> Texts]
    BY <1>1, <1>3
  <2>2. QED
    BY <2>1 DEF Group, SeqOf
<1>4. QED
  BY <1>2, <1>3

\* A hole is a group.
LEMMA EmptyGroup == <<>> \in Group
<1> DEFINE none == <<>>
<1>1. Components \in Nat /\ none \in Seq(Texts) /\ Len(none) = 0
      /\ Len(none) <= Components
  BY SizeAssumption
<1> HIDE DEF none
<1>2. none \in Group
  BY ONLY <1>1, GroupFacts
<1>3. QED
  BY <1>2 DEF none

\* What the fields of an arena are.
LEMMA ArenaFacts ==
  ASSUME NEW a \in Arena
  PROVE  /\ a = [groups |-> a.groups, capacity |-> a.capacity, free |-> a.free,
                 build |-> a.build, status |-> a.status]
         /\ a.groups \in Seq(Group) /\ Count(a) \in Nat /\ Count(a) <= a.capacity
         /\ DOMAIN a.groups = 1..Count(a)
         /\ a.capacity \in Nat /\ a.capacity <= MaxGroups
         /\ a.free \in Nat /\ 1 <= a.free /\ a.free <= Count(a) + 1
         /\ a.build = NULL \/ a.build \in 1..Count(a)
         /\ a.status \in Statuses
         /\ MaxGroups \in Nat /\ MaxGroups >= 1 /\ FirstCapacity \in Nat /\ FirstCapacity >= 1
         /\ FirstCapacity <= MaxGroups
<1>1. MaxGroups \in Nat \ {0} /\ FirstCapacity \in Nat \ {0} /\ FirstCapacity <= MaxGroups
  BY SizeAssumption, CapacityAssumption
<1>2. QED
  BY <1>1 DEF Arena, Count

\* A record of values of these types is an arena.
LEMMA ArenaMade ==
  ASSUME NEW groups \in Seq(Group), NEW capacity \in Nat, capacity <= MaxGroups,
         NEW free \in Nat, NEW build \in Nat \cup {NULL}, NEW status \in Statuses,
         Len(groups) <= capacity, 1 <= free, free <= Len(groups) + 1,
         build = NULL \/ build \in 1..Len(groups)
  PROVE  [groups |-> groups, capacity |-> capacity, free |-> free, build |-> build,
          status |-> status] \in Arena
<1>1. MaxGroups \in Nat
  BY SizeAssumption
<1>2. capacity \in 0..MaxGroups /\ free \in Nat \ {0}
  BY <1>1
<1>3. QED
  BY <1>2 DEF Arena, Count

-----------------------------------------------------------------------------
(* Building a group.                                                       *)

\* The search finds the first hole, or the place after the last group.
LEMMA FirstHoleFacts ==
  ASSUME NEW a \in Arena, HolesAhead(a), a.status = "OK"
  PROVE  \/ /\ FirstHole(a) \in Holes(a) /\ \A h \in Holes(a) : FirstHole(a) <= h
         \/ FirstHole(a) = Count(a) + 1 /\ Holes(a) = {}
<1> DEFINE ahead == {g \in Holes(a) : g >= a.free}
<1>1. ahead = Holes(a) /\ Holes(a) \in SUBSET Nat
  BY DEF HolesAhead, Holes
<1>2. CASE ahead = {}
  BY <1>1, <1>2 DEF FirstHole
<1>3. CASE ahead # {}
  <2>1. \E g \in ahead : \A h \in ahead : g <= h
    BY <1>1, <1>3, LeastNatural
  <2>2. FirstHole(a) = CHOOSE g \in ahead : \A h \in ahead : g <= h
    BY <1>3 DEF FirstHole
  <2>3. FirstHole(a) \in ahead /\ \A h \in ahead : FirstHole(a) <= h
    BY <2>1, <2>2
  <2>4. QED
    BY <1>1, <2>3
<1>4. QED
  BY <1>2, <1>3

\* A group is taken: a hole, or if there is none a new place at the end; or it
\* is refused, then more than half of the groups that can be numbered are there.
Refused(a, b) ==
  /\ b.groups = a.groups /\ b.build = NULL /\ b.status # "OK" /\ b.free = a.free
  /\ 2 * Count(a) > MaxGroups
Taken(a, b) ==
  /\ b.status = "OK" /\ b.build \in 1..Count(b) /\ b.free = b.build + 1
  /\ b.groups[b.build] = <<>> /\ Count(b) >= Count(a)
  /\ Count(b) > Count(a) => Holes(a) = {}
  /\ \A g \in 1..Count(a) : b.groups[g] = a.groups[g]
  /\ \A h \in Holes(b) : b.build <= h

\* Taking a group has one of these two outcomes.
LEMMA TakeGroupFacts ==
  ASSUME NEW a \in Arena, HolesAhead(a), a.status = "OK", a.build = NULL
  PROVE  TakeGroup(a) \in Arena /\ (Taken(a, TakeGroup(a)) \/ Refused(a, TakeGroup(a)))
<1> DEFINE g == FirstHole(a)
           b == TakeGroup(a)
<1>1. /\ a = [groups |-> a.groups, capacity |-> a.capacity, free |-> a.free,
              build |-> a.build, status |-> a.status]
      /\ a.groups \in Seq(Group) /\ Count(a) \in Nat /\ Count(a) <= a.capacity
      /\ DOMAIN a.groups = 1..Count(a)
      /\ a.capacity \in Nat /\ a.capacity <= MaxGroups
      /\ a.free \in Nat /\ 1 <= a.free /\ a.free <= Count(a) + 1
      /\ MaxGroups \in Nat /\ MaxGroups >= 1 /\ FirstCapacity \in Nat /\ FirstCapacity >= 1
      /\ FirstCapacity <= MaxGroups
  BY ArenaFacts
<1>2. Holes(a) \subseteq 1..Count(a) /\ \A h \in Holes(a) : a.groups[h] = <<>>
  BY DEF Holes
<1>3. CASE g \in Holes(a) /\ \A h \in Holes(a) : g <= h
  <2>1. g \in Nat /\ 1 <= g /\ g <= Count(a)
    BY <1>1, <1>2, <1>3
  <2>2. b = [a EXCEPT !.build = g, !.free = g + 1]
    BY <1>1, <2>1 DEF TakeGroup
  <2> HIDE DEF g
  <2>3. b = [groups |-> a.groups, capacity |-> a.capacity, free |-> g + 1,
             build |-> g, status |-> "OK"]
    BY <1>1, <2>2
  <2>4. Count(b) = Count(a) /\ Holes(b) = Holes(a)
    BY <2>3 DEF Count, Holes
  <2>5. b \in Arena
    <3>1. "OK" \in Statuses
      BY DEF Statuses
    <3>2. g + 1 \in Nat /\ 1 <= g + 1 /\ g + 1 <= Len(a.groups) + 1 /\ g \in 1..Len(a.groups)
      BY <1>1, <2>1 DEF Count
    <3>3. Len(a.groups) <= a.capacity
      BY <1>1 DEF Count
    <3>4. QED
      BY <1>1, <2>1, <2>3, <3>1, <3>2, <3>3, ArenaMade
  <2>6. Taken(a, b)
    BY <1>1, <1>2, <1>3, <2>1, <2>3, <2>4 DEF Taken
  <2>7. QED
    BY <2>5, <2>6
<1>4. CASE g = Count(a) + 1 /\ Holes(a) = {}
  <2>1. g \in Nat /\ ~(g <= Count(a))
    BY <1>1, <1>4
  <2> DEFINE wider == IF Count(a) = a.capacity THEN NewCapacity(a) ELSE a.capacity
  <2>2. b = IF Count(a) >= MaxGroups THEN [a EXCEPT !.status = "RESOURCE_LIMIT"]
            ELSE IF Count(a) = a.capacity /\ NewCapacity(a) > MaxGroups
            THEN [a EXCEPT !.status = "NO_MEMORY"]
            ELSE [a EXCEPT !.groups = Append(@, <<>>), !.build = g, !.free = g + 1,
                           !.capacity = wider]
    BY <1>1, <2>1 DEF TakeGroup
  <2> HIDE DEF g
  <2>3. NewCapacity(a) \in Nat /\ NewCapacity(a) >= a.capacity + 1
        /\ (NewCapacity(a) > MaxGroups => NewCapacity(a) = 2 * a.capacity)
    BY <1>1 DEF NewCapacity
  <2>4. CASE Count(a) >= MaxGroups
    <3>1. b = [groups |-> a.groups, capacity |-> a.capacity, free |-> a.free,
               build |-> NULL, status |-> "RESOURCE_LIMIT"]
      BY <1>1, <2>2, <2>4
    <3>2. "RESOURCE_LIMIT" \in Statuses /\ Len(a.groups) = Count(a)
      BY DEF Statuses, Count
    <3>3. b \in Arena
      BY <1>1, <3>1, <3>2, ArenaMade, ZenonT(40)
    <3>4. 2 * Count(a) > MaxGroups
      BY <1>1, <2>4
    <3>5. QED
      BY <3>1, <3>3, <3>4 DEF Refused
  <2>5. CASE ~(Count(a) >= MaxGroups) /\ Count(a) = a.capacity /\ NewCapacity(a) > MaxGroups
    <3>1. b = [groups |-> a.groups, capacity |-> a.capacity, free |-> a.free,
               build |-> NULL, status |-> "NO_MEMORY"]
      BY <1>1, <2>2, <2>5
    <3>2. "NO_MEMORY" \in Statuses /\ Len(a.groups) = Count(a)
      BY DEF Statuses, Count
    <3>3. b \in Arena
      BY <1>1, <3>1, <3>2, ArenaMade, ZenonT(40)
    <3>4. 2 * Count(a) > MaxGroups
      BY <1>1, <2>3, <2>5
    <3>5. QED
      BY <3>1, <3>3, <3>4 DEF Refused
  <2>6. CASE ~(Count(a) >= MaxGroups) /\ ~(Count(a) = a.capacity /\ NewCapacity(a) > MaxGroups)
    <3> DEFINE longer == Append(a.groups, <<>>)
    <3>1. b = [groups |-> longer, capacity |-> wider, free |-> g + 1,
               build |-> g, status |-> "OK"]
      BY <1>1, <2>2, <2>6
    <3>2. wider \in Nat /\ Count(a) + 1 <= wider /\ wider <= MaxGroups
      BY <1>1, <2>3, <2>6
    <3>3. /\ longer \in Seq(Group) /\ Len(longer) = Count(a) + 1 /\ longer[Count(a) + 1] = <<>>
          /\ \A h \in 1..Count(a) : longer[h] = a.groups[h]
      BY <1>1, EmptyGroup DEF Count
    <3> HIDE DEF longer, wider, b
    <3>4. b \in Arena
      <4>1. "OK" \in Statuses
        BY DEF Statuses
      <4>2. g + 1 \in Nat /\ 1 <= g + 1 /\ g + 1 <= Len(longer) + 1 /\ g \in 1..Len(longer)
        BY <1>1, <1>4, <2>1, <3>3
      <4>3. Len(longer) <= wider
        BY <3>2, <3>3
      <4>4. QED
        BY <2>1, <3>1, <3>2, <3>3, <4>1, <4>2, <4>3, ArenaMade
    <3>5. Count(b) = Count(a) + 1 /\ b.groups = longer /\ b.build = g /\ b.free = g + 1
          /\ b.status = "OK" /\ g = Count(a) + 1
      BY <1>4, <3>1, <3>3 DEF Count
    <3>6. \A h \in Holes(b) : g <= h
      <4>1. ASSUME NEW h \in Holes(b), h < g PROVE FALSE
        <5>1. h \in 1..Count(a) /\ longer[h] = <<>>
          BY <1>1, <3>5, <4>1 DEF Holes
        <5>2. h \in Holes(a)
          BY <3>3, <5>1 DEF Holes
        <5>3. QED
          BY <1>4, <5>2
      <4>2. Holes(b) \subseteq Nat
        BY DEF Holes
      <4>3. QED
        BY <2>1, <4>1, <4>2
    <3>7. Taken(a, b)
      BY <1>1, <1>4, <3>3, <3>5, <3>6 DEF Taken
    <3>8. QED
      BY <3>4, <3>7 DEF b
  <2>7. QED
    BY <2>4, <2>5, <2>6
<1>5. QED
  BY <1>3, <1>4, FirstHoleFacts

\* The groups of a are those of b or, at its end, begin them.
Extends(a, b) ==
  /\ Count(a) <= Count(b)
  /\ \A g \in 1..Count(a) :
       /\ Len(a.groups[g]) <= Len(b.groups[g])
       /\ \A k \in 1..Len(a.groups[g]) : b.groups[g][k] = a.groups[g][k]

\* An arena with the same groups extends the arena.
LEMMA ExtendsSame ==
  ASSUME NEW a \in Arena, NEW b, b.groups = a.groups
  PROVE  Extends(a, b)
<1>1. a.groups \in Seq(Group) /\ Count(a) \in Nat /\ DOMAIN a.groups = 1..Count(a)
  BY ArenaFacts
<1>2. \A g \in 1..Count(a) : Len(a.groups[g]) \in Nat
  BY <1>1, GroupFacts
<1>3. QED
  BY <1>1, <1>2 DEF Extends, Count

\* Only adding to groups, twice, is only adding to them.
LEMMA ExtendsTransitive ==
  ASSUME NEW a \in Arena, NEW b \in Arena, NEW c \in Arena, Extends(a, b), Extends(b, c)
  PROVE  Extends(a, c)
<1>1. /\ Count(a) \in Nat /\ Count(b) \in Nat /\ Count(c) \in Nat
      /\ a.groups \in Seq(Group) /\ b.groups \in Seq(Group) /\ c.groups \in Seq(Group)
      /\ DOMAIN a.groups = 1..Count(a) /\ DOMAIN b.groups = 1..Count(b)
      /\ DOMAIN c.groups = 1..Count(c)
  BY ArenaFacts
<1>2. Count(a) <= Count(c)
  BY <1>1 DEF Extends
<1>3. ASSUME NEW g \in 1..Count(a)
      PROVE  /\ Len(a.groups[g]) <= Len(c.groups[g])
             /\ \A k \in 1..Len(a.groups[g]) : c.groups[g][k] = a.groups[g][k]
  <2>1. g \in 1..Count(b) /\ g \in 1..Count(c)
    BY <1>1 DEF Extends
  <2>2. a.groups[g] \in Group /\ b.groups[g] \in Group /\ c.groups[g] \in Group
    BY <1>1, <2>1
  <2>3. Len(a.groups[g]) \in Nat /\ Len(b.groups[g]) \in Nat /\ Len(c.groups[g]) \in Nat
    BY <2>2, GroupFacts
  <2>4. /\ Len(a.groups[g]) <= Len(b.groups[g])
        /\ \A k \in 1..Len(a.groups[g]) : b.groups[g][k] = a.groups[g][k]
    BY DEF Extends
  <2>5. /\ Len(b.groups[g]) <= Len(c.groups[g])
        /\ \A k \in 1..Len(b.groups[g]) : c.groups[g][k] = b.groups[g][k]
    BY <2>1 DEF Extends
  <2>6. Len(a.groups[g]) <= Len(c.groups[g])
    BY ONLY <2>3, <2>4, <2>5
  <2>7. ASSUME NEW k \in 1..Len(a.groups[g]) PROVE c.groups[g][k] = a.groups[g][k]
    <3>1. k \in 1..Len(b.groups[g])
      BY ONLY <2>3, <2>4, k \in 1..Len(a.groups[g])
    <3>2. c.groups[g][k] = b.groups[g][k]
      BY ONLY <2>5, <3>1
    <3>3. b.groups[g][k] = a.groups[g][k]
      BY ONLY <2>4, k \in 1..Len(a.groups[g])
    <3>4. QED
      BY ONLY <3>2, <3>3
  <2>8. QED
    BY ONLY <2>6, <2>7
<1>4. QED
  BY <1>2, <1>3 DEF Extends

\* A group is taken of an arena that has begun one message: nothing is written over.
LEMMA TakenExtends ==
  ASSUME NEW a \in Arena, NEW b \in Arena, Taken(a, b)
  PROVE  Extends(a, b)
<1>1. a.groups \in Seq(Group) /\ Count(a) \in Nat /\ DOMAIN a.groups = 1..Count(a) /\ Count(b) \in Nat
  BY ArenaFacts
<1>2. \A g \in 1..Count(a) : Len(a.groups[g]) \in Nat
  BY <1>1, GroupFacts
<1>3. Count(a) <= Count(b) /\ \A g \in 1..Count(a) : b.groups[g] = a.groups[g]
  BY <1>1 DEF Taken
<1>4. QED
  BY <1>2, <1>3 DEF Extends

\* A text is put at the end of the group being built, unless that is full.
Written(b, c, text) ==
  /\ c.status = "OK" /\ c.build = b.build /\ c.free = b.free /\ Count(c) = Count(b)
  /\ c.groups[b.build] = Append(b.groups[b.build], text)
  /\ \A g \in 1..Count(b) : g # b.build => c.groups[g] = b.groups[g]

\* Writing one more text adds to the group being built and to no other.
LEMMA WriteFacts ==
  ASSUME NEW b \in Arena, b.status = "OK", b.build # NULL, NEW text \in Texts,
         Len(b.groups[b.build]) < Components,
         NEW c, c = [b EXCEPT !.groups[b.build] = Append(@, text)]
  PROVE  c \in Arena /\ Written(b, c, text) /\ Extends(b, c)
<1>1. /\ b = [groups |-> b.groups, capacity |-> b.capacity, free |-> b.free,
              build |-> b.build, status |-> b.status]
      /\ b.groups \in Seq(Group) /\ Count(b) \in Nat /\ Count(b) <= b.capacity
      /\ DOMAIN b.groups = 1..Count(b)
      /\ b.capacity \in Nat /\ b.capacity <= MaxGroups
      /\ b.free \in Nat /\ 1 <= b.free /\ b.free <= Count(b) + 1
      /\ b.build \in 1..Count(b)
  BY ArenaFacts
<1> DEFINE old == b.groups[b.build]
           new == Append(old, text)
           groups == [b.groups EXCEPT ![b.build] = new]
<1>2. old \in Group /\ old \in Seq(Texts) /\ Len(old) \in Nat
  BY <1>1, GroupFacts
<1>3. /\ new \in Seq(Texts) /\ Len(new) = Len(old) + 1
      /\ \A k \in 1..Len(old) : new[k] = old[k]
  BY <1>2
<1>4. new \in Group
  <2>1. Components \in Nat /\ Len(old) < Components
    BY SizeAssumption
  <2>2. Len(new) <= Components
    BY <1>2, <1>3, <2>1
  <2>3. QED
    BY <1>3, <2>2, GroupFacts
<1> HIDE DEF new
<1>5. groups \in Seq(Group) /\ Len(groups) = Count(b) /\ DOMAIN groups = 1..Count(b)
  BY <1>1, <1>4 DEF Count
<1>6. /\ groups[b.build] = new
      /\ \A g \in 1..Count(b) : g # b.build => groups[g] = b.groups[g]
  BY <1>1
<1>7. c = [groups |-> groups, capacity |-> b.capacity, free |-> b.free,
           build |-> b.build, status |-> "OK"]
  BY <1>1 DEF new
<1> HIDE DEF groups, old
<1>8. c \in Arena
  <2>1. "OK" \in Statuses
    BY DEF Statuses
  <2>2. b.build \in Nat /\ b.build \in 1..Len(groups) /\ Len(groups) <= b.capacity
        /\ b.free <= Len(groups) + 1
    BY <1>1, <1>5
  <2>3. QED
    BY ONLY <1>1, <1>5, <1>7, <2>1, <2>2, ArenaMade
<1>9. Written(b, c, text)
  <2>1. /\ c.groups = groups /\ c.status = "OK" /\ c.build = b.build /\ c.free = b.free
        /\ Count(c) = Count(b)
    BY ONLY <1>5, <1>7 DEF Count
  <2>2. c.groups[b.build] = Append(b.groups[b.build], text)
    BY ONLY <1>6, <2>1 DEF new, old
  <2>3. QED
    BY ONLY <1>6, <2>1, <2>2 DEF Written
<1>10. Extends(b, c)
  <2>1. Count(c) = Count(b) /\ c.groups = groups
    BY <1>5, <1>7 DEF Count
  <2>2. ASSUME NEW g \in 1..Count(b)
        PROVE  /\ Len(b.groups[g]) <= Len(c.groups[g])
               /\ \A k \in 1..Len(b.groups[g]) : c.groups[g][k] = b.groups[g][k]
    <3>1. CASE g = b.build
      BY <1>2, <1>3, <1>6, <2>1, <3>1 DEF old
    <3>2. CASE g # b.build
      <4>1. c.groups[g] = b.groups[g]
        BY <1>6, <2>1, <3>2
      <4>2. Len(b.groups[g]) \in Nat
        BY <1>1, GroupFacts
      <4>3. QED
        BY <4>1, <4>2
    <3>3. QED
      BY <3>1, <3>2
  <2>3. QED
    BY <1>1, <2>1, <2>2 DEF Extends
<1>11. QED
  BY <1>8, <1>9, <1>10

Sound == {a \in Arena : HolesAhead(a)}

\* Beginning a group changes none.
LEMMA BeginFacts ==
  ASSUME NEW a \in Sound
  PROVE  /\ Begin(a) \in Sound /\ Begin(a).groups = a.groups /\ Begin(a).build = NULL
         /\ Begin(a).status = a.status /\ Count(Begin(a)) = Count(a)
         /\ Holes(Begin(a)) = Holes(a) /\ Extends(a, Begin(a))
<1>1. a \in Arena /\ HolesAhead(a)
  BY DEF Sound
<1>2. /\ a = [groups |-> a.groups, capacity |-> a.capacity, free |-> a.free,
              build |-> a.build, status |-> a.status]
      /\ a.groups \in Seq(Group) /\ Count(a) \in Nat /\ Count(a) <= a.capacity
      /\ a.capacity \in Nat /\ a.capacity <= MaxGroups
      /\ a.free \in Nat /\ 1 <= a.free /\ a.free <= Count(a) + 1
      /\ a.status \in Statuses
  BY <1>1, ArenaFacts
<1>3. Begin(a) = [groups |-> a.groups, capacity |-> a.capacity, free |-> a.free,
                  build |-> NULL, status |-> a.status]
  BY <1>2 DEF Begin
<1>4. Begin(a) \in Arena
  <2>1. Len(a.groups) = Count(a) /\ NULL \in Nat \cup {NULL}
    BY DEF Count
  <2>2. QED
    BY <1>2, <1>3, <2>1, ArenaMade, SMTT(40)
<1>5. Count(Begin(a)) = Count(a) /\ Holes(Begin(a)) = Holes(a)
  BY <1>3 DEF Count, Holes
<1>6. HolesAhead(Begin(a))
  BY <1>1, <1>3, <1>5 DEF HolesAhead
<1>7. Extends(a, Begin(a))
  BY <1>1, <1>3, ExtendsSame
<1>8. QED
  BY <1>3, <1>4, <1>5, <1>6, <1>7 DEF Sound

\* The arena as it is but for its status.
LEMMA FailedArena ==
  ASSUME NEW a \in Arena, NEW status \in Statuses \ {"OK"},
         NEW c, c = [a EXCEPT !.status = status]
  PROVE  /\ c \in Sound /\ c.groups = a.groups /\ c.build = a.build /\ c.status = status
         /\ Count(c) = Count(a)
<1>1. /\ a = [groups |-> a.groups, capacity |-> a.capacity, free |-> a.free,
              build |-> a.build, status |-> a.status]
      /\ a.groups \in Seq(Group) /\ Count(a) \in Nat /\ Count(a) <= a.capacity
      /\ a.capacity \in Nat /\ a.capacity <= MaxGroups
      /\ a.free \in Nat /\ 1 <= a.free /\ a.free <= Count(a) + 1
      /\ a.build = NULL \/ a.build \in 1..Count(a)
  BY ArenaFacts
<1>2. c = [groups |-> a.groups, capacity |-> a.capacity, free |-> a.free,
           build |-> a.build, status |-> status]
  BY <1>1
<1>3. c \in Arena
  <2>1. Len(a.groups) = Count(a) /\ a.build \in Nat \cup {NULL}
    BY <1>1 DEF Count
  <2>2. QED
    BY <1>1, <1>2, <2>1, ArenaMade, SMTT(40)
<1>4. QED
  BY <1>2, <1>3 DEF Sound, HolesAhead, Count

\* sqlparser_handle_append_identifier_spelling leaves alone an arena that has
\* failed, takes a group for the first text, and puts the others after it.
LEMMA AppendSpellingFacts ==
  ASSUME NEW b \in Sound, NEW text \in Texts, NEW c, c = AppendSpelling(b, text)
  PROVE  /\ c \in Sound /\ Extends(b, c)
         /\ b.status # "OK" => c = b
         /\ b.status = "OK" /\ b.build = NULL =>
              \/ Refused(b, c)
              \/ /\ c.status = "OK" /\ c.build # NULL /\ c.groups[c.build] = <<text>>
                 /\ Count(c) > Count(b) => Holes(b) = {}
         /\ b.status = "OK" /\ b.build # NULL =>
              /\ c.build = b.build /\ Count(c) = Count(b)
              /\ c.status = "OK" => c.groups[c.build] = Append(b.groups[b.build], text)
<1>1. b \in Arena /\ HolesAhead(b)
  BY DEF Sound
<1>2. CASE b.status # "OK"
  <2>1. c = b
    BY <1>2 DEF AppendSpelling
  <2>2. Extends(b, c)
    BY <1>1, <2>1, ExtendsSame
  <2>3. QED
    BY <1>2, <2>1, <2>2
<1> DEFINE Full(d) == Len(d.groups[d.build]) >= Components
           Put(d) == [d EXCEPT !.groups[d.build] = Append(@, text)]
\* What happens in the arena d that has the group to be built.
<1>3. ASSUME NEW d \in Arena, d.status = "OK", d.build # NULL, d.build \in 1..Count(d),
             \A h \in Holes(d) : h # d.build => h >= d.free
      PROVE  /\ Full(d) => [d EXCEPT !.status = "RESOURCE_LIMIT"] \in Sound
             /\ ~Full(d) => /\ Put(d) \in Sound /\ Extends(d, Put(d)) /\ Put(d).status = "OK"
                            /\ Put(d).build = d.build /\ Count(Put(d)) = Count(d)
                            /\ Put(d).groups[d.build] = Append(d.groups[d.build], text)
  <2>1. Full(d) => [d EXCEPT !.status = "RESOURCE_LIMIT"] \in Sound
    <3>1. "RESOURCE_LIMIT" \in Statuses \ {"OK"}
      BY DEF Statuses
    <3>2. QED
      BY <3>1, FailedArena
  <2>2. ASSUME ~Full(d)
        PROVE  Put(d) \in Arena /\ Written(d, Put(d), text) /\ Extends(d, Put(d))
    <3>1. d.groups[d.build] \in Seq(Texts) /\ Components \in Nat
      BY <1>3, ArenaFacts, GroupFacts, SizeAssumption
    <3>2. Len(d.groups[d.build]) < Components
      BY <2>2, <3>1
    <3>3. QED
      BY <1>3, <3>2, WriteFacts
  <2>3. ASSUME ~Full(d) PROVE HolesAhead(Put(d))
    <3> DEFINE e == Put(d)
    <3>1. Written(d, e, text)
      BY <2>2, <2>3
    <3> HIDE DEF e
    <3>2. ASSUME NEW h \in Holes(e) PROVE h >= e.free
      <4>1. h \in 1..Count(d) /\ e.groups[h] = <<>>
        BY <3>1 DEF Holes, Written
      <4>2. d.groups[d.build] \in Seq(Texts)
        BY <1>3, ArenaFacts, GroupFacts
      <4>3. Append(d.groups[d.build], text) # <<>>
        BY <4>2
      <4>4. h # d.build /\ d.groups[h] = <<>>
        BY <3>1, <4>1, <4>3 DEF Written
      <4>5. h \in Holes(d)
        BY <4>1, <4>4 DEF Holes
      <4>6. QED
        BY <1>3, <3>1, <4>4, <4>5 DEF Written
    <3>3. QED
      BY <3>2 DEF HolesAhead, e
  <2>4. QED
    BY <2>1, <2>2, <2>3 DEF Sound, Written
<1>4. CASE b.status = "OK" /\ b.build = NULL
  <2> DEFINE d == TakeGroup(b)
  <2>1. d \in Arena /\ (Taken(b, d) \/ Refused(b, d))
    BY <1>1, <1>4, TakeGroupFacts
  <2>2. c = IF d.status # "OK" THEN d ELSE IF Full(d) THEN [d EXCEPT !.status = "RESOURCE_LIMIT"]
            ELSE Put(d)
    BY <1>4 DEF AppendSpelling
  <2> HIDE DEF d
  <2>3. CASE Refused(b, d)
    <3>1. c = d
      BY <2>2, <2>3 DEF Refused
    <3>2. d \in Sound
      BY <2>1, <2>3 DEF Sound, HolesAhead, Refused
    <3>3. Extends(b, d)
      BY <1>1, <2>3, ExtendsSame DEF Refused
    <3>4. QED
      BY <1>4, <2>3, <3>1, <3>2, <3>3
  <2>4. CASE Taken(b, d)
    <3>1. /\ d.status = "OK" /\ d.build \in 1..Count(d) /\ d.groups[d.build] = <<>>
          /\ d.build \in Nat /\ Count(d) \in Nat /\ d.free = d.build + 1
          /\ \A h \in Holes(d) : d.build <= h
      BY <2>1, <2>4, ArenaFacts DEF Taken
    <3>2. d.build # NULL
      BY <3>1, NullAssumption
    <3>3. \A h \in Holes(d) : h # d.build => h >= d.free
      <4>1. Holes(d) \subseteq Nat
        BY DEF Holes
      <4>2. QED
        BY <3>1, <4>1
    <3>4. ~Full(d)
      <4>1. Len(d.groups[d.build]) = 0 /\ Components \in Nat \ {0}
        BY <3>1, SizeAssumption
      <4>2. QED
        BY <4>1
    <3>5. c = Put(d)
      BY <2>2, <3>1, <3>4
    <3>6. /\ c \in Sound /\ Extends(d, c) /\ c.status = "OK" /\ c.build = d.build
          /\ Count(c) = Count(d) /\ c.groups[d.build] = Append(d.groups[d.build], text)
      BY <1>3, <2>1, <3>1, <3>2, <3>3, <3>4, <3>5
    <3>7. c.groups[c.build] = <<text>>
      BY <3>1, <3>6
    <3>8. Extends(b, c)
      <4>1. Extends(b, d) /\ c \in Arena
        BY <1>1, <2>1, <2>4, <3>6, TakenExtends DEF Sound
      <4>2. QED
        BY <1>1, <2>1, <3>6, <4>1, ExtendsTransitive
    <3>9. Count(c) > Count(b) => Holes(b) = {}
      BY <2>4, <3>6 DEF Taken
    <3>10. QED
      BY ONLY <1>4, <3>2, <3>6, <3>7, <3>8, <3>9
  <2>5. QED
    BY <2>1, <2>3, <2>4
<1>5. CASE b.status = "OK" /\ b.build # NULL
  <2>1. c = IF Full(b) THEN [b EXCEPT !.status = "RESOURCE_LIMIT"] ELSE Put(b)
    BY <1>5 DEF AppendSpelling
  <2>2. b.build \in 1..Count(b)
    BY <1>1, <1>5, ArenaFacts
  <2>3. \A h \in Holes(b) : h # b.build => h >= b.free
    BY <1>1, <1>5 DEF HolesAhead
  <2>4. CASE Full(b)
    <3>1. "RESOURCE_LIMIT" \in Statuses \ {"OK"}
      BY DEF Statuses
    <3>2. c \in Sound /\ c.groups = b.groups /\ c.build = b.build /\ c.status = "RESOURCE_LIMIT"
          /\ Count(c) = Count(b)
      BY <1>1, <2>1, <2>4, <3>1, FailedArena
    <3>3. Extends(b, c)
      BY <1>1, <3>2, ExtendsSame
    <3>4. QED
      BY <1>5, <3>2, <3>3
  <2>5. CASE ~Full(b)
    <3>1. c = Put(b)
      BY <2>1, <2>5
    <3>2. /\ c \in Sound /\ Extends(b, c) /\ c.status = "OK" /\ c.build = b.build
          /\ Count(c) = Count(b) /\ c.groups[b.build] = Append(b.groups[b.build], text)
      BY <1>1, <1>3, <1>5, <2>2, <2>3, <2>5, <3>1
    <3>3. QED
      BY ONLY <1>5, <3>2
  <2>6. QED
    BY <2>4, <2>5
<1>6. QED
  BY <1>2, <1>4, <1>5

\* The arena b after the first k texts of a message, begun in the arena a.
Built(a, b, texts, k) ==
  /\ b \in Sound /\ Extends(a, b)
  /\ Count(b) > Count(a) => Holes(a) = {}
  /\ b.status = "OK" =>
       /\ a.status = "OK"
       /\ IF k = 0 THEN b = a
          ELSE b.build # NULL /\ b.groups[b.build] = SubSeq(texts, 1, k)
  /\ a.status = "OK" /\ b.status # "OK" /\ b.build = NULL => 2 * Count(a) > MaxGroups

\* One more identifier of a message: the state after k - 1 of them becomes that
\* after k, whether the arena takes it or has refused.
LEMMA BuiltStep ==
  ASSUME NEW a \in Sound, a.build = NULL, NEW texts \in Seq(Texts),
         NEW k \in 1..Len(texts), NEW b, Built(a, b, texts, k - 1)
  PROVE  Built(a, AppendSpelling(b, texts[k]), texts, k)
<1> DEFINE c == AppendSpelling(b, texts[k])
<1>1. texts[k] \in Texts /\ k \in Nat /\ k # 0 /\ a \in Arena /\ b \in Sound /\ b \in Arena
  BY DEF Built, Sound
<1>2. /\ c \in Sound /\ Extends(b, c)
      /\ b.status # "OK" => c = b
      /\ b.status = "OK" /\ b.build = NULL =>
           \/ Refused(b, c)
           \/ /\ c.status = "OK" /\ c.build # NULL /\ c.groups[c.build] = <<texts[k]>>
              /\ Count(c) > Count(b) => Holes(b) = {}
      /\ b.status = "OK" /\ b.build # NULL =>
           /\ c.build = b.build /\ Count(c) = Count(b)
           /\ c.status = "OK" => c.groups[c.build] = Append(b.groups[b.build], texts[k])
  BY <1>1, AppendSpellingFacts
<1> SUFFICES Built(a, c, texts, k)
  OBVIOUS
<1> HIDE DEF c
<1>3. c \in Arena /\ Count(a) \in Nat /\ Count(b) \in Nat /\ Count(c) \in Nat
  BY <1>1, <1>2, ArenaFacts DEF Sound
<1>4. Extends(a, c)
  BY <1>1, <1>2, <1>3, ExtendsTransitive DEF Built
<1>5. CASE b.status # "OK"
  BY <1>2, <1>4, <1>5 DEF Built
<1>6. CASE b.status = "OK" /\ k = 1
  <2>1. b = a
    BY <1>6 DEF Built
  <2>2. CASE Refused(b, c)
    <3>1. Count(c) = Count(a) /\ c.status # "OK" /\ 2 * Count(a) > MaxGroups
      BY <2>1, <2>2 DEF Refused, Count
    <3>2. QED
      BY <1>2, <1>3, <1>4, <3>1 DEF Built
  <2>3. CASE /\ c.status = "OK" /\ c.build # NULL /\ c.groups[c.build] = <<texts[k]>>
             /\ Count(c) > Count(b) => Holes(b) = {}
    <3>1. SubSeq(texts, 1, k) = <<texts[k]>>
      <4>1. SubSeq(texts, 1, 1) = <<texts[1]>>
        <5> DEFINE s == SubSeq(texts, 1, 1)
                   t == <<texts[1]>>
        <5>1. s \in Seq(Texts) /\ t \in Seq(Texts) /\ Len(s) = 1 /\ Len(t) = 1
          BY <1>1, <1>6
        <5>2. s[1] = texts[1] /\ t[1] = texts[1]
          BY <1>1, <1>6
        <5> HIDE DEF s, t
        <5>3. \A j \in 1..Len(s) : s[j] = t[j]
          BY <5>1, <5>2
        <5>4. QED
          BY <5>1, <5>3, SeqEqual DEF s, t
      <4>2. QED
        BY <1>6, <4>1
    <3>2. QED
      BY <1>1, <1>2, <1>4, <1>6, <2>1, <2>3, <3>1 DEF Built
  <2>4. QED
    BY <1>2, <1>6, <2>1, <2>2, <2>3
<1>7. CASE b.status = "OK" /\ k # 1
  <2>1. k - 1 # 0 /\ a.status = "OK" /\ b.build # NULL
        /\ b.groups[b.build] = SubSeq(texts, 1, k - 1)
    BY <1>1, <1>7 DEF Built
  <2>2. Append(SubSeq(texts, 1, k - 1), texts[k]) = SubSeq(texts, 1, k)
    BY <1>1
  <2>3. /\ c.build = b.build /\ Count(c) = Count(b)
        /\ c.status = "OK" => c.groups[c.build] = SubSeq(texts, 1, k)
    BY <1>2, <1>7, <2>1, <2>2
  <2>4. Count(c) > Count(a) => Holes(a) = {}
    BY <2>3 DEF Built
  <2>5. QED
    BY <1>1, <1>2, <1>4, <2>1, <2>3, <2>4 DEF Built
<1>8. QED
  BY <1>5, <1>6, <1>7

\* A message in the arena: each identifier of a fragment is kept in one group
\* of its own, nothing that was there is written over, and the arena grows only
\* when it has no hole.
LEMMA SpelledFacts ==
  ASSUME NEW a \in Sound, NEW texts \in Seq(Texts)
  PROVE  Built(Begin(a), Spelled(a, texts), texts, Len(texts))
<1> DEFINE n == Len(texts)
           first == Begin(a)
           Recursion(f) == f = [k \in 0..n |-> IF k = 0 THEN first
                                               ELSE AppendSpelling(f[k - 1], texts[k])]
<1>1. /\ n \in Nat /\ \A k \in 1..n : texts[k] \in Texts
      /\ first \in Sound /\ first.build = NULL
  BY BeginFacts
<1>2. \E f : Recursion(f)
  <2> DEFINE step == [k \in 1..n |-> [b \in Sound |-> AppendSpelling(b, texts[k])]]
  <2>1. step \in [1..n -> [Sound -> Sound]]
    <3>1. ASSUME NEW k \in 1..n, NEW b \in Sound PROVE AppendSpelling(b, texts[k]) \in Sound
      <4>1. texts[k] \in Texts
        BY <1>1
      <4>2. QED
        BY <4>1, AppendSpellingFacts
    <3>2. QED
      BY <3>1
  <2>2. \A k \in 1..n, b \in Sound : step[k][b] = AppendSpelling(b, texts[k])
    OBVIOUS
  <2> HIDE DEF step, n, first, Recursion
  <2>3. PICK f : Stepwise(f, first, n, step, Sound)
    BY <1>1, <2>1, StepwiseExists
  <2>4. /\ f \in [0..n -> Sound] /\ f[0] = first
        /\ \A k \in 1..n : f[k] = step[k][f[k - 1]]
    BY <2>3 DEF Stepwise
  <2>5. \A k \in 1..n : f[k] = AppendSpelling(f[k - 1], texts[k])
    <3>1. \A k \in 1..n : k - 1 \in 0..n
      BY <1>1
    <3>2. QED
      BY <2>2, <2>4, <3>1
  <2>6. \A k \in 0..n : f[k] = IF k = 0 THEN first ELSE AppendSpelling(f[k - 1], texts[k])
    <3>1. \A k \in 0..n : k = 0 \/ k \in 1..n
      BY <1>1
    <3>2. QED
      BY <2>4, <2>5, <3>1
  <2>7. Recursion(f)
    BY <2>4, <2>6 DEF Recursion
  <2>8. QED
    BY <2>7
<1> DEFINE built == CHOOSE f : Recursion(f)
<1>3. Recursion(built)
  BY <1>2
<1>4. Spelled(a, texts) = built[n]
  BY DEF Spelled
<1> HIDE DEF built
<1>5. \A k \in 0..n : built[k] = IF k = 0 THEN first ELSE AppendSpelling(built[k - 1], texts[k])
  BY <1>3
<1> HIDE DEF Recursion, first
<1> DEFINE S == {k \in Nat : Built(first, built[k], texts, k)}
<1>6. 0 \in S
  <2>1. built[0] = first
    BY <1>1, <1>5
  <2>2. Extends(first, first)
    BY <1>1, ExtendsSame DEF Sound
  <2>3. Count(first) \in Nat
    BY <1>1, ArenaFacts DEF Sound
  <2>4. QED
    BY <1>1, <2>1, <2>2, <2>3 DEF Built
<1>7. ASSUME NEW k \in 0..(n - 1), k \in S PROVE k + 1 \in S
  <2> DEFINE m == k + 1
  <2>1. m \in 1..n /\ m \in 0..n /\ m # 0 /\ m - 1 = k /\ m \in Nat
    BY <1>1
  <2>2. Built(first, built[m - 1], texts, m - 1)
    BY <1>7, <2>1
  <2>3. built[m] = AppendSpelling(built[m - 1], texts[m])
    BY <1>5, <2>1
  <2> HIDE DEF m
  <2>4. m \in 1..Len(texts)
    BY <2>1
  <2>5. Built(first, AppendSpelling(built[m - 1], texts[m]), texts, m)
    BY ONLY <1>1, <2>2, <2>4, texts \in Seq(Texts), BuiltStep
  <2>6. m \in S
    BY <2>1, <2>3, <2>5
  <2>7. QED
    BY <2>6 DEF m
<1>8. n \in S
  <2>1. 0 \in Int /\ n \in Int /\ 0 <= n
    BY <1>1
  <2> HIDE DEF S, n
  <2>2. 0..n \subseteq S
    BY ONLY <1>6, <1>7, <2>1, IntervalInduction
  <2>3. QED
    BY <2>1, <2>2
<1>9. QED
  BY <1>4, <1>8 DEF first

-----------------------------------------------------------------------------
(* Reading.                                                                *)

\* A location that yields the text stored for it, which is not nothing.
IsRead(a, n) ==
  n.stored # <<>> /\ \A k \in DOMAIN n.stored : SpellingAt(a, n, k) = n.stored[k]
ReadsIn(a, nodes) == \A o \in DOMAIN nodes : IsRead(a, nodes[o])

\* That is to say that it names a group, and the text is in the group there.
LEMMA ReadFacts ==
  ASSUME NEW a \in Arena, NEW n \in Node
  PROVE  IsRead(a, n) <=>
           /\ n.stored # <<>> /\ n.group \in 1..Count(a)
           /\ n.component + Len(n.stored) - 1 <= Len(a.groups[n.group])
           /\ \A k \in 1..Len(n.stored) : a.groups[n.group][n.component + k - 1] = n.stored[k]
<1> DEFINE g == n.group
           c == n.component
           s == n.stored
           group == a.groups[g]
           m == Len(s)
<1>1. /\ g \in Nat /\ 1 <= g /\ c \in Nat /\ 1 <= c /\ s \in Seq(Texts) /\ m \in Nat
      /\ DOMAIN s = 1..m /\ \A k \in 1..m : s[k] \in Texts
  BY DEF Node
<1>2. a.groups \in Seq(Group) /\ Count(a) \in Nat /\ DOMAIN a.groups = 1..Count(a)
  BY ArenaFacts
<1>3. ASSUME g \in 1..Count(a) PROVE group \in Seq(Texts) /\ Len(group) \in Nat
  BY <1>2, <1>3, GroupFacts
<1>4. \A k : SpellingAt(a, n, k) = IF g <= Count(a) /\ c + k - 1 <= Len(group)
                                   THEN group[c + k - 1] ELSE NULL
  BY DEF SpellingAt
<1>5. s # <<>> => m >= 1
  BY <1>1
<1> HIDE DEF g, c, s, group, m
<1>6. ASSUME IsRead(a, n)
      PROVE  /\ s # <<>> /\ g \in 1..Count(a) /\ c + m - 1 <= Len(group)
             /\ \A k \in 1..m : group[c + k - 1] = s[k]
  <2>1. s # <<>> /\ \A k \in 1..m : SpellingAt(a, n, k) = s[k]
    BY <1>1, <1>6 DEF IsRead, s
  <2>2. \A k \in 1..m : SpellingAt(a, n, k) # NULL
    BY <1>1, <2>1, NullAssumption
  <2>3. \A k \in 1..m : g <= Count(a) /\ c + k - 1 <= Len(group)
    BY <1>4, <2>2
  <2>4. m \in 1..m
    BY <1>1, <1>5, <2>1
  <2>5. g \in 1..Count(a) /\ c + m - 1 <= Len(group)
    BY <1>1, <1>2, <2>3, <2>4
  <2>6. \A k \in 1..m : group[c + k - 1] = s[k]
    BY <1>4, <2>1, <2>3
  <2>7. QED
    BY <2>1, <2>5, <2>6
<1>7. ASSUME s # <<>>, g \in 1..Count(a), c + m - 1 <= Len(group),
             \A k \in 1..m : group[c + k - 1] = s[k]
      PROVE  IsRead(a, n)
  <2>1. ASSUME NEW k \in 1..m PROVE SpellingAt(a, n, k) = s[k]
    <3>1. g <= Count(a) /\ Len(group) \in Nat
      BY <1>2, <1>3, <1>7
    <3>2. c + k - 1 <= Len(group)
      BY <1>1, <1>7, <3>1
    <3>3. QED
      BY <1>4, <1>7, <3>1, <3>2
  <2>2. QED
    BY <1>1, <1>7, <2>1 DEF IsRead, s
<1>8. QED
  BY <1>6, <1>7 DEF g, c, s, group, m

\* What is read goes on to be read while the arena is only added to.
LEMMA ReadWhileExtended ==
  ASSUME NEW a \in Arena, NEW b \in Arena, Extends(a, b), NEW n \in Node, IsRead(a, n)
  PROVE  IsRead(b, n)
<1> DEFINE g == n.group
           c == n.component
           m == Len(n.stored)
<1>1. /\ g \in Nat /\ c \in Nat /\ 1 <= c /\ m \in Nat
  BY DEF Node
<1>2. /\ n.stored # <<>> /\ g \in 1..Count(a)
      /\ c + m - 1 <= Len(a.groups[g])
      /\ \A k \in 1..m : a.groups[g][c + k - 1] = n.stored[k]
  BY ReadFacts
<1>3. /\ a.groups \in Seq(Group) /\ Count(a) \in Nat /\ DOMAIN a.groups = 1..Count(a)
      /\ b.groups \in Seq(Group) /\ Count(b) \in Nat /\ DOMAIN b.groups = 1..Count(b)
      /\ Count(a) <= Count(b)
  BY ArenaFacts DEF Extends
<1>4. /\ g \in 1..Count(b) /\ Len(a.groups[g]) <= Len(b.groups[g])
      /\ \A k \in 1..Len(a.groups[g]) : b.groups[g][k] = a.groups[g][k]
  BY <1>2, <1>3 DEF Extends
<1> HIDE DEF g, c, m
<1>5. Len(a.groups[g]) \in Nat /\ Len(b.groups[g]) \in Nat
  <2>1. a.groups[g] \in Group /\ b.groups[g] \in Group
    BY ONLY <1>2, <1>3, <1>4
  <2>2. a.groups[g] \in Seq(Texts) /\ b.groups[g] \in Seq(Texts)
    BY ONLY <2>1, GroupFacts
  <2>3. QED
    BY ONLY <2>2
<1>6. c + m - 1 <= Len(b.groups[g])
  BY <1>1, <1>2, <1>4, <1>5
<1>7. ASSUME NEW k \in 1..m PROVE b.groups[g][c + k - 1] = n.stored[k]
  <2>1. c + k - 1 \in 1..Len(a.groups[g])
    BY ONLY <1>1, <1>2, <1>5, k \in 1..m
  <2>2. b.groups[g][c + k - 1] = a.groups[g][c + k - 1]
    BY ONLY <1>4, <2>1
  <2>3. a.groups[g][c + k - 1] = n.stored[k]
    BY ONLY <1>2, k \in 1..m
  <2>4. QED
    BY ONLY <2>2, <2>3
<1>8. QED
  BY <1>2, <1>4, <1>6, <1>7, ReadFacts DEF g, c, m

\* The same for all nodes of a tree or of the fragments.
LEMMA ReadsWhileExtended ==
  ASSUME NEW a \in Arena, NEW b \in Arena, Extends(a, b), NEW nodes, AreNodes(nodes),
         ReadsIn(a, nodes)
  PROVE  ReadsIn(b, nodes)
BY ReadWhileExtended DEF ReadsIn, AreNodes

-----------------------------------------------------------------------------
(* The sweep.                                                              *)

\* A nonempty set of numbers up to n has a greatest one.
LEMMA GreatestUpTo ==
  ASSUME NEW n \in Nat, NEW S \in SUBSET (1..n), S # {}
  PROVE  \E m \in S : \A k \in S : k <= m
<1> DEFINE D == {n - k : k \in S}
<1>1. D \in SUBSET Nat /\ D # {}
  <2>1. \A k \in S : n - k \in Nat
    OBVIOUS
  <2>2. \A d \in D : d \in Nat
    BY <2>1
  <2>3. QED
    BY <2>2
<1>2. PICK d \in D : \A e \in D : d <= e
  BY <1>1, LeastNatural
<1>3. PICK m \in S : d = n - m
  OBVIOUS
<1>4. \A k \in S : k <= m
  BY <1>2, <1>3
<1>5. QED
  BY <1>4

\* What a sweep leaves: the marked groups at their places, holes between them
\* and none at the end.
LEMMA SweptFacts ==
  ASSUME NEW a \in Sound, a.status = "OK", a.build = NULL, NEW used, NEW grant \in BOOLEAN,
         NEW b, b = Swept(a, used, grant)
  PROVE  /\ b \in Sound /\ b.status = "OK" /\ b.build = NULL /\ Count(b) <= Count(a)
         /\ \A g \in 1..Count(b) : b.groups[g] = IF g \in used THEN a.groups[g] ELSE <<>>
         /\ \A g \in 1..Count(a) : g \in used /\ a.groups[g] # <<>> => g <= Count(b)
         /\ 1..Count(b) \ Holes(b) \subseteq used
         /\ Count(b) \notin Holes(b)
<1> DEFINE n == Count(a)
           kept == [g \in 1..n |-> IF g \in used THEN a.groups[g] ELSE <<>>]
           live == {g \in 1..n : kept[g] # <<>>}
           last == IF live = {} THEN 0 ELSE CHOOSE g \in live : \A h \in live : h <= g
           holes == 1..last \ live
           capacity == IF last = 0 THEN 0
                       ELSE IF grant /\ a.capacity > 2 * last THEN last ELSE a.capacity
           free == IF holes = {} THEN last + 1
                   ELSE CHOOSE g \in holes : \A h \in holes : g <= h
           groups == SubSeq(kept, 1, last)
<1>1. /\ a \in Arena
      /\ a = [groups |-> a.groups, capacity |-> a.capacity, free |-> a.free,
              build |-> a.build, status |-> a.status]
      /\ a.groups \in Seq(Group) /\ n \in Nat /\ n <= a.capacity
      /\ DOMAIN a.groups = 1..n
      /\ a.capacity \in Nat /\ a.capacity <= MaxGroups
      /\ MaxGroups \in Nat
  BY ArenaFacts DEF Sound
<1>2. b = [groups |-> groups, capacity |-> capacity, free |-> free, build |-> NULL,
           status |-> "OK"]
  BY <1>1 DEF Swept
<1>3. kept \in Seq(Group) /\ Len(kept) = n
      /\ \A g \in 1..n : kept[g] = IF g \in used THEN a.groups[g] ELSE <<>>
  BY <1>1, EmptyGroup
<1>4. live \in SUBSET (1..n) /\ \A g \in 1..n : g \in live <=> kept[g] # <<>>
  OBVIOUS
<1> HIDE DEF kept, live
<1>5. \/ live = {} /\ last = 0
      \/ last \in live /\ \A h \in live : h <= last
  BY <1>1, <1>4, GreatestUpTo
<1> HIDE DEF last
<1>6. last \in Nat /\ last <= n /\ \A h \in live : h <= last
  BY <1>1, <1>4, <1>5
<1> HIDE DEF n
<1>7. /\ groups \in Seq(Group) /\ Len(groups) = last
      /\ \A g \in 1..last : groups[g] = kept[g] /\ g \in 1..n
  BY <1>1, <1>3, <1>6
<1>8. capacity \in Nat /\ last <= capacity /\ capacity <= MaxGroups
  BY <1>1, <1>6
<1>9. \/ holes = {} /\ free = last + 1
      \/ free \in holes /\ \A h \in holes : free <= h
  <2>1. holes \in SUBSET Nat
    BY <1>6
  <2> HIDE DEF holes
  <2>2. QED
    BY <2>1, LeastNatural
<1> HIDE DEF groups, capacity, free
<1>10. free \in Nat /\ 1 <= free /\ free <= last + 1
  BY <1>6, <1>9
<1>11. b \in Arena
  <2>1. "OK" \in Statuses /\ NULL \in Nat \cup {NULL}
    BY DEF Statuses
  <2>2. QED
    BY ONLY <1>2, <1>7, <1>8, <1>10, <2>1, ArenaMade
<1>12. Count(b) = last /\ b.groups = groups /\ b.free = free /\ b.status = "OK" /\ b.build = NULL
  BY <1>2, <1>7 DEF Count
<1>13. Holes(b) = holes
  BY <1>4, <1>7, <1>12 DEF Holes
<1>14. HolesAhead(b)
  BY <1>6, <1>9, <1>12, <1>13 DEF HolesAhead
<1>15. \A g \in 1..last : b.groups[g] = IF g \in used THEN a.groups[g] ELSE <<>>
  BY <1>3, <1>7, <1>12
<1>16. \A g \in 1..n : g \in used /\ a.groups[g] # <<>> => g <= last
  BY <1>3, <1>4, <1>6
<1>17. 1..last \ Holes(b) \subseteq used
  BY <1>15, <1>12 DEF Holes
<1>18. last \notin Holes(b)
  BY <1>5, <1>13
<1>19. QED
  BY <1>6, <1>11, <1>12, <1>14, <1>15, <1>16, <1>17, <1>18 DEF Sound, n

\* A marked location reads what it read.
LEMMA ReadsAfterSweep ==
  ASSUME NEW a \in Sound, a.status = "OK", a.build = NULL, NEW used, NEW grant \in BOOLEAN,
         NEW nodes, AreNodes(nodes), ReadsIn(a, nodes), GroupsIn(nodes) \subseteq used
  PROVE  ReadsIn(Swept(a, used, grant), nodes)
<1> DEFINE b == Swept(a, used, grant)
<1>1. /\ b \in Arena /\ Count(b) <= Count(a)
      /\ \A g \in 1..Count(b) : b.groups[g] = IF g \in used THEN a.groups[g] ELSE <<>>
      /\ \A g \in 1..Count(a) : g \in used /\ a.groups[g] # <<>> => g <= Count(b)
  BY SweptFacts DEF Sound
<1>2. a \in Arena /\ Count(a) \in Nat /\ Count(b) \in Nat
  BY <1>1, ArenaFacts DEF Sound
<1> HIDE DEF b
<1>3. ASSUME NEW o \in DOMAIN nodes PROVE IsRead(b, nodes[o])
  <2> DEFINE x == nodes[o]
  <2>1. x \in Node /\ IsRead(a, x) /\ x.group \in used
    BY DEF AreNodes, ReadsIn, GroupsIn
  <2> HIDE DEF x
  <2>2. /\ x.stored # <<>> /\ x.group \in 1..Count(a)
        /\ x.component + Len(x.stored) - 1 <= Len(a.groups[x.group])
        /\ \A k \in 1..Len(x.stored) : a.groups[x.group][x.component + k - 1] = x.stored[k]
    BY <1>2, <2>1, ReadFacts
  <2>3. a.groups[x.group] # <<>>
    <3>1. x.component \in Nat /\ 1 <= x.component /\ Len(x.stored) \in Nat /\ Len(x.stored) >= 1
      BY <2>1, <2>2 DEF Node
    <3>2. a.groups[x.group] \in Seq(Texts)
      BY <1>2, <2>2, ArenaFacts, GroupFacts
    <3>3. Len(a.groups[x.group]) >= 1
      BY <2>2, <3>1, <3>2
    <3>4. QED
      BY <3>2, <3>3
  <2>4. x.group \in 1..Count(b) /\ b.groups[x.group] = a.groups[x.group]
    BY <1>1, <1>2, <2>1, <2>2, <2>3
  <2>5. IsRead(b, x)
    BY <1>1, <2>1, <2>2, <2>4, ReadFacts
  <2>6. QED
    BY <2>5 DEF x
<1>4. QED
  BY <1>3 DEF ReadsIn, b

-----------------------------------------------------------------------------
(* Nodes.                                                                  *)

\* Locations of a tree are told from a tree that is not loaded.
LEMMA NodesAreNotNull ==
  ASSUME NEW f, AreNodes(f)
  PROVE  f # NULL
BY TreeAssumption DEF AreNodes

\* No nodes are nodes, and all of them read their spelling.
LEMMA NoNodes == AreNodes(<<>>) /\ DOMAIN <<>> = {} /\ \A a : ReadsIn(a, <<>>)
<1>1. DOMAIN <<>> = {} /\ <<>> \in [{} -> Node]
  OBVIOUS
<1>2. QED
  BY <1>1 DEF AreNodes, ReadsIn

\* Installing nodes that read their spelling over such nodes gives such nodes.
LEMMA NodesInstalled ==
  ASSUME NEW f, AreNodes(f), NEW g, AreNodes(g)
  PROVE  /\ AreNodes(Installed(f, g)) /\ DOMAIN Installed(f, g) = DOMAIN f \cup DOMAIN g
         /\ \A a : ReadsIn(a, f) /\ ReadsIn(a, g) => ReadsIn(a, Installed(f, g))
BY DEF AreNodes, ReadsIn, Installed

\* The same for one node, and which groups are then named.
LEMMA NodePut ==
  ASSUME NEW f, AreNodes(f), NEW o \in Owners, NEW n \in Node
  PROVE  /\ AreNodes(WithNode(f, o, n)) /\ DOMAIN WithNode(f, o, n) = DOMAIN f \cup {o}
         /\ \A a : ReadsIn(a, f) /\ IsRead(a, n) => ReadsIn(a, WithNode(f, o, n))
         /\ n.group \in GroupsIn(WithNode(f, o, n))
         /\ GroupsIn(WithNode(f, o, n)) \subseteq GroupsIn(f) \cup {n.group}
         /\ o \notin DOMAIN f => GroupsIn(f) \subseteq GroupsIn(WithNode(f, o, n))
BY DEF AreNodes, ReadsIn, GroupsIn, WithNode

\* Dropping nodes leaves the others reading, and which groups are then named.
LEMMA NodesRestricted ==
  ASSUME NEW f, AreNodes(f), NEW S, S \subseteq DOMAIN f
  PROVE  /\ AreNodes(Restrict(f, S)) /\ DOMAIN Restrict(f, S) = S
         /\ \A a : ReadsIn(a, f) => ReadsIn(a, Restrict(f, S))
         /\ GroupsIn(Restrict(f, S)) \subseteq GroupsIn(f)
         /\ GroupsIn(f) = GroupsIn(Restrict(f, S)) \cup {f[x].group : x \in DOMAIN f \ S}
BY DEF AreNodes, ReadsIn, GroupsIn, Restrict

-----------------------------------------------------------------------------
(* The invariant.                                                          *)

\* Where an edit is: a group is built and a failure noted only while fragments
\* are marked, only an edit holds fragments, only a batch has changes to pack,
\* and without them the unpacked tree is that of the wire.
Stage ==
  /\ phase \in {"idle", "marking", "editing", "failed"}
  /\ batch \in BOOLEAN /\ dirty \in BOOLEAN /\ swept \in BOOLEAN
  /\ edits \in 0..MaxEdits
  /\ phase # "marking" => arena.status = "OK" /\ arena.build = NULL
  /\ phase = "idle" => held = <<>>
  /\ phase \in {"marking", "editing"} => tree # NULL
  /\ phase = "failed" => tree = NULL
  /\ dirty => batch /\ tree # NULL
  /\ ~dirty /\ tree # NULL => wire = tree

\* Who holds a location that reads its text: all but a wire out of date, and the
\* fragments of an edit that is going to fail.
Locations ==
  /\ AreNodes(wire) /\ AreNodes(held) /\ AreNodes(records) /\ DOMAIN records \subseteq Aliases
  /\ tree # NULL => AreNodes(tree) /\ ReadsIn(arena, tree)
  /\ ~dirty => ReadsIn(arena, wire)
  /\ arena.status = "OK" => ReadsIn(arena, held)
  /\ ReadsIn(arena, records)

SpellingInvariant ==
  arena \in Sound /\ Stage /\ Locations /\ SweptArenaIsExact

\* The arena of a new handle is sound.
LEMMA EmptyArenaFacts ==
  /\ EmptyArena \in Sound /\ EmptyArena.status = "OK" /\ EmptyArena.build = NULL
  /\ Count(EmptyArena) = 0
<1> DEFINE none == <<>>
<1>1. none \in Seq(Group) /\ Len(none) = 0 /\ "OK" \in Statuses /\ MaxGroups \in Nat
  BY SizeAssumption DEF Statuses
<1>2. EmptyArena = [groups |-> none, capacity |-> 0, free |-> 1, build |-> NULL, status |-> "OK"]
  BY DEF EmptyArena
<1> HIDE DEF none
<1>3. EmptyArena \in Arena
  <2>1. 0 \in Nat /\ 1 \in Nat /\ 0 <= MaxGroups /\ Len(none) <= 0 /\ 1 <= Len(none) + 1
        /\ NULL \in Nat \cup {NULL} /\ 1 <= 1
    BY <1>1
  <2>2. QED
    BY ONLY <1>1, <1>2, <2>1, ArenaMade
<1>4. Count(EmptyArena) = 0
  BY <1>1, <1>2 DEF Count
<1>5. Holes(EmptyArena) = {}
  BY <1>4 DEF Holes
<1>6. QED
  BY <1>2, <1>3, <1>4, <1>5 DEF Sound, HolesAhead

\* An arena without groups is swept.
LEMMA NothingToSweep ==
  ASSUME Count(arena) = 0
  PROVE  SweptArenaIsExact
<1>1. 1..0 = {} /\ 0 \notin 1..0
  OBVIOUS
<1>2. QED
  BY <1>1 DEF SweptArenaIsExact, Holes

\* A parsed statement generates nothing, so its handle has an empty arena.
LEMMA InitSpelling == Init => SpellingInvariant
<1> SUFFICES ASSUME Init PROVE SpellingInvariant
  OBVIOUS
<1>1. /\ arena = EmptyArena /\ tree = NULL /\ wire = <<>> /\ held = <<>> /\ records = <<>>
      /\ phase = "idle" /\ batch = FALSE /\ dirty = FALSE /\ swept = TRUE /\ edits = 0
  BY DEF Init
<1>2. MaxEdits \in Nat
  BY SizeAssumption
<1>3. Stage
  <2>1. batch \in BOOLEAN /\ dirty \in BOOLEAN /\ swept \in BOOLEAN /\ ~dirty
    BY ONLY <1>1
  <2>2. edits \in 0..MaxEdits
    BY <1>1, <1>2
  <2>3. arena.status = "OK" /\ arena.build = NULL
    BY <1>1, EmptyArenaFacts
  <2>4. held = <<>> /\ tree = NULL /\ phase = "idle"
    BY ONLY <1>1
  <2>5. QED
    BY ONLY <2>1, <2>2, <2>3, <2>4 DEF Stage
<1>4. Locations
  BY <1>1, NoNodes DEF Locations
<1>5. SweptArenaIsExact
  BY <1>1, EmptyArenaFacts, NothingToSweep
<1>6. QED
  BY <1>1, <1>3, <1>4, <1>5, EmptyArenaFacts DEF SpellingInvariant

\* sqlparser_handle_release_contents
LEMMA ReleaseSpelling ==
  ASSUME SpellingInvariant, ReleaseContents
  PROVE  SpellingInvariant'
<1>1. /\ arena' = EmptyArena /\ tree' = NULL /\ wire' = <<>> /\ held' = <<>> /\ records' = <<>>
      /\ phase' = "failed" /\ batch' = FALSE /\ dirty' = FALSE /\ swept' = TRUE /\ edits' = edits
  BY DEF ReleaseContents
<1>2. Stage'
  BY <1>1, EmptyArenaFacts DEF Stage, SpellingInvariant
<1>3. Locations'
  BY <1>1, NoNodes DEF Locations
<1>4. SweptArenaIsExact'
  <2>1. Count(arena)' = 0
    BY <1>1, EmptyArenaFacts
  <2>2. (Count(arena) = 0)' => SweptArenaIsExact'
    BY NothingToSweep, PTL
  <2>3. QED
    BY <2>1, <2>2
<1>5. QED
  BY <1>1, <1>2, <1>3, <1>4, EmptyArenaFacts DEF SpellingInvariant

\* A commit with the arena as it is (the sweep could not allocate its marks), or
\* swept of what neither the new tree nor the marked records name.
LEMMA CommitSpelling ==
  ASSUME SpellingInvariant, phase \in {"idle", "editing"},
         NEW a \in Sound, a.status = "OK", a.build = NULL,
         NEW nodes, AreNodes(nodes), ReadsIn(a, nodes),
         NEW recs, GroupsIn(recs) \subseteq GroupsIn(nodes) \cup GroupsIn(records'),
         AreNodes(records'), DOMAIN records' \subseteq Aliases, ReadsIn(a, records'),
         GroupsIn(records') \subseteq GroupsIn(nodes) \cup GroupsIn(recs),
         CommitAst(a, nodes, recs)
  PROVE  /\ SpellingInvariant' /\ arena'.status = "OK"
         /\ arena' = a \/ Count(arena') <= Count(a)
<1> DEFINE used == MarkedGroups(nodes, recs)
<1>1. /\ edits < MaxEdits /\ tree' = nodes /\ held' = <<>> /\ phase' = "idle"
      /\ edits' = edits + 1 /\ wire' = (IF batch THEN wire ELSE nodes)
      /\ dirty' = batch /\ batch' = batch
      /\ \/ arena' = a /\ swept' = FALSE
         \/ (\E grant \in BOOLEAN : arena' = Swept(a, used, grant)) /\ swept' = TRUE
  BY DEF CommitAst
<1>2. GroupsIn(nodes) \subseteq used /\ GroupsIn(records') \subseteq used
      /\ used \subseteq GroupsIn(nodes) \cup GroupsIn(records')
  BY DEF MarkedGroups
<1> HIDE DEF used
<1>3. /\ arena' \in Sound /\ arena'.status = "OK" /\ arena'.build = NULL
      /\ arena' = a \/ Count(arena') <= Count(a)
      /\ ReadsIn(arena', nodes) /\ ReadsIn(arena', records')
      /\ swept' \in BOOLEAN
      /\ swept' => /\ 1..Count(arena') \ Holes(arena') \subseteq used
                   /\ Count(arena') \notin Holes(arena')
  <2>1. CASE arena' = a /\ swept' = FALSE
    BY <2>1
  <2>2. CASE (\E grant \in BOOLEAN : arena' = Swept(a, used, grant)) /\ swept' = TRUE
    <3>1. PICK grant \in BOOLEAN : arena' = Swept(a, used, grant)
      BY <2>2
    <3>2. /\ arena' \in Sound /\ arena'.status = "OK" /\ arena'.build = NULL
          /\ Count(arena') <= Count(a)
          /\ 1..Count(arena') \ Holes(arena') \subseteq used /\ Count(arena') \notin Holes(arena')
      BY <3>1, SweptFacts
    <3>3. ReadsIn(arena', nodes) /\ ReadsIn(arena', records')
      BY <1>2, <3>1, ReadsAfterSweep
    <3>4. QED
      BY <2>2, <3>2, <3>3
  <2>3. QED
    BY <1>1, <2>1, <2>2
<1>4. nodes # NULL
  BY NodesAreNotNull
<1>5. Stage'
  <2>1. edits' \in 0..MaxEdits
    BY <1>1, SizeAssumption DEF SpellingInvariant, Stage
  <2>2. batch \in BOOLEAN
    BY DEF SpellingInvariant, Stage
  <2>3. QED
    BY <1>1, <1>3, <1>4, <2>1, <2>2 DEF Stage
<1>6. Locations'
  <2>1. AreNodes(wire') /\ (~dirty' => wire' = nodes)
    BY <1>1 DEF SpellingInvariant, Locations
  <2>2. AreNodes(held') /\ ReadsIn(arena', held')
    BY <1>1, NoNodes
  <2>3. QED
    BY <1>1, <1>3, <2>1, <2>2 DEF Locations
<1>7. SweptArenaIsExact'
  <2>1. GroupsIn(nodes) \cup GroupsIn(records') \subseteq HeldGroups'
    BY <1>1, <1>4 DEF HeldGroups
  <2>2. QED
    BY <1>2, <1>3, <2>1 DEF SweptArenaIsExact
<1>8. QED
  BY <1>3, <1>5, <1>6, <1>7 DEF SpellingInvariant

-----------------------------------------------------------------------------
(* The steps.                                                              *)

\* What was swept stays exact while its groups stay named.
LEMMA SweptStays ==
  ASSUME SpellingInvariant, Count(arena') = Count(arena), Holes(arena') = Holes(arena),
         swept' => swept, HeldGroups \subseteq HeldGroups'
  PROVE  SweptArenaIsExact'
BY DEF SpellingInvariant, SweptArenaIsExact

\* Unpacking the wire: nothing waits to be serialized while the AST is not loaded.
LEMMA EnsureAstSpelling ==
  ASSUME SpellingInvariant, EnsureAst
  PROVE  SpellingInvariant'
<1>1. /\ tree = NULL /\ phase # "failed" /\ tree' = wire
      /\ UNCHANGED <<arena, wire, held, records, phase, batch, dirty, swept, edits>>
  BY DEF EnsureAst
<1>2. Stage /\ Locations /\ ~dirty /\ wire # NULL
  BY <1>1, NodesAreNotNull DEF SpellingInvariant, Stage, Locations
<1>3. Stage'
  BY <1>1, <1>2 DEF Stage
<1>4. Locations'
  BY <1>1, <1>2 DEF Locations
<1>5. SweptArenaIsExact'
  BY <1>1, <1>2, SweptStays DEF HeldGroups
<1>6. QED
  BY <1>1, <1>3, <1>4, <1>5 DEF SpellingInvariant

\* Dropping the AST: what the wire has is what the tree had.
LEMMA DiscardSpelling ==
  ASSUME SpellingInvariant, DiscardAstAdapter
  PROVE  SpellingInvariant'
<1>1. /\ phase = "idle" /\ tree # NULL /\ ~dirty /\ tree' = NULL
      /\ UNCHANGED <<arena, wire, held, records, phase, batch, dirty, swept, edits>>
  BY DEF DiscardAstAdapter
<1>2. Stage /\ Locations /\ wire = tree
  BY <1>1 DEF SpellingInvariant, Stage
<1>3. Stage'
  BY <1>1, <1>2 DEF Stage
<1>4. Locations'
  BY <1>1, <1>2 DEF Locations
<1>5. SweptArenaIsExact'
  BY <1>1, <1>2, SweptStays DEF HeldGroups
<1>6. QED
  BY <1>1, <1>3, <1>4, <1>5 DEF SpellingInvariant

\* Groups that are added leave every location as it is.
LEMMA LocationsExtended ==
  ASSUME SpellingInvariant, arena' \in Arena, Extends(arena, arena'),
         UNCHANGED <<tree, wire, records, dirty>>, AreNodes(held'),
         arena'.status = "OK" => ReadsIn(arena', held')
  PROVE  Locations'
<1>1. Locations /\ arena \in Arena
  BY DEF SpellingInvariant, Sound
<1>2. \A nodes : AreNodes(nodes) /\ ReadsIn(arena, nodes) => ReadsIn(arena', nodes)
  BY <1>1, ReadsWhileExtended
<1>3. QED
  BY <1>1, <1>2 DEF Locations

\* What is left after a message was spelled.
LEMMA MessageSpelled ==
  ASSUME NEW a \in Sound, NEW texts \in Seq(Texts), texts # <<>>,
         NEW b, b = Spelled(a, texts)
  PROVE  /\ b \in Sound /\ b \in Arena /\ Extends(a, b)
         /\ Count(b) > Count(a) => Holes(a) = {}
         /\ b.status = "OK" => /\ a.status = "OK" /\ b.build \in 1..Count(b)
                               /\ b.build # NULL /\ b.groups[b.build] = texts
         /\ a.status = "OK" /\ b.status # "OK" /\ b.build = NULL => 2 * Count(a) > MaxGroups
<1>1. /\ Begin(a) \in Sound /\ Begin(a).status = a.status /\ Count(Begin(a)) = Count(a)
      /\ Holes(Begin(a)) = Holes(a) /\ Extends(a, Begin(a))
  BY BeginFacts
<1>2. Built(Begin(a), b, texts, Len(texts))
  BY SpelledFacts
<1>3. Len(texts) \in Nat /\ Len(texts) # 0 /\ SubSeq(texts, 1, Len(texts)) = texts
  BY SubSeqFull
<1>4. b \in Sound /\ b \in Arena /\ a \in Arena /\ Begin(a) \in Arena
  BY <1>1, <1>2 DEF Built, Sound
<1>5. Extends(a, b)
  BY <1>1, <1>2, <1>4, ExtendsTransitive DEF Built
<1>6. b.build = NULL \/ b.build \in 1..Count(b)
  BY <1>4, ArenaFacts
<1>7. QED
  BY <1>1, <1>2, <1>3, <1>4, <1>5, <1>6 DEF Built

\* sqlparser_generated_message_location
LEMMA MarkSpelling ==
  ASSUME SpellingInvariant, NEW o \in Owners, NEW texts \in Messages, NEW c \in 1..Components,
         MarkMessage(o, texts, c)
  PROVE  SpellingInvariant'
<1> DEFINE b == Spelled(arena, texts)
           n == [group |-> b.build, component |-> c, stored |-> SubSeq(texts, c, Len(texts))]
<1>1. /\ tree # NULL /\ c <= Len(texts) /\ arena' = b
      /\ held' = IF b.build = NULL THEN held ELSE WithNode(held, o, n)
      /\ phase' = "marking" /\ swept' = FALSE
      /\ UNCHANGED <<tree, wire, records, batch, dirty, edits>>
  BY DEF MarkMessage
<1>2. texts \in Seq(Texts) /\ texts # <<>> /\ Len(texts) \in Nat
  BY MessageAssumption
<1>3. arena \in Sound /\ Stage /\ Locations /\ AreNodes(held)
  BY DEF SpellingInvariant, Locations
<1>4. /\ b \in Sound /\ b \in Arena /\ Extends(arena, b)
      /\ b.status = "OK" => /\ arena.status = "OK" /\ b.build \in 1..Count(b)
                            /\ b.build # NULL /\ b.groups[b.build] = texts
  BY <1>2, <1>3, MessageSpelled
<1> HIDE DEF b
<1>5. ASSUME b.build # NULL PROVE n \in Node
  <2>1. b.build \in 1..Count(b) /\ Count(b) \in Nat /\ Count(b) <= MaxGroups /\ MaxGroups \in Nat
    BY <1>4, <1>5, ArenaFacts
  <2>2. SubSeq(texts, c, Len(texts)) \in Seq(Texts)
    BY <1>2
  <2>3. b.build \in 1..MaxGroups
    BY <2>1
  <2>4. QED
    BY <2>2, <2>3 DEF Node
<1>6. ASSUME b.status = "OK" PROVE IsRead(b, n)
  <2> DEFINE s == SubSeq(texts, c, Len(texts))
  <2>1. /\ s \in Seq(Texts) /\ Len(s) = Len(texts) + 1 - c
        /\ \A k \in 1..(Len(texts) + 1 - c) : s[k] = texts[c + k - 1]
    BY <1>1, <1>2
  <2>2. s # <<>>
    <3>1. Len(s) # 0
      BY <1>1, <1>2, <2>1
    <3> HIDE DEF s
    <3>2. QED
      BY ONLY <2>1, <3>1, EmptySeq
  <2>3. n.stored = s /\ n.group = b.build /\ n.component = c
    OBVIOUS
  <2>4. n \in Node /\ b.build \in 1..Count(b) /\ b.groups[b.build] = texts
    BY <1>4, <1>5, <1>6
  <2> HIDE DEF s, n
  <2>5. c + Len(s) - 1 <= Len(texts)
    BY <1>2, <2>1
  <2>6. \A k \in 1..Len(s) : texts[c + k - 1] = s[k]
    BY <2>1
  <2>7. QED
    BY <1>4, <2>2, <2>3, <2>4, <2>5, <2>6, ReadFacts
<1> HIDE DEF n
<1>7. AreNodes(held')
  BY <1>1, <1>3, <1>5, NodePut
<1>8. ASSUME b.status = "OK" PROVE ReadsIn(b, held')
  <2>1. ReadsIn(b, held)
    BY <1>3, <1>4, <1>8, ReadsWhileExtended DEF Locations, Sound
  <2>2. IsRead(b, n) /\ n \in Node /\ b.build # NULL
    BY <1>4, <1>5, <1>6, <1>8
  <2>3. QED
    BY <1>1, <1>3, <2>1, <2>2, NodePut
<1>9. Locations'
  BY <1>1, <1>4, <1>7, <1>8, LocationsExtended
<1>10. Stage'
  BY <1>1, <1>3 DEF Stage
<1>11. QED
  BY <1>1, <1>4, <1>9, <1>10 DEF SpellingInvariant, SweptArenaIsExact

\* The text of a group just taken cannot be copied, or no group was.
LEMMA AppendFailsFacts ==
  ASSUME NEW a \in Sound, NEW c, c = AppendFails(Begin(a))
  PROVE  /\ c \in Sound /\ c \in Arena /\ Extends(a, c) /\ c.status # "OK"
         /\ Count(c) > Count(a) => Holes(a) = {}
         /\ a.status = "OK" /\ c.build = NULL => 2 * Count(a) > MaxGroups
<1> DEFINE b == Begin(a)
           d == IF b.build = NULL /\ b.status = "OK" THEN TakeGroup(b) ELSE b
<1>1. /\ b \in Sound /\ b \in Arena /\ HolesAhead(b) /\ b.build = NULL /\ b.status = a.status
      /\ Count(b) = Count(a) /\ Holes(b) = Holes(a) /\ Extends(a, b) /\ a \in Arena
  BY BeginFacts DEF Sound
<1>2. c = IF d.status = "OK" THEN [d EXCEPT !.status = "NO_MEMORY"] ELSE d
  BY DEF AppendFails
<1> HIDE DEF b
<1>3. CASE a.status # "OK"
  <2>1. c = b
    BY <1>1, <1>2, <1>3
  <2>2. Count(a) \in Nat
    BY <1>1, ArenaFacts
  <2>3. QED
    BY <1>1, <1>3, <2>1, <2>2
<1>4. CASE a.status = "OK"
  <2>1. d = TakeGroup(b)
    BY <1>1, <1>4
  <2>2. d \in Arena /\ (Taken(b, d) \/ Refused(b, d))
    BY <1>1, <1>4, <2>1, TakeGroupFacts
  <2> HIDE DEF d
  <2>3. CASE Taken(b, d)
    <3>1. "NO_MEMORY" \in Statuses \ {"OK"} /\ c = [d EXCEPT !.status = "NO_MEMORY"]
      BY <1>2, <2>3 DEF Statuses, Taken
    <3>2. c \in Sound /\ c.groups = d.groups /\ c.build = d.build /\ c.status = "NO_MEMORY"
          /\ Count(c) = Count(d) /\ c \in Arena
      BY <2>2, <3>1, FailedArena DEF Sound
    <3>3. Extends(a, d)
      BY <1>1, <2>2, <2>3, TakenExtends, ExtendsTransitive
    <3>4. Extends(a, c)
      BY <1>1, <2>2, <3>2, <3>3, ExtendsSame, ExtendsTransitive
    <3>5. c.build # NULL
      <4>1. d.build \in 1..Count(d) /\ Count(d) \in Nat
        BY <2>2, <2>3, ArenaFacts DEF Taken
      <4>2. QED
        BY <3>2, <4>1, NullAssumption
    <3>6. Count(c) > Count(a) => Holes(a) = {}
      BY <1>1, <2>3, <3>2 DEF Taken
    <3>7. c.status # "OK"
      BY <3>2
    <3>8. QED
      BY ONLY <3>2, <3>4, <3>5, <3>6, <3>7
  <2>4. CASE Refused(b, d)
    <3>1. c = d /\ d.status # "OK" /\ d.build = NULL /\ 2 * Count(a) > MaxGroups
          /\ d.groups = b.groups
      BY <1>1, <1>2, <2>4 DEF Refused
    <3>2. c \in Sound
      BY <2>2, <3>1 DEF Sound, HolesAhead
    <3>3. Extends(a, c)
      BY <1>1, <2>2, <3>1, ExtendsSame, ExtendsTransitive
    <3>4. Count(c) = Count(a) /\ Count(a) \in Nat
      BY <1>1, <3>1, ArenaFacts DEF Count
    <3>5. QED
      BY <2>2, <3>1, <3>2, <3>3, <3>4
  <2>5. QED
    BY <2>2, <2>3, <2>4
<1>5. QED
  BY <1>3, <1>4

\* A message that cannot be written leaves a sound arena with a failure status.
LEMMA MarkFailsSpelling ==
  ASSUME SpellingInvariant, MarkMessageFails
  PROVE  SpellingInvariant'
<1>1. /\ tree # NULL /\ arena' = AppendFails(Begin(arena))
      /\ phase' = "marking" /\ swept' = FALSE
      /\ UNCHANGED <<tree, wire, held, records, batch, dirty, edits>>
  BY DEF MarkMessageFails
<1>2. arena \in Sound /\ Stage /\ AreNodes(held)
  BY DEF SpellingInvariant, Locations
<1>3. arena' \in Sound /\ arena' \in Arena /\ Extends(arena, arena') /\ arena'.status # "OK"
  BY <1>1, <1>2, AppendFailsFacts
<1>4. Locations'
  BY <1>1, <1>2, <1>3, LocationsExtended
<1>5. Stage'
  BY <1>1, <1>2 DEF Stage
<1>6. QED
  BY <1>1, <1>3, <1>4, <1>5 DEF SpellingInvariant, SweptArenaIsExact

\* A copied node shares the group of its original, and reads it as that does.
LEMMA ClonedNodeSpelling ==
  ASSUME SpellingInvariant, NEW o \in Owners, NEW p \in Owners, CloneProtoNode(o, p)
  PROVE  SpellingInvariant'
<1>1. /\ tree # NULL /\ phase # "marking" /\ o \in DOMAIN tree
      /\ held' = WithNode(held, p, tree[o]) /\ phase' = "editing"
      /\ UNCHANGED <<arena, tree, wire, records, batch, dirty, swept, edits>>
  BY DEF CloneProtoNode
<1>2. Stage /\ Locations /\ arena.status = "OK" /\ arena.build = NULL
  BY <1>1 DEF SpellingInvariant, Stage
<1>3. AreNodes(held) /\ ReadsIn(arena, held) /\ tree[o] \in Node /\ IsRead(arena, tree[o])
  BY <1>1, <1>2 DEF Locations, AreNodes, ReadsIn
<1>4. AreNodes(held') /\ ReadsIn(arena, held')
  BY <1>1, <1>3, NodePut
<1>5. Stage'
  BY <1>1, <1>2 DEF Stage
<1>6. Locations'
  BY <1>1, <1>2, <1>4 DEF Locations
<1>7. SweptArenaIsExact'
  <2>1. GroupsIn(held) \subseteq GroupsIn(held')
    <3>1. p \notin DOMAIN held
      BY DEF CloneProtoNode
    <3>2. QED
      BY <1>1, <1>3, <3>1, NodePut
  <2>2. HeldGroups \subseteq HeldGroups'
    BY <1>1, <2>1 DEF HeldGroups
  <2>3. QED
    BY <1>1, <2>2, SweptStays
<1>8. QED
  BY <1>1, <1>5, <1>6, <1>7 DEF SpellingInvariant

\* Finishing ends the building and changes no group.
LEMMA FinishSpellingFacts ==
  ASSUME NEW a \in Sound, a.status = "OK", NEW b, b = FinishSpelling(a)
  PROVE  /\ b \in Sound /\ b \in Arena /\ b.status = "OK" /\ b.build = NULL
         /\ b.groups = a.groups /\ Count(b) = Count(a) /\ Holes(b) = Holes(a)
         /\ Extends(a, b)
<1>1. b = Begin(a)
  <2>1. a = [groups |-> a.groups, capacity |-> a.capacity, free |-> a.free,
             build |-> a.build, status |-> a.status]
    BY ArenaFacts DEF Sound
  <2>2. QED
    BY <2>1 DEF FinishSpelling, Begin
<1>2. QED
  BY <1>1, BeginFacts DEF Sound

\* Finishing a fragment leaves its locations as they are.
LEMMA FinishedSpelling ==
  ASSUME SpellingInvariant, FinishGeneratedSource
  PROVE  SpellingInvariant'
<1>1. /\ phase = "marking" /\ arena.status = "OK" /\ arena' = FinishSpelling(arena)
      /\ phase' = "editing"
      /\ UNCHANGED <<tree, wire, held, records, batch, dirty, swept, edits>>
  BY DEF FinishGeneratedSource
<1>2. arena \in Sound /\ arena \in Arena /\ Stage /\ Locations
  BY DEF SpellingInvariant, Sound
<1>3. /\ arena' \in Sound /\ arena' \in Arena /\ arena'.status = "OK" /\ arena'.build = NULL
      /\ Count(arena') = Count(arena) /\ Holes(arena') = Holes(arena) /\ Extends(arena, arena')
  BY <1>1, <1>2, FinishSpellingFacts
<1>4. ReadsIn(arena', held') /\ AreNodes(held')
  BY <1>1, <1>2, <1>3, ReadsWhileExtended DEF Locations
<1>5. Locations'
  BY <1>1, <1>3, <1>4, LocationsExtended
<1>6. Stage'
  BY <1>1, <1>2, <1>3 DEF Stage
<1>7. SweptArenaIsExact'
  BY <1>1, <1>3, SweptStays DEF HeldGroups
<1>8. QED
  BY <1>3, <1>5, <1>6, <1>7 DEF SpellingInvariant

\* Dropping the fragments may leave groups behind that nothing names.
LEMMA ClearedSpelling ==
  ASSUME SpellingInvariant, ClearIdentifierPath
  PROVE  SpellingInvariant'
<1>1. /\ phase = "editing" /\ held' = <<>> /\ phase' = "idle"
      /\ swept' = (swept /\ arena.groups = <<>>)
      /\ UNCHANGED <<arena, tree, wire, records, batch, dirty, edits>>
  BY DEF ClearIdentifierPath
<1>2. Stage /\ Locations
  BY DEF SpellingInvariant
<1>3. Stage'
  <2>1. swept' \in BOOLEAN
    BY <1>1
  <2>2. QED
    BY <1>1, <1>2, <2>1 DEF Stage
<1>4. Locations'
  BY <1>1, <1>2, NoNodes DEF Locations
<1>5. SweptArenaIsExact'
  <2>1. CASE arena.groups = <<>>
    <3>1. Count(arena) = 0
      BY <2>1 DEF Count
    <3>2. SweptArenaIsExact /\ (Count(arena) = 0)'
      BY <1>1, <3>1, NothingToSweep
    <3>3. (Count(arena) = 0)' => SweptArenaIsExact'
      BY NothingToSweep, PTL
    <3>4. QED
      BY <3>2, <3>3
  <2>2. CASE arena.groups # <<>>
    BY <1>1, <2>2 DEF SweptArenaIsExact
  <2>3. QED
    BY <2>1, <2>2
<1>6. QED
  BY <1>1, <1>3, <1>4, <1>5 DEF SpellingInvariant

\* Installing fragments: the records of what they replace go, the rest is a commit.
LEMMA InstalledSpelling ==
  ASSUME SpellingInvariant, InstallFragments
  PROVE  SpellingInvariant' /\ (arena' = arena \/ Count(arena') <= Count(arena))
         /\ arena'.status = "OK"
<1> DEFINE nodes == Installed(held, tree)
<1>1. /\ phase = "editing" /\ records' = Restrict(records, DOMAIN records \ DOMAIN held)
      /\ CommitAst(arena, nodes, records')
  BY DEF InstallFragments
<1>2. /\ arena \in Sound /\ arena.status = "OK" /\ arena.build = NULL /\ tree # NULL
      /\ Locations
  BY <1>1 DEF SpellingInvariant, Stage
<1>3. AreNodes(nodes) /\ ReadsIn(arena, nodes)
  BY <1>2, NodesInstalled DEF Locations
<1>4. AreNodes(records') /\ DOMAIN records' \subseteq Aliases /\ ReadsIn(arena, records')
  BY <1>1, <1>2, NodesRestricted DEF Locations
<1> HIDE DEF nodes
<1>5. QED
  BY <1>1, <1>2, <1>3, <1>4, CommitSpelling

\* Removing a node with its record, and committing.
LEMMA RemovedSpelling ==
  ASSUME SpellingInvariant, NEW o \in Owners, RemoveNode(o)
  PROVE  SpellingInvariant' /\ (arena' = arena \/ Count(arena') <= Count(arena))
         /\ arena'.status = "OK"
<1> DEFINE nodes == Restrict(tree, DOMAIN tree \ {o})
<1>1. /\ phase = "idle" /\ tree # NULL /\ records' = Restrict(records, DOMAIN records \ {o})
      /\ CommitAst(arena, nodes, records')
  BY DEF RemoveNode
<1>2. /\ arena \in Sound /\ arena.status = "OK" /\ arena.build = NULL /\ Locations
  BY <1>1 DEF SpellingInvariant, Stage
<1>3. AreNodes(nodes) /\ ReadsIn(arena, nodes)
  BY <1>1, <1>2, NodesRestricted DEF Locations
<1>4. AreNodes(records') /\ DOMAIN records' \subseteq Aliases /\ ReadsIn(arena, records')
  BY <1>1, <1>2, NodesRestricted DEF Locations
<1> HIDE DEF nodes
<1>5. QED
  BY <1>1, <1>2, <1>3, <1>4, CommitSpelling

\* The record goes after the sweep has marked its group; the tree names it again.
LEMMA RestoredSpelling ==
  ASSUME SpellingInvariant, NEW o \in Owners, RestoreAlias(o)
  PROVE  SpellingInvariant' /\ (arena' = arena \/ Count(arena') <= Count(arena))
         /\ arena'.status = "OK"
<1> DEFINE nodes == WithNode(tree, o, records[o])
<1>1. /\ phase = "idle" /\ tree # NULL /\ o \in DOMAIN records
      /\ records' = Restrict(records, DOMAIN records \ {o})
      /\ CommitAst(arena, nodes, records)
  BY DEF RestoreAlias
<1>2. /\ arena \in Sound /\ arena.status = "OK" /\ arena.build = NULL /\ Locations
  BY <1>1 DEF SpellingInvariant, Stage
<1>3. records[o] \in Node /\ IsRead(arena, records[o]) /\ AreNodes(tree) /\ ReadsIn(arena, tree)
  BY <1>1, <1>2 DEF Locations, AreNodes, ReadsIn
<1>4. AreNodes(nodes) /\ ReadsIn(arena, nodes) /\ records[o].group \in GroupsIn(nodes)
  BY <1>3, NodePut
<1>5. AreNodes(records') /\ DOMAIN records' \subseteq Aliases /\ ReadsIn(arena, records')
  BY <1>1, <1>2, NodesRestricted DEF Locations
<1>6. /\ GroupsIn(records') \subseteq GroupsIn(records)
      /\ GroupsIn(records) \subseteq GroupsIn(nodes) \cup GroupsIn(records')
  <2>1. AreNodes(records)
    BY <1>2 DEF Locations
  <2>2. /\ GroupsIn(records') \subseteq GroupsIn(records)
        /\ GroupsIn(records) = GroupsIn(records')
               \cup {records[x].group : x \in DOMAIN records \ (DOMAIN records \ {o})}
    BY <1>1, <2>1, NodesRestricted
  <2>3. QED
    BY <1>4, <2>2
<1> HIDE DEF nodes
<1>7. QED
  BY <1>1, <1>2, <1>4, <1>5, <1>6, CommitSpelling

\* ReplaceAt changes one element and no other.
LEMMA ReplacedText ==
  ASSUME NEW s \in Seq(Texts), NEW i, NEW text \in Texts
  PROVE  /\ ReplaceAt(s, i, text) \in Seq(Texts) /\ Len(ReplaceAt(s, i, text)) = Len(s)
         /\ \A k \in 1..Len(s) : ReplaceAt(s, i, text)[k] = IF k = i THEN text ELSE s[k]
<1> DEFINE n == Len(s)
           t == [k \in 1..n |-> IF k = i THEN text ELSE s[k]]
<1>1. n \in Nat /\ s \in [1..n -> Texts] /\ DOMAIN s = 1..n
  OBVIOUS
<1>2. ReplaceAt(s, i, text) = t
  BY <1>1 DEF ReplaceAt
<1>3. t \in [1..n -> Texts]
  BY <1>1
<1>4. t \in Seq(Texts) /\ Len(t) = n
  BY <1>1, <1>3
<1>5. QED
  BY <1>2, <1>4

\* sqlparser_stage_generated_alias_spelling: the new group is the old one but for
\* the alias, and the record goes on to name the old one.
LEMMA AliasSpelling ==
  ASSUME SpellingInvariant, NEW o \in Owners, NEW text \in Texts, SetAlias(o, text)
  PROVE  /\ SpellingInvariant' /\ arena'.status = "OK"
         /\ Count(arena') > Count(arena) => Holes(arena) = {}
<1> DEFINE n == tree[o]
           old == arena.groups[n.group]
           texts == ReplaceAt(old, n.component, text)
           b == Spelled(arena, texts)
           a == FinishSpelling(b)
           renamed == [group |-> b.build, component |-> n.component,
                       stored |-> ReplaceAt(n.stored, 1, text)]
           nodes == WithNode(tree, o, renamed)
<1>1. /\ phase = "idle" /\ tree # NULL /\ o \in Aliases /\ o \in DOMAIN tree
      /\ IF b.status = "OK"
         THEN records' = WithNode(records, o, OriginalOf(o)) /\ CommitAst(a, nodes, records')
         ELSE edits < MaxEdits /\ ReleaseContents
  BY DEF SetAlias, StageAlias
<1>2. /\ arena \in Sound /\ arena \in Arena /\ arena.status = "OK" /\ arena.build = NULL
      /\ Locations /\ AreNodes(tree) /\ ReadsIn(arena, tree)
  BY <1>1 DEF SpellingInvariant, Stage, Sound, Locations
<1>3. n \in Node /\ IsRead(arena, n)
  BY <1>1, <1>2 DEF AreNodes, ReadsIn
<1> HIDE DEF n
<1>4. /\ n.stored # <<>> /\ n.group \in 1..Count(arena)
      /\ n.component + Len(n.stored) - 1 <= Len(old)
      /\ \A k \in 1..Len(n.stored) : old[n.component + k - 1] = n.stored[k]
  BY <1>2, <1>3, ReadFacts
<1>5. old \in Seq(Texts)
  BY <1>2, <1>4, ArenaFacts, GroupFacts
<1>6. /\ n.component \in Nat /\ 1 <= n.component /\ n.component \in 1..Components
      /\ n.stored \in Seq(Texts) /\ Len(n.stored) \in Nat
      /\ Len(n.stored) >= 1
  <2>1. n.component \in 1..Components /\ n.stored \in Seq(Texts)
    BY <1>3 DEF Node
  <2>2. QED
    BY <1>4, <2>1, EmptySeq
<1> HIDE DEF old
<1>7. /\ texts \in Seq(Texts) /\ Len(texts) = Len(old) /\ texts # <<>>
      /\ \A k \in 1..Len(old) : texts[k] = IF k = n.component THEN text ELSE old[k]
  <2>1. /\ texts \in Seq(Texts) /\ Len(texts) = Len(old)
        /\ \A k \in 1..Len(old) : texts[k] = IF k = n.component THEN text ELSE old[k]
    BY <1>5, ReplacedText
  <2>2. Len(texts) # 0
    BY <1>4, <1>5, <1>6, <2>1
  <2> HIDE DEF texts
  <2>3. QED
    BY <2>1, <2>2, EmptySeq
<1> HIDE DEF texts
<1>8. /\ b \in Sound /\ b \in Arena /\ Extends(arena, b)
      /\ Count(b) > Count(arena) => Holes(arena) = {}
      /\ b.status = "OK" => b.build \in 1..Count(b) /\ b.groups[b.build] = texts
  BY <1>2, <1>7, MessageSpelled
<1> HIDE DEF b
<1>9. CASE b.status # "OK"
  <2>1. ReleaseContents
    BY <1>1, <1>9
  <2>2. arena' = EmptyArena /\ Count(arena) \in Nat
    BY <1>2, <2>1, ArenaFacts DEF ReleaseContents
  <2>3. arena'.status = "OK" /\ ~(Count(arena') > Count(arena))
    BY <2>2, EmptyArenaFacts
  <2>4. QED
    BY <2>1, <2>3, ReleaseSpelling
<1>10. CASE b.status = "OK"
  <2>1. /\ a \in Sound /\ a \in Arena /\ a.status = "OK" /\ a.build = NULL
        /\ a.groups = b.groups /\ Count(a) = Count(b) /\ Extends(b, a)
    BY <1>8, <1>10, FinishSpellingFacts
  <2> HIDE DEF a
  <2>2. Extends(arena, a)
    BY <1>2, <1>8, <2>1, ExtendsTransitive
  <2>3. renamed \in Node
    <3>1. b.build \in 1..Count(b) /\ Count(b) \in Nat /\ Count(b) <= MaxGroups /\ MaxGroups \in Nat
      BY <1>8, <1>10, ArenaFacts
    <3>2. ReplaceAt(n.stored, 1, text) \in Seq(Texts)
      BY <1>6, ReplacedText
    <3>3. b.build \in 1..MaxGroups
      BY <3>1
    <3>4. QED
      BY <1>6, <3>2, <3>3 DEF Node
  <2>4. IsRead(a, renamed)
    <3> DEFINE s == ReplaceAt(n.stored, 1, text)
    <3>1. /\ s \in Seq(Texts) /\ Len(s) = Len(n.stored)
          /\ \A k \in 1..Len(n.stored) : s[k] = IF k = 1 THEN text ELSE n.stored[k]
      BY <1>6, ReplacedText
    <3>2. renamed.group = b.build /\ renamed.component = n.component /\ renamed.stored = s
      OBVIOUS
    <3> HIDE DEF s, renamed
    <3>3. s # <<>>
      <4>1. Len(s) # 0
        BY <1>6, <3>1
      <4>2. QED
        BY <3>1, <4>1, EmptySeq
    <3>4. a.groups[b.build] = texts /\ b.build \in 1..Count(a)
      BY <1>8, <1>10, <2>1
    <3>5. ASSUME NEW k \in 1..Len(s) PROVE texts[n.component + k - 1] = s[k]
      <4>1. k \in 1..Len(n.stored) /\ n.component + k - 1 \in 1..Len(old)
        BY <1>4, <1>5, <1>6, <3>1
      <4>2. old[n.component + k - 1] = n.stored[k]
        BY <1>4, <4>1
      <4>3. n.component + k - 1 = n.component <=> k = 1
        BY <1>6, <4>1
      <4>4. QED
        BY <1>7, <3>1, <4>1, <4>2, <4>3
    <3>6. n.component + Len(s) - 1 <= Len(texts)
      BY <1>4, <1>7, <3>1
    <3>7. QED
      BY <2>1, <2>3, <3>2, <3>3, <3>4, <3>5, <3>6, ReadFacts
  <2> HIDE DEF renamed
  <2>5. AreNodes(nodes) /\ ReadsIn(a, nodes)
    <3>1. ReadsIn(a, tree)
      BY <1>2, <2>1, <2>2, ReadsWhileExtended
    <3>2. QED
      BY <1>2, <2>3, <2>4, <3>1, NodePut
  <2> HIDE DEF nodes
  <2>6. records' = WithNode(records, o, OriginalOf(o)) /\ CommitAst(a, nodes, records')
    BY <1>1, <1>10
  <2>7. AreNodes(records') /\ DOMAIN records' \subseteq Aliases /\ ReadsIn(a, records')
    <3>1. AreNodes(records) /\ DOMAIN records \subseteq Aliases /\ ReadsIn(a, records)
      BY <1>2, <2>1, <2>2, ReadsWhileExtended DEF Locations
    <3>2. OriginalOf(o) \in Node /\ IsRead(a, OriginalOf(o))
      <4>1. CASE o \in DOMAIN records
        BY <3>1, <4>1 DEF OriginalOf, AreNodes, ReadsIn
      <4>2. CASE o \notin DOMAIN records
        <5>1. OriginalOf(o) = n
          BY <4>2 DEF OriginalOf, n
        <5>2. IsRead(a, n)
          BY <1>2, <1>3, <2>1, <2>2, ReadWhileExtended
        <5>3. QED
          BY <1>3, <5>1, <5>2
      <4>3. QED
        BY <4>1, <4>2
    <3> DEFINE x == OriginalOf(o)
    <3>3. x \in Node /\ IsRead(a, x) /\ o \in Owners /\ records' = WithNode(records, o, x)
      BY <2>6, <3>2
    <3> HIDE DEF x
    <3>4. /\ AreNodes(WithNode(records, o, x))
          /\ DOMAIN WithNode(records, o, x) = DOMAIN records \cup {o}
          /\ ReadsIn(a, WithNode(records, o, x))
      BY ONLY <3>1, <3>3, NodePut
    <3>5. QED
      BY ONLY <1>1, <3>1, <3>3, <3>4
  <2>8. /\ SpellingInvariant' /\ arena'.status = "OK"
        /\ arena' = a \/ Count(arena') <= Count(a)
    BY <1>1, <2>1, <2>5, <2>6, <2>7, CommitSpelling
  <2>9. Count(arena') > Count(arena) => Holes(arena) = {}
    <3>1. Count(arena') \in Nat /\ Count(arena) \in Nat /\ Count(a) \in Nat
      BY <1>2, <2>1, <2>8, ArenaFacts DEF SpellingInvariant, Sound
    <3>2. Count(arena') <= Count(a)
      BY <2>8, <3>1
    <3>3. QED
      BY <1>8, <2>1, <3>1, <3>2
  <2>10. QED
    BY <2>8, <2>9
<1>11. QED
  BY <1>9, <1>10

\* A list of patches puts serialization off and touches nothing else.
LEMMA BeginBatchSpelling ==
  ASSUME SpellingInvariant, BeginBatch
  PROVE  SpellingInvariant'
<1>1. /\ phase = "idle" /\ tree # NULL /\ batch' = TRUE
      /\ UNCHANGED <<arena, tree, wire, held, records, phase, dirty, swept, edits>>
  BY DEF BeginBatch
<1>2. Stage'
  BY <1>1 DEF SpellingInvariant, Stage
<1>3. Locations'
  BY <1>1 DEF SpellingInvariant, Locations
<1>4. SweptArenaIsExact'
  BY <1>1, SweptStays DEF HeldGroups
<1>5. QED
  BY <1>1, <1>2, <1>3, <1>4 DEF SpellingInvariant

\* The end of a list packs the tree if it has changed.
LEMMA EndBatchSpelling ==
  ASSUME SpellingInvariant, EndBatch
  PROVE  SpellingInvariant'
<1>1. /\ phase = "idle" /\ batch /\ wire' = (IF dirty THEN tree ELSE wire)
      /\ batch' = FALSE /\ dirty' = FALSE
      /\ UNCHANGED <<arena, tree, held, records, phase, swept, edits>>
  BY DEF EndBatch
<1>2. Stage /\ Locations
  BY DEF SpellingInvariant
<1>3. /\ dirty => tree # NULL
      /\ ~dirty /\ tree # NULL => wire = tree
      /\ dirty \in BOOLEAN
  BY <1>2 DEF Stage
<1>4. tree # NULL => wire' = tree
  BY <1>1, <1>3
<1>5. Stage'
  BY <1>1, <1>2, <1>4 DEF Stage
<1>6. Locations'
  <2>1. AreNodes(wire') /\ ReadsIn(arena, wire')
    BY <1>1, <1>2, <1>3 DEF Locations
  <2>2. QED
    BY <1>1, <1>2, <2>1 DEF Locations
<1>7. SweptArenaIsExact'
  <2>1. HeldGroups \subseteq HeldGroups'
    <3>1. CASE tree = NULL
      <4>1. wire' = wire
        BY <1>1, <1>3, <3>1
      <4>2. QED
        BY <1>1, <3>1, <4>1 DEF HeldGroups
    <3>2. CASE tree # NULL
      BY <1>1, <3>2 DEF HeldGroups
    <3>3. QED
      BY <3>1, <3>2
  <2>2. QED
    BY <1>1, <2>1, SweptStays
<1>8. QED
  BY <1>1, <1>5, <1>6, <1>7 DEF SpellingInvariant

\* sqlparser_handle_clone
LEMMA CloneSpelling ==
  ASSUME SpellingInvariant, Clone
  PROVE  SpellingInvariant' /\ Count(arena') = Count(arena) /\ arena'.status = "OK"
<1>1. /\ phase = "idle" /\ ~batch /\ arena' = CloneArena(arena) /\ tree' = NULL
      /\ UNCHANGED <<wire, held, records, phase, batch, dirty, swept, edits>>
  BY DEF Clone
<1>2. Stage /\ Locations /\ arena \in Arena /\ HolesAhead(arena) /\ arena.status = "OK"
      /\ ~dirty /\ (tree # NULL => wire = tree)
  BY <1>1 DEF SpellingInvariant, Stage, Sound
<1>3. /\ arena = [groups |-> arena.groups, capacity |-> arena.capacity, free |-> arena.free,
                  build |-> arena.build, status |-> arena.status]
      /\ arena.groups \in Seq(Group) /\ Count(arena) \in Nat /\ Count(arena) <= arena.capacity
      /\ arena.capacity \in Nat /\ arena.capacity <= MaxGroups /\ MaxGroups \in Nat
      /\ arena.free \in Nat /\ 1 <= arena.free /\ arena.free <= Count(arena) + 1
  BY <1>2, ArenaFacts
<1>4. arena' = [groups |-> arena.groups, capacity |-> Count(arena), free |-> arena.free,
                build |-> NULL, status |-> "OK"]
  BY <1>1, <1>2, <1>3 DEF CloneArena
<1>5. arena' \in Arena
  <2>1. "OK" \in Statuses /\ NULL \in Nat \cup {NULL} /\ Len(arena.groups) = Count(arena)
        /\ Count(arena) <= MaxGroups
    BY <1>3 DEF Statuses, Count
  <2>2. Len(arena.groups) <= Count(arena) /\ arena.free <= Len(arena.groups) + 1
    BY <1>3, <2>1
  <2>3. QED
    BY ONLY <1>3, <1>4, <2>1, <2>2, ArenaMade
<1>6. Count(arena') = Count(arena) /\ Holes(arena') = Holes(arena)
  BY <1>4 DEF Count, Holes
<1>7. arena' \in Sound
  BY <1>2, <1>4, <1>5, <1>6 DEF Sound, HolesAhead
<1>8. Extends(arena, arena')
  BY <1>2, <1>4, ExtendsSame
<1>9. Stage'
  BY <1>1, <1>2, <1>4 DEF Stage
<1>10. Locations'
  <2>1. \A nodes : AreNodes(nodes) /\ ReadsIn(arena, nodes) => ReadsIn(arena', nodes)
    BY <1>2, <1>5, <1>8, ReadsWhileExtended
  <2>2. QED
    BY <1>1, <1>2, <2>1 DEF Locations
<1>11. SweptArenaIsExact'
  <2>1. HeldGroups \subseteq HeldGroups'
    BY <1>1, <1>2 DEF HeldGroups
  <2>2. QED
    BY <1>1, <1>6, <2>1, SweptStays
<1>12. QED
  BY <1>4, <1>6, <1>7, <1>9, <1>10, <1>11 DEF SpellingInvariant

-----------------------------------------------------------------------------
(* Theorems.                                                               *)

\* Every step keeps the invariant.
LEMMA NextSpelling == SpellingInvariant /\ [Next]_vars => SpellingInvariant'
<1> SUFFICES ASSUME SpellingInvariant, [Next]_vars PROVE SpellingInvariant'
  OBVIOUS
<1>1. CASE EnsureAst
  BY <1>1, EnsureAstSpelling
<1>2. CASE DiscardAstAdapter
  BY <1>2, DiscardSpelling
<1>3. ASSUME NEW o \in Owners, NEW texts \in Messages, NEW c \in 1..Components,
             MarkMessage(o, texts, c)
      PROVE  SpellingInvariant'
  BY <1>3, MarkSpelling
<1>4. CASE MarkMessageFails
  BY <1>4, MarkFailsSpelling
<1>5. ASSUME NEW o \in Owners, NEW p \in Owners, CloneProtoNode(o, p) PROVE SpellingInvariant'
  BY <1>5, ClonedNodeSpelling
<1>6. CASE FinishGeneratedSource
  BY <1>6, FinishedSpelling
<1>7. CASE FinishFails
  BY <1>7, ReleaseSpelling DEF FinishFails
<1>8. CASE ClearIdentifierPath
  BY <1>8, ClearedSpelling
<1>9. CASE InstallFragments
  BY <1>9, InstalledSpelling
<1>10. ASSUME NEW o \in Owners, RemoveNode(o) \/ RestoreAlias(o) PROVE SpellingInvariant'
  BY <1>10, RemovedSpelling, RestoredSpelling
<1>11. ASSUME NEW o \in Owners, NEW text \in Texts, SetAlias(o, text) PROVE SpellingInvariant'
  BY <1>11, AliasSpelling
<1>12. CASE BeginBatch
  BY <1>12, BeginBatchSpelling
<1>13. CASE EndBatch
  BY <1>13, EndBatchSpelling
<1>14. CASE Clone
  BY <1>14, CloneSpelling
<1>15. CASE UNCHANGED vars
  <2>1. UNCHANGED <<arena, tree, wire, held, records, phase, batch, dirty, swept, edits>>
    BY <1>15 DEF vars
  <2>2. Stage' /\ Locations' /\ SweptArenaIsExact'
    BY <2>1 DEF SpellingInvariant, Stage, Locations, SweptArenaIsExact, HeldGroups
  <2>3. QED
    BY <2>1, <2>2 DEF SpellingInvariant
<1>16. QED
  BY <1>1, <1>2, <1>3, <1>4, <1>5, <1>6, <1>7, <1>8, <1>9, <1>10, <1>11, <1>12, <1>13,
     <1>14, <1>15 DEF Next

\* The arena, the trees, the fragments of an edit and the records stay what the
\* steps of an edit, of a sweep, of a batch and of a copy need.
THEOREM SpellingInvariance == Spec => []SpellingInvariant
<1>1. Init => SpellingInvariant
  BY InitSpelling
<1>2. SpellingInvariant /\ [Next]_vars => SpellingInvariant'
  BY NextSpelling
<1>3. QED
  BY <1>1, <1>2, PTL DEF Spec

\* The arena and the locations hold values of their types.
THEOREM SpellingTypes == Spec => []TypeOK
<1>1. SpellingInvariant => TypeOK
  <2> SUFFICES ASSUME SpellingInvariant PROVE TypeOK
    OBVIOUS
  <2>1. arena \in Arena /\ Stage /\ Locations
    BY DEF SpellingInvariant, Sound
  <2>2. /\ Count(arena) <= MaxGroups /\ Range(arena.groups) \subseteq Group
        /\ arena.capacity \in Count(arena)..MaxGroups
        /\ arena.free \in 1..Count(arena) + 1
        /\ arena.build \in (1..Count(arena)) \cup {NULL}
        /\ arena.status \in Statuses
    <3>1. /\ arena.groups \in Seq(Group) /\ Count(arena) \in Nat /\ Count(arena) <= arena.capacity
          /\ arena.capacity \in Nat /\ arena.capacity <= MaxGroups /\ MaxGroups \in Nat
          /\ DOMAIN arena.groups = 1..Count(arena)
          /\ arena.free \in Nat /\ 1 <= arena.free /\ arena.free <= Count(arena) + 1
          /\ arena.build = NULL \/ arena.build \in 1..Count(arena)
          /\ arena.status \in Statuses
      BY <2>1, ArenaFacts
    <3>2. Range(arena.groups) \subseteq Group
      BY <3>1 DEF Range
    <3>3. QED
      BY <3>1, <3>2
  <2>3. QED
    BY <2>1, <2>2 DEF TypeOK, Stage, Locations
<1>2. QED
  BY <1>1, SpellingInvariance, PTL

\* Whoever reads a location reads the text that was stored for it, whatever was
\* built, swept, copied or given up since.
THEOREM NamesAreRead == Spec => []NamesReadTheirSpelling
<1>1. SpellingInvariant => NamesReadTheirSpelling
  <2> SUFFICES ASSUME SpellingInvariant PROVE NamesReadTheirSpelling
    OBVIOUS
  <2>1. Stage /\ Locations
    BY DEF SpellingInvariant
  <2>2. \A nodes : ReadsIn(arena, nodes) => ReadsItsSpelling(nodes)
    BY DEF ReadsIn, IsRead, ReadsItsSpelling
  <2>3. phase # "marking" => ReadsIn(arena, held)
    BY <2>1 DEF Stage, Locations
  <2>4. QED
    BY <2>1, <2>2, <2>3 DEF Locations, NamesReadTheirSpelling
<1>2. QED
  BY <1>1, SpellingInvariance, PTL

\* A complete sweep leaves the groups that the tree, the fragments or the records
\* name and no others, and no hole at the end.
THEOREM SweepsAreExact == Spec => []SweptArenaIsExact
<1>1. SpellingInvariant => SweptArenaIsExact
  BY DEF SpellingInvariant
<1>2. QED
  BY <1>1, SpellingInvariance, PTL

\* The arena grows only when it has no hole, and refuses a group only when more
\* than half of the groups that can be numbered are there.
THEOREM ArenaGrowsLast == Spec => ArenaIsUsedUp
<1> DEFINE UsedUp == /\ Count(arena') > Count(arena) => Holes(arena) = {}
                     /\ arena.status = "OK" /\ arena'.status # "OK" /\ arena'.build = NULL
                          => 2 * Count(arena) > MaxGroups
<1>1. SpellingInvariant /\ SpellingInvariant' /\ [Next]_vars => [UsedUp]_vars
  <2> SUFFICES ASSUME SpellingInvariant, SpellingInvariant', Next PROVE UsedUp
    OBVIOUS
  <2>1. arena \in Sound /\ Count(arena) \in Nat /\ Count(arena') \in Nat
    BY ArenaFacts DEF SpellingInvariant, Sound
  <2>2. ASSUME arena' = arena \/ Count(arena') <= Count(arena), arena'.status = "OK" \/ arena' = arena
        PROVE  UsedUp
    BY <2>1, <2>2
  <2>3. CASE EnsureAst \/ DiscardAstAdapter \/ ClearIdentifierPath \/ BeginBatch \/ EndBatch
    <3>1. arena' = arena
      BY <2>3 DEF EnsureAst, DiscardAstAdapter, ClearIdentifierPath, BeginBatch, EndBatch
    <3>2. QED
      BY <2>2, <3>1
  <2>4. ASSUME NEW o \in Owners, NEW texts \in Messages, NEW c \in 1..Components,
               MarkMessage(o, texts, c)
        PROVE  UsedUp
    <3>1. texts \in Seq(Texts) /\ texts # <<>> /\ arena' = Spelled(arena, texts)
      BY <2>4, MessageAssumption DEF MarkMessage
    <3>2. QED
      BY <2>1, <3>1, MessageSpelled
  <2>5. CASE MarkMessageFails
    BY <2>1, <2>5, AppendFailsFacts DEF MarkMessageFails
  <2>6. ASSUME NEW o \in Owners, NEW p \in Owners, CloneProtoNode(o, p) PROVE UsedUp
    BY <2>2, <2>6 DEF CloneProtoNode
  <2>7. CASE FinishGeneratedSource
    BY <2>1, <2>2, <2>7, FinishSpellingFacts DEF FinishGeneratedSource
  <2>8. CASE FinishFails
    <3>1. arena' = EmptyArena
      BY <2>8 DEF FinishFails, ReleaseContents
    <3>2. QED
      BY <2>1, <2>2, <3>1, EmptyArenaFacts
  <2>9. CASE InstallFragments
    BY <2>2, <2>9, InstalledSpelling
  <2>10. ASSUME NEW o \in Owners, RemoveNode(o) \/ RestoreAlias(o) PROVE UsedUp
    BY <2>2, <2>10, RemovedSpelling, RestoredSpelling
  <2>11. ASSUME NEW o \in Owners, NEW text \in Texts, SetAlias(o, text) PROVE UsedUp
    BY <2>11, AliasSpelling
  <2>12. CASE Clone
    BY <2>1, <2>2, <2>12, CloneSpelling
  <2>13. QED
    BY <2>3, <2>4, <2>5, <2>6, <2>7, <2>8, <2>9, <2>10, <2>11, <2>12 DEF Next
<1>2. QED
  BY <1>1, SpellingInvariance, PTL DEF Spec, ArenaIsUsedUp
===============================================================================
