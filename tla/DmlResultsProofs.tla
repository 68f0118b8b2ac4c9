-------------------------- MODULE DmlResultsProofs --------------------------
(* Proofs about the OUTPUT state, the pairs and the selectors of           *)
(* DmlResults.                                                             *)
EXTENDS DmlResults, RecursionFacts, FiniteSetTheorems

-----------------------------------------------------------------------------
(* Channels.                                                               *)

\* The fields of a channel.
IsChannel(channel) ==
    /\ channel = [sink |-> channel.sink, columns |-> channel.columns, offset |-> channel.offset,
                  count |-> channel.count, actions |-> channel.actions]
    /\ channel.offset \in Nat /\ channel.count \in Nat

\* What sqlparser_sqlserver_output_adjust_target_count makes of each channel:
\* the channels before the edited one stay, those after it move by one.
LEMMA AdjustedFacts ==
    ASSUME NEW C, NEW channels \in Seq(C), \A b \in DOMAIN channels : IsChannel(channels[b]),
           NEW c \in DOMAIN channels, NEW actions, NEW delta \in {1, -1},
           NEW after, after = Adjusted(channels, c, actions, delta)
    PROVE  /\ DOMAIN after = DOMAIN channels /\ Len(after) = Len(channels)
           /\ \A b \in DOMAIN channels :
                  /\ after[b].offset = IF b > c THEN channels[b].offset + delta
                                       ELSE channels[b].offset
                  /\ after[b].count = IF b = c THEN channels[b].count + delta
                                      ELSE channels[b].count
                  /\ after[b].actions = IF b = c THEN actions ELSE channels[b].actions
                  /\ after[b].sink = channels[b].sink /\ after[b].columns = channels[b].columns
<1>1. DOMAIN channels = 1..Len(channels) /\ Len(channels) \in Nat
  OBVIOUS
<1>2. after = [b \in 1..Len(channels) |->
                  CASE b < c -> channels[b]
                    [] b = c -> Resized(channels[b], actions, delta)
                    [] OTHER -> [channels[b] EXCEPT !.offset = @ + delta]]
  BY <1>1 DEF Adjusted
<1>3. DOMAIN after = DOMAIN channels /\ Len(after) = Len(channels)
  BY <1>1, <1>2
<1>4. ASSUME NEW b \in DOMAIN channels
      PROVE  /\ after[b].offset = IF b > c THEN channels[b].offset + delta
                                  ELSE channels[b].offset
             /\ after[b].count = IF b = c THEN channels[b].count + delta
                                 ELSE channels[b].count
             /\ after[b].actions = IF b = c THEN actions ELSE channels[b].actions
             /\ after[b].sink = channels[b].sink /\ after[b].columns = channels[b].columns
  <2> IsChannel(channels[b]) /\ b \in Int /\ c \in Int
    BY <1>1
  <2>1. CASE b < c
    BY <2>1, <1>1, <1>2
  <2>2. CASE b = c
    <3>1. after[b] = Resized(channels[b], actions, delta)
      BY <2>2, <1>1, <1>2
    <3>2. QED
      BY <2>2, <3>1 DEF Resized, IsChannel
  <2>3. CASE b > c
    <3>1. after[b] = [channels[b] EXCEPT !.offset = @ + delta]
      BY <2>3, <1>1, <1>2
    <3>2. QED
      BY <2>3, <3>1 DEF IsChannel
  <2>4. QED
    BY <2>1, <2>2, <2>3
<1>5. QED
  BY <1>3, <1>4

\* A shift commutes with a sum.
LEMMA Shifted ==
    ASSUME NEW x \in Nat, NEW y \in Nat, NEW delta \in Int
    PROVE  (x + y) + delta = (x + delta) + y /\ (x + y) + delta = x + (y + delta)
  OBVIOUS

\* Whatever its new marks, as long as they are within it and a target is left.
LEMMA AdjustedTiles ==
    ASSUME NEW C, NEW channels \in Seq(C), \A b \in DOMAIN channels : IsChannel(channels[b]),
           NEW n \in Nat, Tiles(channels, n),
           NEW c \in DOMAIN channels, NEW actions, NEW delta \in {1, -1},
           channels[c].count + delta > 0, DOMAIN actions \subseteq 1..(channels[c].count + delta)
    PROVE  Tiles(Adjusted(channels, c, actions, delta), n + delta)
<1> DEFINE after == Adjusted(channels, c, actions, delta)
<1>1. DOMAIN channels = 1..Len(channels) /\ Len(channels) \in Nat /\ channels # <<>>
  OBVIOUS
<1>2. /\ DOMAIN after = DOMAIN channels /\ Len(after) = Len(channels)
      /\ \A b \in DOMAIN channels :
             /\ after[b].offset = IF b > c THEN channels[b].offset + delta ELSE channels[b].offset
             /\ after[b].count = IF b = c THEN channels[b].count + delta ELSE channels[b].count
             /\ after[b].actions = IF b = c THEN actions ELSE channels[b].actions
  BY AdjustedFacts
<1> HIDE DEF after
<1>3. after # <<>>
  BY <1>1, <1>2
<1>4. ASSUME NEW b \in DOMAIN after
      PROVE  /\ after[b].count > 0
             /\ after[b].offset = IF b = 1 THEN 0 ELSE after[b - 1].offset + after[b - 1].count
             /\ DOMAIN after[b].actions \subseteq 1..after[b].count
  <2>1. /\ channels[b].count \in Nat /\ channels[b].count > 0 /\ channels[b].offset \in Nat
        /\ channels[b].offset = IF b = 1 THEN 0
                                ELSE channels[b - 1].offset + channels[b - 1].count
        /\ DOMAIN channels[b].actions \subseteq 1..channels[b].count
    BY <1>2 DEF Tiles, IsChannel
  <2>2. b \in Int /\ b >= 1 /\ c \in Int /\ c >= 1 /\ delta \in Int
    BY <1>1, <1>2
  <2>3. after[b].count > 0
    BY <1>2, <2>1, <2>2
  <2>4. after[b].offset = IF b = 1 THEN 0 ELSE after[b - 1].offset + after[b - 1].count
    <3>1. CASE b = 1
      BY <1>2, <2>1, <2>2, <3>1
    <3>2. CASE b # 1
      <4>1. b - 1 \in DOMAIN channels /\ b \in DOMAIN channels
        BY <1>1, <1>2, <3>2
      <4>2. channels[b - 1].offset \in Nat /\ channels[b - 1].count \in Nat
        BY <4>1 DEF IsChannel
      <4>3. /\ after[b - 1].offset = IF b - 1 > c THEN channels[b - 1].offset + delta
                                     ELSE channels[b - 1].offset
            /\ after[b - 1].count = IF b - 1 = c THEN channels[b - 1].count + delta
                                    ELSE channels[b - 1].count
            /\ after[b].offset = IF b > c THEN channels[b].offset + delta ELSE channels[b].offset
        BY <1>2, <4>1
      <4>4. channels[b].offset = channels[b - 1].offset + channels[b - 1].count
        BY <2>1, <3>2
      <4>5. CASE b <= c
        <5>1. ~(b > c) /\ ~(b - 1 > c) /\ b - 1 # c
          BY <2>2, <4>5
        <5>2. QED
          BY <3>2, <4>3, <4>4, <5>1
      <4>6. CASE b = c + 1
        <5>1. b > c /\ ~(b - 1 > c) /\ b - 1 = c
          BY <2>2, <4>6
        <5>2. after[b].offset = channels[b].offset + delta
          BY <4>3, <5>1
        <5>3. after[b - 1].offset = channels[b - 1].offset
          BY <4>3, <5>1
        <5>4. after[b - 1].count = channels[b - 1].count + delta
          BY <4>3, <5>1
        <5>5. (channels[b - 1].offset + channels[b - 1].count) + delta
                  = channels[b - 1].offset + (channels[b - 1].count + delta)
          BY ONLY <4>2, delta \in Int, Shifted, Zenon
        <5>6. QED
          BY <3>2, <4>4, <5>2, <5>3, <5>4, <5>5
      <4>7. CASE b > c + 1
        <5>1. b > c /\ b - 1 > c /\ b - 1 # c
          BY <2>2, <4>7
        <5>2. after[b].offset = channels[b].offset + delta
          BY <4>3, <5>1
        <5>3. after[b - 1].offset = channels[b - 1].offset + delta
          BY <4>3, <5>1
        <5>4. after[b - 1].count = channels[b - 1].count
          BY <4>3, <5>1
        <5>5. (channels[b - 1].offset + channels[b - 1].count) + delta
                  = (channels[b - 1].offset + delta) + channels[b - 1].count
          BY ONLY <4>2, delta \in Int, Shifted, Zenon
        <5>6. QED
          BY <3>2, <4>4, <5>2, <5>3, <5>4, <5>5
      <4>8. QED
        BY <2>2, <4>5, <4>6, <4>7
    <3>3. QED
      BY <3>1, <3>2
  <2>5. DOMAIN after[b].actions \subseteq 1..after[b].count
    BY <1>2, <2>1
  <2>6. QED
    BY <2>3, <2>4, <2>5
<1>5. n + delta = after[Len(after)].offset + after[Len(after)].count
  <2>1. n = channels[Len(channels)].offset + channels[Len(channels)].count
    BY <1>1 DEF Tiles
  <2>2. Len(channels) \in DOMAIN channels /\ c <= Len(channels) /\ c \in Nat /\ delta \in Int
    BY <1>1
  <2>3. /\ channels[Len(channels)].offset \in Nat /\ channels[Len(channels)].count \in Nat
    BY <2>2 DEF IsChannel
  <2>4. CASE c = Len(channels)
    <3>1. /\ after[Len(after)].offset = channels[Len(channels)].offset
          /\ after[Len(after)].count = channels[Len(channels)].count + delta
      BY <1>1, <1>2, <2>2, <2>4
    <3>2. QED
      BY <2>1, <2>2, <2>3, <3>1
  <2>5. CASE c # Len(channels)
    <3>1. /\ after[Len(after)].offset = channels[Len(channels)].offset + delta
          /\ after[Len(after)].count = channels[Len(channels)].count
      BY <1>1, <1>2, <2>2, <2>5
    <3>2. QED
      BY <2>1, <2>2, <2>3, <3>1
  <2>6. QED
    BY <2>4, <2>5
<1>6. QED
  BY <1>3, <1>4, <1>5 DEF Tiles, after

\* sqlparser_dml_result_insert_target_sql: a target that is put into a channel
\* makes room for itself.  The channels then share out a list one longer, and
\* every $action mark is within its channel.
THEOREM GrownTiles ==
    ASSUME NEW C, NEW channels \in Seq(C), \A b \in DOMAIN channels : IsChannel(channels[b]),
           NEW n \in Nat, Tiles(channels, n),
           NEW c \in DOMAIN channels, NEW i \in 1..(channels[c].count + 1)
    PROVE  Tiles(Grown(channels, c, i), n + 1)
<1>1. channels[c].count \in Nat /\ DOMAIN channels[c].actions \subseteq 1..channels[c].count
  BY DEF Tiles, IsChannel
<1>2. DOMAIN ActionsAfterInsert(channels[c].actions, i) \subseteq 1..(channels[c].count + 1)
  BY <1>1 DEF ActionsAfterInsert
<1>3. channels[c].count + 1 > 0
  BY <1>1
<1>4. QED
  BY <1>2, <1>3, AdjustedTiles DEF Grown

\* sqlparser_dml_result_delete_target: a target that is not the channel's only
\* one closes its gap.
THEOREM ShrunkTiles ==
    ASSUME NEW C, NEW channels \in Seq(C), \A b \in DOMAIN channels : IsChannel(channels[b]),
           NEW n \in Nat, Tiles(channels, n),
           NEW c \in DOMAIN channels, NEW i \in 1..channels[c].count, channels[c].count # 1
    PROVE  Tiles(Shrunk(channels, c, i), n - 1)
<1>1. /\ channels[c].count \in Nat /\ channels[c].count > 1
      /\ DOMAIN channels[c].actions \subseteq 1..channels[c].count
  BY DEF Tiles, IsChannel
<1>2. DOMAIN ActionsAfterDelete(channels[c].actions, i) \subseteq 1..(channels[c].count - 1)
  BY <1>1 DEF ActionsAfterDelete
<1>3. channels[c].count + (-1) > 0 /\ n + (-1) = n - 1
      /\ channels[c].count + (-1) = channels[c].count - 1
  BY <1>1
<1>4. Tiles(Adjusted(channels, c, ActionsAfterDelete(channels[c].actions, i), -1), n + (-1))
  BY <1>2, <1>3, AdjustedTiles
<1>5. QED
  BY <1>3, <1>4 DEF Shrunk

\* sqlparser_sqlserver_output_channel_set_action: a target that gains or loses
\* $action changes nothing in how the list is shared out.
THEOREM MarkedTiles ==
    ASSUME NEW C, NEW channels \in Seq(C), \A b \in DOMAIN channels : IsChannel(channels[b]),
           NEW n \in Nat, Tiles(channels, n),
           NEW c \in DOMAIN channels, NEW i \in 1..channels[c].count, NEW marker
    PROVE  Tiles(Marked(channels, c, i, marker), n)
<1> DEFINE after == Marked(channels, c, i, marker)
<1>1. DOMAIN channels = 1..Len(channels) /\ Len(channels) \in Nat /\ channels # <<>>
  OBVIOUS
<1>2. /\ DOMAIN after = DOMAIN channels /\ Len(after) = Len(channels)
      /\ \A b \in DOMAIN channels :
             /\ after[b].offset = channels[b].offset /\ after[b].count = channels[b].count
             /\ b # c => after[b].actions = channels[b].actions
  BY <1>1 DEF Marked, IsChannel
<1>3. DOMAIN after[c].actions \subseteq DOMAIN channels[c].actions \cup {i}
  BY DEF Marked, IsChannel
<1>4. after # <<>>
  BY <1>1, <1>2
<1> HIDE DEF after
<1>5. ASSUME NEW b \in DOMAIN after
      PROVE  /\ after[b].count > 0
             /\ after[b].offset = IF b = 1 THEN 0 ELSE after[b - 1].offset + after[b - 1].count
             /\ DOMAIN after[b].actions \subseteq 1..after[b].count
  <2>1. /\ channels[b].count > 0 /\ DOMAIN channels[b].actions \subseteq 1..channels[b].count
        /\ channels[b].offset = IF b = 1 THEN 0
                                ELSE channels[b - 1].offset + channels[b - 1].count
    BY <1>2 DEF Tiles
  <2>2. /\ b \in DOMAIN channels /\ after[b].offset = channels[b].offset
        /\ after[b].count = channels[b].count
    BY <1>2
  <2>3. after[b].offset = IF b = 1 THEN 0 ELSE after[b - 1].offset + after[b - 1].count
    <3>1. CASE b = 1
      BY <2>1, <2>2, <3>1
    <3>2. CASE b # 1
      <4>1. b - 1 \in DOMAIN channels
        BY <1>1, <2>2, <3>2
      <4>2. /\ after[b - 1].offset = channels[b - 1].offset
            /\ after[b - 1].count = channels[b - 1].count
        BY <1>2, <4>1
      <4>3. QED
        BY <2>1, <2>2, <3>2, <4>2
    <3>3. QED
      BY <3>1, <3>2
  <2>4. DOMAIN after[b].actions \subseteq 1..channels[b].count
    <3>1. CASE b = c
      BY <1>3, <2>1, <3>1
    <3>2. CASE b # c
      BY <1>2, <2>1, <2>2, <3>2
    <3>3. QED
      BY <3>1, <3>2
  <2>5. QED
    BY <2>1, <2>2, <2>3, <2>4
<1>6. n = after[Len(after)].offset + after[Len(after)].count
  <2>1. n = channels[Len(channels)].offset + channels[Len(channels)].count
    BY <1>1 DEF Tiles
  <2>2. Len(channels) \in DOMAIN channels
    BY <1>1
  <2>3. QED
    BY <1>2, <2>1, <2>2
<1>7. QED
  BY <1>4, <1>5, <1>6 DEF Tiles, after

\* Of at most two channels the first one ends before the second one begins.
LEMMA ChannelsInOrder ==
    ASSUME NEW C, NEW channels \in Seq(C), \A b \in DOMAIN channels : IsChannel(channels[b]),
           Len(channels) <= 2, NEW n \in Nat, Tiles(channels, n),
           NEW b \in DOMAIN channels, NEW c \in DOMAIN channels
    PROVE  /\ b < c => channels[b].offset + channels[b].count <= channels[c].offset
           /\ channels[b].offset + channels[b].count <= n
<1>1. /\ Len(channels) \in Nat /\ DOMAIN channels = 1..Len(channels)
      /\ b \in 1..Len(channels) /\ c \in 1..Len(channels)
  OBVIOUS
<1>2. /\ channels[b].offset \in Nat /\ channels[b].count \in Nat
      /\ channels[c].offset \in Nat /\ channels[c].count \in Nat
  BY DEF IsChannel
<1>3. channels # <<>>
  BY <1>1
<1>4. n = channels[Len(channels)].offset + channels[Len(channels)].count
  BY <1>3 DEF Tiles
<1>5. CASE b = Len(channels)
  BY <1>1, <1>2, <1>4, <1>5
<1>6. CASE b # Len(channels)
  <2>1. b = 1 /\ Len(channels) = 2 /\ 2 \in DOMAIN channels
    BY <1>1, <1>6
  <2>2. channels[2].offset = channels[1].offset + channels[1].count
    BY <2>1 DEF Tiles
  <2>3. channels[2].offset \in Nat /\ channels[2].count \in Nat
    BY <2>1 DEF IsChannel
  <2>4. b < c => c = 2
    BY <1>1, <2>1
  <2>5. QED
    BY <1>2, <1>4, <2>1, <2>2, <2>3, <2>4
<1>7. QED
  BY <1>5, <1>6

\* Where a target is after one was put at i of channel c, or taken from it.
PlaceAfterInsert(b, j, c, i) == IF b = c /\ j >= i THEN j + 1 ELSE j
PlaceAfterDelete(b, j, c, i) == IF b = c /\ j > i THEN j - 1 ELSE j

\* The callers' selectors stay right through an insertion: every other target
\* of both channels is read as before, at its place or, after the new one in
\* the same channel, at the next; and so is its mark.
THEOREM InsertionKeepsTargets ==
    ASSUME NEW C, NEW channels \in Seq(C), \A b \in DOMAIN channels : IsChannel(channels[b]),
           Len(channels) <= 2, NEW T, NEW list \in Seq(T), Tiles(channels, Len(list)),
           NEW c \in DOMAIN channels, NEW i \in 1..(channels[c].count + 1), NEW t \in T,
           NEW b \in DOMAIN channels, NEW j \in 1..channels[b].count
    PROVE  LET after == Grown(channels, c, i)
               place == PlaceAfterInsert(b, j, c, i)
           IN /\ InsertAt(list, channels[c].offset + i, t)[after[b].offset + place]
                     = list[channels[b].offset + j]
              /\ MarkerAt(after[b], place) = MarkerAt(channels[b], j)
<1> DEFINE moved == ActionsAfterInsert(channels[c].actions, i)
           after == Adjusted(channels, c, moved, 1)
           place == PlaceAfterInsert(b, j, c, i)
           k == channels[c].offset + i
<1>1. /\ DOMAIN channels = 1..Len(channels) /\ Len(channels) \in Nat
      /\ b \in Int /\ c \in Int /\ i \in Nat /\ j \in Nat /\ i > 0 /\ j > 0
      /\ i <= channels[c].count + 1 /\ j <= channels[b].count
      /\ channels[b].offset \in Nat /\ channels[b].count \in Nat
      /\ channels[c].offset \in Nat /\ channels[c].count \in Nat
  BY DEF IsChannel
<1>2. /\ after[b].offset = IF b > c THEN channels[b].offset + 1 ELSE channels[b].offset
      /\ after[b].actions = IF b = c THEN moved ELSE channels[b].actions
  BY AdjustedFacts
<1>3. /\ b < c => channels[b].offset + channels[b].count <= channels[c].offset
      /\ c < b => channels[c].offset + channels[c].count <= channels[b].offset
      /\ channels[b].offset + channels[b].count <= Len(list)
      /\ channels[c].offset + channels[c].count <= Len(list)
  BY ChannelsInOrder
<1>4. /\ k \in 1..(Len(list) + 1)
      /\ \A m \in 1..(Len(list) + 1) :
             InsertAt(list, k, t)[m] = IF m < k THEN list[m] ELSE IF m = k THEN t ELSE list[m - 1]
  <2>1. k \in 1..(Len(list) + 1)
    BY <1>1, <1>3, SMTT(40)
  <2> HIDE DEF k
  <2>2. QED
    BY <2>1, InsertAtFacts
<1> HIDE DEF after, moved, k
<1>5. InsertAt(list, k, t)[after[b].offset + place] = list[channels[b].offset + j]
  <2> DEFINE ob == channels[b].offset
             nb == channels[b].count
             oc == channels[c].offset
             nc == channels[c].count
             n == Len(list)
             p == after[b].offset + place
  <2>1. /\ b \in Int /\ c \in Int /\ i \in Nat /\ j \in Nat /\ n \in Nat
        /\ ob \in Nat /\ nb \in Nat /\ oc \in Nat /\ nc \in Nat
        /\ i > 0 /\ j > 0 /\ i <= nc + 1 /\ j <= nb
    BY <1>1
  <2>2. /\ b = c => ob = oc /\ nb = nc
        /\ b < c => ob + nb <= oc
        /\ c < b => oc + nc <= ob
        /\ ob + nb <= n
    BY <1>3
  <2>3. p = (IF b > c THEN ob + 1 ELSE ob) + (IF b = c /\ j >= i THEN j + 1 ELSE j)
    BY <1>2 DEF PlaceAfterInsert
  <2>4. /\ k = oc + i
        /\ \A m \in 1..(n + 1) :
               InsertAt(list, k, t)[m] = IF m < k THEN list[m] ELSE IF m = k THEN t ELSE list[m - 1]
    BY <1>4 DEF k
  <2> HIDE DEF ob, nb, oc, nc, n, p
  <2>5. p \in 1..(n + 1) /\ ((p < k /\ p = ob + j) \/ (p > k /\ p - 1 = ob + j))
    <3>1. CASE b = c
      BY <2>1, <2>2, <2>3, <2>4, <3>1
    <3>2. CASE b < c
      BY <2>1, <2>2, <2>3, <2>4, <3>2
    <3>3. CASE b > c
      BY <2>1, <2>2, <2>3, <2>4, <3>3
    <3>4. QED
      BY <2>1, <3>1, <3>2, <3>3
  <2>6. k \in Int
    BY <2>1, <2>4
  <2>7. InsertAt(list, k, t)[p] = list[ob + j]
    BY <2>4, <2>5, <2>6
  <2>8. QED
    BY <2>7 DEF ob, p
<1>6. MarkerAt(after[b], place) = MarkerAt(channels[b], j)
  <2>1. CASE b # c
    BY <1>2, <2>1 DEF PlaceAfterInsert, MarkerAt
  <2>2. CASE b = c
    <3>1. DOMAIN channels[c].actions \subseteq Nat
      BY DEF Tiles, IsChannel
    <3>2. /\ place \in DOMAIN moved <=> j \in DOMAIN channels[c].actions
          /\ j \in DOMAIN channels[c].actions => moved[place] = channels[c].actions[j]
      BY <1>1, <2>2, <3>1 DEF moved, ActionsAfterInsert, PlaceAfterInsert
    <3>3. QED
      BY <1>2, <2>2, <3>2 DEF MarkerAt
  <2>3. QED
    BY <2>1, <2>2
<1>7. QED
  BY <1>5, <1>6 DEF Grown, after, moved, k

\* And through a removal: what follows in the same channel is read at the place
\* before, everything else where it was.
THEOREM DeletionKeepsTargets ==
    ASSUME NEW C, NEW channels \in Seq(C), \A b \in DOMAIN channels : IsChannel(channels[b]),
           Len(channels) <= 2, NEW T, NEW list \in Seq(T), Tiles(channels, Len(list)),
           NEW c \in DOMAIN channels, NEW i \in 1..channels[c].count, channels[c].count # 1,
           NEW b \in DOMAIN channels, NEW j \in 1..channels[b].count, b = c => j # i
    PROVE  LET after == Shrunk(channels, c, i)
               place == PlaceAfterDelete(b, j, c, i)
           IN /\ RemoveAt(list, channels[c].offset + i)[after[b].offset + place]
                     = list[channels[b].offset + j]
              /\ MarkerAt(after[b], place) = MarkerAt(channels[b], j)
<1> DEFINE moved == ActionsAfterDelete(channels[c].actions, i)
           after == Adjusted(channels, c, moved, -1)
           place == PlaceAfterDelete(b, j, c, i)
           k == channels[c].offset + i
<1>1. /\ DOMAIN channels = 1..Len(channels) /\ Len(channels) \in Nat
      /\ b \in Int /\ c \in Int /\ i \in Nat /\ j \in Nat /\ i > 0 /\ j > 0
      /\ i <= channels[c].count /\ j <= channels[b].count
      /\ channels[b].offset \in Nat /\ channels[b].count \in Nat
      /\ channels[c].offset \in Nat /\ channels[c].count \in Nat
  BY DEF IsChannel
<1>2. /\ after[b].offset = IF b > c THEN channels[b].offset + (-1) ELSE channels[b].offset
      /\ after[b].actions = IF b = c THEN moved ELSE channels[b].actions
  BY AdjustedFacts
<1>3. /\ b < c => channels[b].offset + channels[b].count <= channels[c].offset
      /\ c < b => channels[c].offset + channels[c].count <= channels[b].offset
      /\ channels[b].offset + channels[b].count <= Len(list)
      /\ channels[c].offset + channels[c].count <= Len(list)
  BY ChannelsInOrder
<1>4. /\ k \in 1..Len(list)
      /\ \A m \in 1..(Len(list) - 1) :
             RemoveAt(list, k)[m] = IF m < k THEN list[m] ELSE list[m + 1]
  <2> DEFINE oc == channels[c].offset
             nc == channels[c].count
             n == Len(list)
  <2>1. oc \in Nat /\ nc \in Nat /\ i \in Nat /\ i > 0 /\ i <= nc
    BY <1>1
  <2>2. n \in Nat /\ oc + nc <= n
    BY <1>3
  <2>3. k = oc + i
    OBVIOUS
  <2> HIDE DEF k, oc, nc, n
  <2>4. k \in 1..n
    BY ONLY <2>1, <2>2, <2>3
  <2>5. k \in 1..Len(list)
    BY <2>4 DEF n
  <2>6. QED
    BY <2>5, RemoveAtFacts
<1> HIDE DEF after, moved, k
<1>5. RemoveAt(list, k)[after[b].offset + place] = list[channels[b].offset + j]
  <2> DEFINE ob == channels[b].offset
             nb == channels[b].count
             oc == channels[c].offset
             nc == channels[c].count
             n == Len(list)
             p == after[b].offset + place
  <2>1. /\ b \in Int /\ c \in Int /\ i \in Nat /\ j \in Nat /\ n \in Nat
        /\ ob \in Nat /\ nb \in Nat /\ oc \in Nat /\ nc \in Nat
        /\ i > 0 /\ j > 0 /\ i <= nc /\ j <= nb /\ (b = c => j # i)
    BY <1>1
  <2>2. /\ b = c => ob = oc /\ nb = nc
        /\ b < c => ob + nb <= oc
        /\ c < b => oc + nc <= ob
        /\ ob + nb <= n /\ oc + nc <= n
    BY <1>3
  <2>3. p = (IF b > c THEN ob + (-1) ELSE ob) + (IF b = c /\ j > i THEN j - 1 ELSE j)
    BY <1>2 DEF PlaceAfterDelete
  <2>4. /\ k = oc + i
        /\ \A m \in 1..(n - 1) :
               RemoveAt(list, k)[m] = IF m < k THEN list[m] ELSE list[m + 1]
    BY <1>4 DEF k
  <2> HIDE DEF ob, nb, oc, nc, n, p
  <2>5. p \in 1..(n - 1) /\ ((p < k /\ p = ob + j) \/ (p >= k /\ p + 1 = ob + j))
    <3>1. CASE b = c
      BY <2>1, <2>2, <2>3, <2>4, <3>1
    <3>2. CASE b < c
      BY <2>1, <2>2, <2>3, <2>4, <3>2
    <3>3. CASE b > c
      BY <2>1, <2>2, <2>3, <2>4, <3>3
    <3>4. QED
      BY <2>1, <3>1, <3>2, <3>3
  <2>6. k \in Int
    BY <2>1, <2>4
  <2>7. RemoveAt(list, k)[p] = list[ob + j]
    BY <2>4, <2>5, <2>6
  <2>8. QED
    BY <2>7 DEF ob, p
<1>6. MarkerAt(after[b], place) = MarkerAt(channels[b], j)
  <2>1. CASE b # c
    BY <1>2, <2>1 DEF PlaceAfterDelete, MarkerAt
  <2>2. CASE b = c
    <3>1. DOMAIN channels[c].actions \subseteq Nat
      BY DEF Tiles, IsChannel
    <3>2. /\ place \in DOMAIN moved <=> j \in DOMAIN channels[c].actions
          /\ j \in DOMAIN channels[c].actions => moved[place] = channels[c].actions[j]
      BY <1>1, <2>2, <3>1 DEF moved, ActionsAfterDelete, PlaceAfterDelete
    <3>3. QED
      BY <1>2, <2>2, <3>2 DEF MarkerAt
  <2>3. QED
    BY <2>1, <2>2
<1>7. QED
  BY <1>5, <1>6 DEF Shrunk, after, moved, k

-----------------------------------------------------------------------------
(* The pairs of RETURNING ... INTO.                                        *)

\* Only an Oracle handle has pairs, and a statement with pairs has one node,
\* whose list holds the targets and then as many binds.
HasReceivers(list, n) == \A i \in 1..n : list[n + i][1] \in STRING
PairedStatement(s) ==
    /\ dialect = "oracle"
    /\ tree[s] = <<Node(tree[s][1].kind, None, tree[s][1].returning)>>
    /\ tree[s][1].returning \in Seq(Target)
    /\ Len(tree[s][1].returning) = 2 * pairs[s]
    /\ HasReceivers(tree[s][1].returning, pairs[s])
PairsInvariant ==
    /\ DOMAIN pairs = DOMAIN tree
    /\ \A s \in DOMAIN tree : pairs[s] \in Nat /\ (pairs[s] > 0 => PairedStatement(s))

\* Nothing is parsed at first, so there is no pair.
LEMMA InitPairs == Init => PairsInvariant
  BY DEF Init, PairsInvariant

\* Receivers come behind the targets, one for each column.
LEMMA WithReceiversFacts ==
    ASSUME NEW targets \in Seq(Target), NEW columns \in Seq(STRING)
    PROVE  /\ WithReceivers(targets, columns) \in Seq(Target)
           /\ Len(WithReceivers(targets, columns)) = Len(targets) + Len(columns)
           /\ \A i \in 1..Len(columns) :
                  WithReceivers(targets, columns)[Len(targets) + i][1] = columns[i]
<1> DEFINE binds == [i \in DOMAIN columns |-> Receiver(columns[i])]
<1>1. \A i \in DOMAIN columns : Receiver(columns[i]) \in Target
  BY DEF Receiver, Target, Word
<1>2. DOMAIN columns = 1..Len(columns) /\ Len(columns) \in Nat
  OBVIOUS
<1>3. binds \in Seq(Target) /\ Len(binds) = Len(columns)
  BY <1>1, <1>2
<1> HIDE DEF binds
<1>4. WithReceivers(targets, columns) = targets \o binds
  BY DEF WithReceivers, binds
<1>5. /\ targets \o binds \in Seq(Target) /\ Len(targets \o binds) = Len(targets) + Len(binds)
      /\ \A j \in 1..(Len(targets) + Len(binds)) :
             (targets \o binds)[j] = IF j <= Len(targets) THEN targets[j] ELSE binds[j - Len(targets)]
  BY <1>3, ConcatFacts
<1>6. ASSUME NEW i \in 1..Len(columns) PROVE (targets \o binds)[Len(targets) + i][1] = columns[i]
  <2>1. /\ Len(targets) + i \in 1..(Len(targets) + Len(binds)) /\ ~(Len(targets) + i <= Len(targets))
        /\ (Len(targets) + i) - Len(targets) = i
    BY <1>2, <1>3
  <2>2. (targets \o binds)[Len(targets) + i] = binds[i]
    BY <1>5, <2>1
  <2>3. binds[i] = <<columns[i]>>
    BY <1>2 DEF binds, Receiver
  <2>4. QED
    BY <2>2, <2>3
<1>7. QED
  BY <1>3, <1>4, <1>5, <1>6

\* sqlparser_dialect_returning_into_append: the parse appends a receiver for
\* each target.
LEMMA ParsePairs ==
    ASSUME Parse
    PROVE  PairsInvariant'
<1>1. SUFFICES ASSUME NEW doc \in Documents, dialect' = doc.dialect,
                      ParseSqlServer(doc) \/ ParseOracle(doc) \/ ParsePostgres(doc)
               PROVE  PairsInvariant'
  BY DEF Parse
<1>2. CASE ParseSqlServer(doc)
  BY <1>2 DEF ParseSqlServer, SqlServerTree, PairsInvariant
<1>3. CASE ParsePostgres(doc)
  BY <1>3 DEF ParsePostgres, PostgresTree, PairsInvariant
<1>4. CASE ParseOracle(doc)
  <2>1. dialect' = "oracle"
    <3>1. dialect' = doc.dialect
      BY <1>1
    <3>2. doc.dialect = "oracle"
      BY <1>4 DEF ParseOracle
    <3>3. QED
      BY <3>1, <3>2
  <2>2. DOMAIN tree' = DOMAIN doc.statements /\ DOMAIN pairs' = DOMAIN doc.statements
    BY <1>4 DEF ParseOracle, OracleTree
  <2>3. ASSUME NEW s \in DOMAIN doc.statements
        PROVE  pairs'[s] \in Nat /\ (pairs'[s] > 0 => PairedStatement(s)')
    <3> DEFINE clause == doc.statements[s].clause
               list == OracleList(clause)
               kind == doc.statements[s].kind
    <3>1. /\ pairs'[s] = Len(PlainTargets(clause))
          /\ tree'[s] = <<Node(kind, None, list)>>
          /\ PairsMatch(clause)
      BY <1>4 DEF ParseOracle, OracleTree
    <3>2. CASE clause = <<>>
      BY <3>1, <3>2 DEF PlainTargets
    <3>3. CASE clause # <<>>
      <4> DEFINE targets == clause[1].targets
                 columns == clause[1].columns
      <4>1. targets \in Seq(Target) /\ columns \in Seq(STRING)
        <5>1. doc.statements[s] \in Texts
          BY DocumentsAssumption
        <5>2. clause \in Clause
          BY <5>1 DEF Texts
        <5> DEFINE Element == [sink : Sink, columns : Seq(STRING),
                               targets : Seq(Target)]
        <5>3. clause \in Seq(Element)
          BY <5>2 DEF Clause
        <5> HIDE DEF clause, Element
        <5>4. clause[1] \in Element
          BY <3>3, <5>3
        <5>5. QED
          BY <5>4 DEF Element
      <4>2. /\ list = WithReceivers(targets, columns)
            /\ pairs'[s] = Len(targets) /\ Len(columns) = Len(targets)
        BY <3>1, <3>3 DEF OracleList, PlainTargets, PairsMatch
      <4> HIDE DEF list, targets, columns, kind
      <4>3. /\ list \in Seq(Target) /\ Len(list) = Len(targets) + Len(columns)
            /\ \A i \in 1..Len(columns) : list[Len(targets) + i][1] = columns[i]
        BY <4>1, <4>2, WithReceiversFacts
      <4>4. pairs'[s] \in Nat /\ Len(list) = 2 * pairs'[s]
        BY <4>1, <4>2, <4>3
      <4>5. tree'[s][1].returning = list /\ tree'[s][1].kind = kind
        BY <3>1 DEF Node
      <4>6. tree'[s] = <<Node(tree'[s][1].kind, None, tree'[s][1].returning)>>
        BY <3>1, <4>5
      <4>7. HasReceivers(list, pairs'[s])
        <5>1. \A i \in 1..Len(columns) : columns[i] \in STRING
          BY <4>1
        <5>2. QED
          BY <4>2, <4>3, <5>1 DEF HasReceivers
      <4>8. HasReceivers(tree'[s][1].returning, pairs'[s])
        BY <4>5, <4>7
      <4>9. QED
        BY <2>1, <4>3, <4>4, <4>5, <4>6, <4>8 DEF PairedStatement, HasReceivers
    <3>4. QED
      BY <3>2, <3>3
  <2>4. QED
    BY <2>1, <2>2, <2>3 DEF PairsInvariant
<1>5. QED
  BY <1>1, <1>2, <1>3, <1>4

\* What a selector finds in a statement with pairs: the one node, and one
\* channel made up of all of them.
LEMMA PairedSelector ==
    ASSUME PairsInvariant, NEW s, NEW d, NEW c, HasChannel(s, d, c), pairs[s] > 0
    PROVE  /\ NodeOf(s, d) = 1 /\ ListOf(s, d) = tree[s][1].returning
           /\ ChannelsOf(s, d)[c].offset = 0 /\ ChannelsOf(s, d)[c].count = pairs[s]
<1>1. /\ s \in DOMAIN tree /\ PairedStatement(s) /\ d \in 1..DmlCount(s)
      /\ c \in DOMAIN ChannelsOf(s, d)
  BY DEF HasChannel, PairsInvariant
<1>2. DmlCount(s) = 1 /\ d = 1
  BY <1>1 DEF DmlCount, PairedStatement
<1>3. NodeOf(s, d) = 1
  BY <1>1, <1>2 DEF NodeOf, PairedStatement
<1>4. ListOf(s, d) = tree[s][1].returning
  BY <1>3 DEF ListOf
<1>5. ChannelsOf(s, d) = <<Unnamed(Into, Second(tree[s][1].returning, pairs[s]), pairs[s])>>
  BY <1>1 DEF ChannelsOf, PairedStatement
<1>6. c = 1
  BY <1>1, <1>5
<1>7. QED
  BY <1>3, <1>4, <1>5, <1>6 DEF Unnamed

\* An edit of a list that has no pairs says nothing about the others.
LEMMA UnpairedEdit ==
    ASSUME PairsInvariant, NEW s \in DOMAIN tree, pairs[s] = 0, NEW d, NEW list,
           SetList(s, d, list), UNCHANGED <<dialect, pairs>>
    PROVE  PairsInvariant'
<1>1. DOMAIN tree' = DOMAIN tree /\ \A r \in DOMAIN tree : r # s => tree'[r] = tree[r]
  BY DEF SetList
<1>2. QED
  BY <1>1 DEF PairsInvariant, PairedStatement

\* An edit of a list with pairs has to leave a list of n pairs.
LEMMA PairedEdit ==
    ASSUME PairsInvariant, NEW s \in DOMAIN tree, pairs[s] > 0, NEW d, NodeOf(s, d) = 1,
           NEW list \in Seq(Target), NEW n \in Nat, Len(list) = 2 * n, HasReceivers(list, n),
           SetList(s, d, list), dialect' = dialect, DOMAIN pairs' = DOMAIN pairs, pairs'[s] = n,
           \A r \in DOMAIN tree : r # s => pairs'[r] = pairs[r]
    PROVE  PairsInvariant'
<1>1. PairedStatement(s) /\ DOMAIN pairs = DOMAIN tree
  BY DEF PairsInvariant
<1>2. tree' = [tree EXCEPT ![s][1].returning = list]
  BY DEF SetList
<1>3. DOMAIN tree' = DOMAIN tree /\ \A r \in DOMAIN tree : r # s => tree'[r] = tree[r]
  BY <1>2
<1>4. tree'[s] = [tree[s] EXCEPT ![1].returning = list]
  BY <1>2
<1>5. tree'[s] = <<Node(tree[s][1].kind, None, list)>>
  <2> DEFINE kind == tree[s][1].kind
             old == tree[s][1].returning
  <2>1. tree[s] = <<Node(kind, None, old)>>
    BY <1>1 DEF PairedStatement
  <2> HIDE DEF kind, old
  <2>2. [<<Node(kind, None, old)>> EXCEPT ![1].returning = list] = <<Node(kind, None, list)>>
    BY DEF Node
  <2>3. QED
    BY <1>4, <2>1, <2>2 DEF kind
<1>6. PairedStatement(s)'
  <2>1. tree'[s][1].kind = tree[s][1].kind /\ tree'[s][1].returning = list
    BY <1>5 DEF Node
  <2>2. HasReceivers(tree'[s][1].returning, pairs'[s])
    BY <2>1
  <2>3. QED
    BY <1>1, <1>5, <2>1, <2>2 DEF PairedStatement, HasReceivers
<1>7. DOMAIN pairs' = DOMAIN tree'
  BY <1>1, <1>3
<1>8. ASSUME NEW r \in DOMAIN tree, r # s
      PROVE  pairs'[r] \in Nat /\ (pairs'[r] > 0 => PairedStatement(r)')
  BY <1>3, <1>8 DEF PairsInvariant, PairedStatement, HasReceivers
<1>9. QED
  BY <1>3, <1>6, <1>7, <1>8 DEF PairsInvariant

\* What is written in another dialect than SQL Server's is the fragment itself.
LEMMA ParsedFragment ==
    ASSUME NEW s, NEW d, NEW t \in Fragments, FragmentOk(s, d, t), dialect # "sqlserver"
    PROVE  Parsed(t) = t /\ t \in Target
<1>1. t \in Target
  BY TextAssumption DEF Target
<1>2. \A w \in DOMAIN t : t[w] # Action
  BY DEF FragmentOk, ToSet
<1>3. Parsed(t) = Swap(t, Action, MarkerFor(<<t>>))
  BY DEF Parsed, ParserTargets
<1>4. Parsed(t) = [w \in DOMAIN t |-> t[w]]
  BY <1>2, <1>3 DEF Swap
<1>5. QED
  BY <1>1, <1>4 DEF Target

\* An element of a sequence replaced by another.
LEMMA ReplacedFacts ==
    ASSUME NEW T, NEW s \in Seq(T), NEW k, NEW e \in T
    PROVE  [s EXCEPT ![k] = e] \in Seq(T) /\ Len([s EXCEPT ![k] = e]) = Len(s)
<1> DEFINE new == [s EXCEPT ![k] = e]
<1>1. DOMAIN s = 1..Len(s) /\ Len(s) \in Nat /\ \A j \in 1..Len(s) : s[j] \in T
  OBVIOUS
<1>2. new = [j \in 1..Len(s) |-> IF j = k THEN e ELSE s[j]]
  BY <1>1
<1> HIDE DEF new
<1>3. \A j \in 1..Len(s) : (IF j = k THEN e ELSE s[j]) \in T
  BY <1>1
<1>4. new \in Seq(T) /\ Len(new) = Len(s)
  BY <1>1, <1>2, <1>3
<1>5. QED
  BY <1>4 DEF new

\* Replacing a target touches no pair.
LEMMA ReplacePairs ==
    ASSUME PairsInvariant, NEW s, NEW d, NEW c, NEW i \in Indices, NEW t \in Fragments,
           ReplaceTarget(s, d, c, i, t)
    PROVE  PairsInvariant'
<1>1. s \in DOMAIN tree /\ HasChannel(s, d, c) /\ FragmentOk(s, d, t) /\ UNCHANGED <<dialect, pairs>>
  BY DEF ReplaceTarget, HasChannel
<1>2. pairs[s] \in Nat /\ DOMAIN pairs = DOMAIN tree
  BY <1>1 DEF PairsInvariant
<1>3. CASE pairs[s] = 0
  BY <1>1, <1>3, UnpairedEdit DEF ReplaceTarget
<1>4. CASE pairs[s] > 0
  <2> DEFINE place == ChannelsOf(s, d)[c].offset + i
             list == [ListOf(s, d) EXCEPT ![place] = Parsed(t)]
  <2>1. NodeOf(s, d) = 1 /\ ListOf(s, d) = tree[s][1].returning
    BY <1>1, <1>4, PairedSelector
  <2>2. PairedStatement(s)
    BY <1>1, <1>4 DEF PairsInvariant
  <2>3. ListOf(s, d) \in Seq(Target) /\ Len(ListOf(s, d)) = 2 * pairs[s]
    BY <2>1, <2>2 DEF PairedStatement
  <2>4. Parsed(t) \in Target
    BY <1>1, <2>2, ParsedFragment DEF PairedStatement
  <2>5. list \in Seq(Target) /\ Len(list) = 2 * pairs[s]
    <3> DEFINE old == ListOf(s, d)
               e == Parsed(t)
    <3> HIDE DEF old, e, place
    <3>1. old \in Seq(Target) /\ e \in Target /\ Len(old) = 2 * pairs[s]
      BY <2>3, <2>4 DEF old, e
    <3>2. [old EXCEPT ![place] = e] \in Seq(Target) /\ Len([old EXCEPT ![place] = e]) = Len(old)
      BY <3>1, ReplacedFacts
    <3>3. QED
      BY <3>1, <3>2 DEF old, e
  <2>8. HasReceivers(list, pairs[s])
    <3> DEFINE old == ListOf(s, d)
               n == pairs[s]
    <3>1. HasReceivers(old, n) /\ ChannelsOf(s, d)[c].offset = 0 /\ ChannelsOf(s, d)[c].count = n
      BY <1>1, <1>4, <2>1, <2>2, PairedSelector DEF PairedStatement
    <3>2. place = i /\ i \in Nat /\ i <= n
      BY <3>1, BoundAssumption DEF ReplaceTarget, Indices
    <3>3. DOMAIN old = 1..2 * n /\ n \in Nat
      BY <1>2, <2>3
    <3>4. ASSUME NEW k \in 1..n PROVE list[n + k] = old[n + k]
      <4>1. n + k # place /\ n + k \in DOMAIN old
        BY <3>2, <3>3
      <4>2. QED
        BY <4>1
    <3> HIDE DEF list, old, n
    <3>5. QED
      BY <3>1, <3>4 DEF HasReceivers, n
  <2>6. SetList(s, d, list)
    BY DEF ReplaceTarget
  <2>7. pairs' = pairs /\ dialect' = dialect
    BY <1>1
  <2> HIDE DEF list
  <2>9. QED
    BY <1>1, <1>2, <1>4, <2>1, <2>5, <2>6, <2>7, <2>8, PairedEdit
<1>5. QED
  BY <1>2, <1>3, <1>4

\* The receiver goes where the longer list has the second half's i-th element.
LEMMA InsertPairs ==
    ASSUME PairsInvariant, NEW s, NEW d, NEW c, NEW i \in Indices, NEW t \in Fragments, NEW bind,
           InsertPair(s, d, c, i, t, bind)
    PROVE  PairsInvariant'
<1> DEFINE old == ListOf(s, d)
           half == InsertAt(old, i, t)
           list == InsertAt(half, pairs[s] + i + 1, Receiver(bind))
<1>1. /\ s \in DOMAIN tree /\ HasChannel(s, d, c) /\ FragmentOk(s, d, t) /\ pairs[s] > 0
      /\ bind \in Binds /\ i <= ChannelsOf(s, d)[c].count + 1
      /\ SetList(s, d, list)
      /\ pairs' = [pairs EXCEPT ![s] = pairs[s] + 1] /\ dialect' = dialect
  BY DEF InsertPair, HasChannel
<1>2. pairs[s] \in Nat /\ PairedStatement(s)
  BY <1>1 DEF PairsInvariant
<1>3. NodeOf(s, d) = 1 /\ old = tree[s][1].returning /\ ChannelsOf(s, d)[c].count = pairs[s]
  BY <1>1, PairedSelector
<1>4. old \in Seq(Target) /\ Len(old) = 2 * pairs[s]
  BY <1>2, <1>3 DEF PairedStatement
<1>5. t \in Target /\ Receiver(bind) \in Target
  BY <1>1, TextAssumption DEF Target, Word, Receiver
<1>6. i \in Int /\ i >= 1 /\ i <= pairs[s] + 1
  BY <1>1, <1>3, BoundAssumption DEF Indices
<1> HIDE DEF old
<1> DEFINE m == pairs[s]
<1>7. m \in Nat /\ Len(old) = 2 * m /\ old \in Seq(Target) /\ i \in 1..(Len(old) + 1)
      /\ i \in Int /\ i >= 1 /\ i <= m + 1
  BY <1>2, <1>4, <1>6
<1> HIDE DEF half, m
<1>8. /\ half \in Seq(Target) /\ Len(half) = Len(old) + 1
      /\ \A j \in 1..(Len(old) + 1) :
             half[j] = IF j < i THEN old[j] ELSE IF j = i THEN t ELSE old[j - 1]
  <2>1. /\ InsertAt(old, i, t) \in Seq(Target) /\ Len(InsertAt(old, i, t)) = Len(old) + 1
        /\ \A j \in 1..(Len(old) + 1) :
               InsertAt(old, i, t)[j] = IF j < i THEN old[j] ELSE IF j = i THEN t ELSE old[j - 1]
    <3>1. old \in Seq(Target) /\ i \in 1..(Len(old) + 1) /\ t \in Target
      BY <1>5, <1>7
    <3>2. /\ InsertAt(old, i, t) \in Seq(Target)
          /\ Len(InsertAt(old, i, t)) = Len(old) + 1
          /\ DOMAIN InsertAt(old, i, t) = 1..(Len(old) + 1)
          /\ \A j \in 1..(Len(old) + 1) :
                 InsertAt(old, i, t)[j] =
                     IF j < i THEN old[j] ELSE IF j = i THEN t ELSE old[j - 1]
      BY <3>1, InsertAtFacts
    <3>3. QED
      BY <3>2
  <2>2. QED
    BY <2>1 DEF half
<1>9. Len(half) = 2 * m + 1
  BY <1>7, <1>8
<1> DEFINE place == m + i + 1
           r == Receiver(bind)
<1>10. /\ list \in Seq(Target) /\ Len(list) = 2 * m + 2
       /\ \A j \in 1..(2 * m + 2) :
              list[j] = IF j < place THEN half[j] ELSE IF j = place THEN r ELSE half[j - 1]
  <2>1. place \in 1..(Len(half) + 1) /\ r \in Target
    BY <1>5, <1>7, <1>9
  <2>2. list = InsertAt(half, place, r)
    BY DEF m
  <2> HIDE DEF place, r, list
  <2>3. /\ InsertAt(half, place, r) \in Seq(Target)
        /\ Len(InsertAt(half, place, r)) = Len(half) + 1
        /\ \A j \in 1..(Len(half) + 1) :
               InsertAt(half, place, r)[j] =
                   IF j < place THEN half[j] ELSE IF j = place THEN r ELSE half[j - 1]
    <3>1. half \in Seq(Target) /\ place \in 1..(Len(half) + 1) /\ r \in Target
      BY <1>8, <2>1
    <3>2. /\ InsertAt(half, place, r) \in Seq(Target)
          /\ Len(InsertAt(half, place, r)) = Len(half) + 1
          /\ DOMAIN InsertAt(half, place, r) = 1..(Len(half) + 1)
          /\ \A j \in 1..(Len(half) + 1) :
                 InsertAt(half, place, r)[j] =
                     IF j < place THEN half[j] ELSE IF j = place THEN r ELSE half[j - 1]
      BY <3>1, InsertAtFacts
    <3>3. QED
      BY <3>2
  <2>4. Len(half) + 1 = 2 * m + 2
    BY <1>7, <1>9
  <2>5. QED
    BY <2>2, <2>3, <2>4
<1> DEFINE n == m + 1
<1> HIDE DEF list, place, r
<1>11. n \in Nat /\ Len(list) = 2 * n /\ pairs' = [pairs EXCEPT ![s] = n]
  <2>1. Len(list) = 2 * m + 2
    BY <1>10
  <2>2. m \in Nat
    BY <1>7
  <2>3. n \in Nat /\ Len(list) = 2 * n
    BY <2>1, <2>2
  <2>4. pairs' = [pairs EXCEPT ![s] = n]
    BY <1>1 DEF m
  <2>5. QED
    BY <2>3, <2>4
<1> HIDE DEF n
<1>12. HasReceivers(list, n)
  <2>1. r[1] \in STRING
    BY <1>1, TextAssumption DEF Receiver, r
  <2>2. \A k \in 1..m : old[m + k][1] \in STRING
    BY <1>2, <1>3 DEF PairedStatement, HasReceivers, m
  <2>3. ASSUME NEW k \in 1..n PROVE list[n + k][1] \in STRING
    <3> DEFINE j == n + k
    <3>1. /\ j \in 1..(2 * m + 2) /\ j = m + 1 + k /\ k \in Nat /\ k >= 1 /\ k <= m + 1
          /\ place = m + i + 1
      BY <1>7 DEF n, place
    <3> HIDE DEF j
    <3>2. CASE k < i
      <4>1. j < place /\ k \in 1..m /\ j \in 1..(Len(old) + 1) /\ ~(j < i) /\ j # i
            /\ j - 1 = m + k
        BY <1>7, <3>1, <3>2
      <4>2. list[j] = half[j]
        BY <1>10, <3>1, <4>1
      <4>3. half[j] = old[m + k]
        BY <1>8, <4>1
      <4>4. QED
        BY <2>2, <4>1, <4>2, <4>3 DEF j
    <3>3. CASE k = i
      <4>1. ~(j < place) /\ j = place
        BY <1>7, <3>1, <3>3
      <4>2. list[j] = r
        BY <1>10, <3>1, <4>1
      <4>3. QED
        BY <2>1, <4>2 DEF j
    <3>4. CASE k > i
      <4> DEFINE l == k - 1
                 h == j - 1
      <4>1. /\ ~(j < place) /\ j # place /\ l \in 1..m
            /\ h \in 1..(Len(old) + 1) /\ ~(h < i) /\ h # i /\ h - 1 = m + l
        BY <1>7, <3>1, <3>4
      <4>2. list[j] = half[h]
        BY <1>10, <3>1, <4>1
      <4> HIDE DEF l, h
      <4>3. half[h] = old[m + l]
        BY <1>8, <4>1
      <4>4. QED
        BY <2>2, <4>1, <4>2, <4>3 DEF j
    <3>5. QED
      BY <1>7, <3>1, <3>2, <3>3, <3>4
  <2>4. QED
    BY <2>3 DEF HasReceivers
<1>13. /\ DOMAIN pairs' = DOMAIN pairs /\ pairs'[s] = n
       /\ \A q \in DOMAIN tree : q # s => pairs'[q] = pairs[q]
  BY <1>1, <1>11 DEF PairsInvariant
<1>14. list \in Seq(Target)
  BY <1>10
<1>15. QED
  BY <1>1, <1>3, <1>11, <1>12, <1>13, <1>14, PairedEdit

-----------------------------------------------------------------------------
(* The theorem.                                                            *)

\* Everything else edits a list without pairs, or no list at all.
LEMMA StepPairs ==
    ASSUME PairsInvariant, [Next]_vars
    PROVE  PairsInvariant'
<1>1. CASE UNCHANGED <<dialect, tree, pairs>>
  BY <1>1 DEF PairsInvariant, PairedStatement
<1>2. CASE Parse
  BY <1>2, ParsePairs
<1>3. CASE Destroy
  BY <1>3 DEF Destroy, PairsInvariant
<1>4. CASE Patch
  <2>1. PICK p \in Selectors, i \in Indices :
          \/ DeleteTarget(p[1], p[2], p[3], i)
          \/ DeleteSinkColumn(p[1], p[2], p[3], i)
          \/ \E t \in Fragments :
                 \/ ReplaceTarget(p[1], p[2], p[3], i, t)
                 \/ InsertTarget(p[1], p[2], p[3], i, t)
                 \/ \E r \in Receivers : \/ InsertPair(p[1], p[2], p[3], i, t, r)
                                         \/ InsertTargetSinkColumn(p[1], p[2], p[3], i, t, r)
          \/ \E r \in Receivers : \/ SetSinkColumn(p[1], p[2], p[3], i, r)
                                  \/ InsertSinkColumn(p[1], p[2], p[3], i, r)
          \/ i = 1 /\ \E sink \in Sinks : SetSink(p[1], p[2], p[3], sink)
    BY <1>4 DEF Patch
  <2> DEFINE s == p[1]
             d == p[2]
             c == p[3]
  <2>2. CASE DeleteTarget(s, d, c, i)
    <3>1. s \in DOMAIN tree /\ pairs[s] = 0 /\ UNCHANGED <<dialect, pairs>>
          /\ \E list : SetList(s, d, list)
      BY <2>2 DEF DeleteTarget, HasChannel
    <3>2. QED
      BY <3>1, UnpairedEdit
  <2>3. ASSUME NEW t \in Fragments, InsertTarget(s, d, c, i, t)
        PROVE  PairsInvariant'
    <3>1. s \in DOMAIN tree /\ pairs[s] = 0 /\ UNCHANGED <<dialect, pairs>>
          /\ \E list : SetList(s, d, list)
      BY <2>3 DEF InsertTarget, HasChannel
    <3>2. QED
      BY <3>1, UnpairedEdit
  <2>4. ASSUME NEW t \in Fragments, NEW r \in Receivers,
               InsertTargetSinkColumn(s, d, c, i, t, r)
        PROVE  PairsInvariant'
    <3>1. s \in DOMAIN tree /\ dialect = "sqlserver" /\ UNCHANGED <<dialect, pairs>>
          /\ \E list : SetList(s, d, list)
      BY <2>4 DEF InsertTargetSinkColumn, HasChannel
    <3>2. pairs[s] = 0
      BY <3>1 DEF PairsInvariant, PairedStatement
    <3>3. QED
      BY <3>1, <3>2, UnpairedEdit
  <2>5. ASSUME NEW t \in Fragments, ReplaceTarget(s, d, c, i, t)
        PROVE  PairsInvariant'
    BY <2>5, ReplacePairs
  <2>6. ASSUME NEW t \in Fragments, NEW r \in Receivers, InsertPair(s, d, c, i, t, r)
        PROVE  PairsInvariant'
    BY <2>6, InsertPairs
  <2>7. CASE DeleteSinkColumn(s, d, c, i)
    BY <1>1, <2>7 DEF DeleteSinkColumn, ChangeSink
  <2>8. ASSUME NEW r \in Receivers, SetSinkColumn(s, d, c, i, r) \/ InsertSinkColumn(s, d, c, i, r)
        PROVE  PairsInvariant'
    BY <1>1, <2>8 DEF SetSinkColumn, InsertSinkColumn, ChangeSink
  <2>9. ASSUME NEW sink \in Sinks, SetSink(s, d, c, sink)
        PROVE  PairsInvariant'
    BY <1>1, <2>9 DEF SetSink, ChangeSink
  <2>10. QED
    BY <2>1, <2>2, <2>3, <2>4, <2>5, <2>6, <2>7, <2>8, <2>9
<1>5. QED
  BY <1>1, <1>2, <1>3, <1>4 DEF Next, Clone, vars

\* sqlparser_dialect_returning_into_adjust_paired_count: as long as a handle
\* lives, and whatever is patched, RETURNING ... INTO has a receiver for each
\* of its targets, at the same place of the second half of the list.
THEOREM PairsStayWhole == Spec => []PairsAreWhole
<1>1. Init => PairsInvariant
  BY InitPairs
<1>2. PairsInvariant /\ [Next]_vars => PairsInvariant'
  BY StepPairs
<1>3. PairsInvariant => PairsAreWhole
  BY DEF PairsInvariant, PairedStatement, PairsAreWhole
<1>4. QED
  BY <1>1, <1>2, <1>3, PTL DEF Spec

\* What InsertAt gives, as one formula.
IsInsertion(new, s, i, e) ==
    /\ Len(new) = Len(s) + 1 /\ DOMAIN new = 1..(Len(s) + 1)
    /\ \A j \in 1..(Len(s) + 1) :
           new[j] = IF j < i THEN s[j] ELSE IF j = i THEN e ELSE s[j - 1]

LEMMA InsertionIs ==
    ASSUME NEW T, NEW s \in Seq(T), NEW i \in 1..(Len(s) + 1), NEW e \in T
    PROVE  InsertAt(s, i, e) \in Seq(T) /\ IsInsertion(InsertAt(s, i, e), s, i, e)
<1> DEFINE new == InsertAt(s, i, e)
<1>1. /\ new \in Seq(T) /\ Len(new) = Len(s) + 1 /\ DOMAIN new = 1..(Len(s) + 1)
      /\ \A j \in 1..(Len(s) + 1) :
             new[j] = IF j < i THEN s[j] ELSE IF j = i THEN e ELSE s[j - 1]
  BY InsertAtFacts
<1> HIDE DEF new
<1>2. QED
  BY <1>1 DEF IsInsertion, new
-----------------------------------------------------------------------------
(* Counting to the k-th of a set of numbers.                               *)

\* The members up to one of them.
UpTo(S, n) == {m \in S : m <= n}

LEMMA UpToFacts ==
    ASSUME NEW S \in SUBSET Nat, IsFiniteSet(S), NEW n
    PROVE  /\ IsFiniteSet(UpTo(S, n)) /\ Cardinality(UpTo(S, n)) \in Nat
           /\ Cardinality(UpTo(S, n)) <= Cardinality(S) /\ Cardinality(S) \in Nat
<1>1. UpTo(S, n) \in SUBSET S
  BY DEF UpTo
<1>2. IsFiniteSet(UpTo(S, n)) /\ Cardinality(UpTo(S, n)) <= Cardinality(S)
  BY <1>1, FS_Subset
<1>3. QED
  BY <1>2, FS_CardinalityType

\* A later member has more members up to it.
LEMMA UpToGrows ==
    ASSUME NEW S \in SUBSET Nat, IsFiniteSet(S), NEW n \in S, NEW p \in S, n < p
    PROVE  Cardinality(UpTo(S, n)) < Cardinality(UpTo(S, p))
<1>1. n \in Nat /\ p \in Nat
  OBVIOUS
<1>2. UpTo(S, n) \in SUBSET UpTo(S, p) /\ p \in UpTo(S, p) /\ p \notin UpTo(S, n)
  <2>1. ASSUME NEW m \in UpTo(S, n) PROVE m \in UpTo(S, p)
    <3>1. m \in S /\ m \in Nat /\ m <= n
      BY DEF UpTo
    <3>2. m <= p
      BY <1>1, <3>1
    <3>3. QED
      BY <3>1, <3>2 DEF UpTo
  <2>2. p <= p /\ ~(p <= n)
    BY <1>1
  <2>3. QED
    BY <2>1, <2>2 DEF UpTo
<1>3. IsFiniteSet(UpTo(S, p)) /\ UpTo(S, p) # UpTo(S, n)
  BY <1>2, UpToFacts
<1>4. Cardinality(UpTo(S, n)) <= Cardinality(UpTo(S, p))
      /\ Cardinality(UpTo(S, p)) # Cardinality(UpTo(S, n))
  BY <1>2, <1>3, FS_Subset
<1>5. Cardinality(UpTo(S, n)) \in Nat /\ Cardinality(UpTo(S, p)) \in Nat
  BY UpToFacts
<1>6. QED
  BY <1>4, <1>5

LEMMA UpToInjective ==
    ASSUME NEW S \in SUBSET Nat, IsFiniteSet(S), NEW n \in S, NEW p \in S,
           Cardinality(UpTo(S, n)) = Cardinality(UpTo(S, p))
    PROVE  n = p
<1>1. n \in Nat /\ p \in Nat
  OBVIOUS
<1>2. n < p => Cardinality(UpTo(S, n)) < Cardinality(UpTo(S, p))
  BY UpToGrows
<1>3. p < n => Cardinality(UpTo(S, p)) < Cardinality(UpTo(S, n))
  BY UpToGrows
<1>4. Cardinality(UpTo(S, n)) \in Nat
  BY UpToFacts
<1>5. n < p \/ n = p \/ p < n
  BY <1>1
<1>6. QED
  BY <1>2, <1>3, <1>4, <1>5

\* Counting reaches every number up to the size of the set.
LEMMA UpToReaches ==
    ASSUME NEW S \in SUBSET Nat, IsFiniteSet(S), NEW k \in 1..Cardinality(S)
    PROVE  \E n \in S : Cardinality(UpTo(S, n)) = k
<1> DEFINE K == {i \in Nat : \E n \in S : Cardinality(UpTo(S, n)) = i}
           size == Cardinality(S)
<1>1. size \in Nat /\ size >= 1 /\ S # {}
  BY FS_CardinalityType, FS_EmptySet
<1>2. 1 \in K
  <2>1. PICK n \in S : \A m \in S : n <= m
    BY <1>1, LeastNatural
  <2>2. UpTo(S, n) = {n}
    <3>1. ASSUME NEW m \in S PROVE m <= n <=> m = n
      <4>1. m \in Nat /\ n \in Nat /\ n <= m
        BY <2>1
      <4>2. QED
        BY <4>1
    <3>2. QED
      BY <3>1 DEF UpTo
  <2>3. Cardinality(UpTo(S, n)) = 1
    BY <2>2, FS_Singleton
  <2>4. QED
    BY <2>3
<1>3. ASSUME NEW i \in 1..(size - 1), i \in K PROVE i + 1 \in K
  <2>1. PICK n \in S : Cardinality(UpTo(S, n)) = i
    BY <1>3
  <2> DEFINE later == {m \in S : m > n}
  <2>2. later # {}
    <3>1. SUFFICES ASSUME later = {} PROVE FALSE
      OBVIOUS
    <3>2. n \in Nat /\ S \subseteq Nat
      OBVIOUS
    <3>3. ASSUME NEW m \in S PROVE m <= n
      <4>1. m \in Nat /\ ~(m > n)
        BY <3>1
      <4>2. QED
        BY <3>2, <4>1
    <3>4. UpTo(S, n) = S
      BY <3>3 DEF UpTo
    <3>5. QED
      BY <1>1, <2>1, <3>4
  <2>3. later \in SUBSET Nat
    OBVIOUS
  <2>4. PICK p \in later : \A m \in later : p <= m
    BY <2>2, <2>3, LeastNatural
  <2>5. p \in S /\ p \notin UpTo(S, n) /\ UpTo(S, p) = UpTo(S, n) \cup {p}
    <3>1. n \in Nat /\ p \in Nat /\ S \subseteq Nat
      BY <2>3
    <3>2. ASSUME NEW m \in S PROVE m <= p <=> m <= n \/ m = p
      <4>1. m \in Nat /\ p > n
        BY <2>4
      <4>2. CASE m > n
        <5>1. p <= m
          BY <2>4, <4>2
        <5>2. QED
          BY <3>1, <4>1, <4>2, <5>1
      <4>3. CASE m <= n
        BY <3>1, <4>1, <4>3
      <4>4. QED
        BY <3>1, <4>1, <4>2, <4>3
    <3>3. p \in S /\ ~(p <= n) /\ p <= p
      BY <2>4, <3>1
    <3>4. UpTo(S, p) = UpTo(S, n) \cup {p}
      BY <3>2, <3>3 DEF UpTo
    <3>5. QED
      BY <3>3, <3>4 DEF UpTo
  <2>6. IsFiniteSet(UpTo(S, n))
    BY UpToFacts
  <2>7. Cardinality(UpTo(S, p)) = i + 1
    BY <2>1, <2>5, <2>6, FS_AddElement
  <2>8. QED
    BY <2>5, <2>7
<1>4. 1 \in Int /\ size \in Int /\ 1 <= size
  BY <1>1
<1> HIDE DEF K
<1>5. 1..size \subseteq K
  BY <1>2, <1>3, <1>4, IntervalInduction
<1>6. k \in K
  BY <1>5
<1>7. QED
  BY <1>6 DEF K

\* The k-th is a member, and k members come up to it.
LEMMA NthFacts ==
    ASSUME NEW S \in SUBSET Nat, IsFiniteSet(S), NEW k \in 1..Cardinality(S)
    PROVE  Nth(S, k) \in S /\ Cardinality(UpTo(S, Nth(S, k))) = k
BY UpToReaches DEF Nth, UpTo

\* The member that is counted to is found again.
LEMMA NthOf ==
    ASSUME NEW S \in SUBSET Nat, IsFiniteSet(S), NEW n \in S,
           NEW k, k = Cardinality(UpTo(S, n))
    PROVE  Nth(S, k) = n /\ k \in 1..Cardinality(S)
<1>1. k \in Nat /\ k <= Cardinality(S) /\ Cardinality(S) \in Nat
  BY UpToFacts
<1>2. k # 0
  <2>1. n \in UpTo(S, n)
    BY DEF UpTo
  <2>2. QED
    BY <2>1, UpToFacts, FS_EmptySet
<1>3. k \in 1..Cardinality(S)
  BY <1>1, <1>2
<1>4. Nth(S, k) \in S /\ Cardinality(UpTo(S, Nth(S, k))) = k
  BY <1>3, NthFacts
<1>5. QED
  BY <1>3, <1>4, UpToInjective

-----------------------------------------------------------------------------
(* The state of the handle.                                                *)

\* Where the $action targets of a channel are, and their markers.
Marks == UNION {[P -> ToSet(Markers)] : P \in SUBSET Nat}
Channel == [sink : Sink, columns : Seq(STRING), offset : Nat, count : Nat,
            actions : Marks]
DmlRecord == [kind : STRING, statement : Nat, name : Nat \cup {None}, channels : Seq(Channel)]
NodeRecord == [kind : STRING, name : Nat \cup {None}, returning : Seq(Target)]

\* The place of a DML among those of its statement.
Siblings(ds, g) == {h \in DOMAIN ds : ds[h].statement = ds[g].statement}
Ordinal(ds, g) == Cardinality(UpTo(Siblings(ds, g), g))

\* A DML of the state and its node: the channels tile the list.
Matches(node, dml) ==
    /\ node.kind = dml.kind /\ node.name = dml.name
    /\ Len(dml.channels) <= 2 /\ Tiles(dml.channels, Len(node.returning))
Placed(t, ds, g) ==
    /\ ds[g].statement \in DOMAIN t /\ Ordinal(ds, g) \in DOMAIN t[ds[g].statement]
    /\ Matches(t[ds[g].statement][Ordinal(ds, g)], ds[g])

\* No two nodes of a statement have one name.
Named(t) == \A s \in DOMAIN t : \A k, l \in DOMAIN t[s] : t[s][k].name = t[s][l].name => k = l

\* What the OUTPUT state and the tree have to do with each other.
Fits(t, ds) ==
    /\ t \in Seq(Seq(NodeRecord)) /\ ds \in Seq(DmlRecord)
    /\ Named(t) /\ \A g \in DOMAIN ds : Placed(t, ds, g)

DmlInvariant ==
    /\ dialect \in Dialects \cup {None}
    /\ tree \in Seq(Seq(NodeRecord))
    /\ dialect = "sqlserver" => Fits(tree, dmls)
    /\ dialect # "sqlserver" => dmls = <<>>
    /\ dialect = None => tree = <<>>
    /\ PairsInvariant

\* The siblings of a DML are the DMLs of its statement.
LEMMA SiblingsFacts ==
    ASSUME NEW T, NEW ds \in Seq(T), NEW g \in DOMAIN ds
    PROVE  /\ Siblings(ds, g) \in SUBSET Nat /\ IsFiniteSet(Siblings(ds, g))
           /\ g \in Siblings(ds, g) /\ Ordinal(ds, g) \in Nat
<1>1. DOMAIN ds = 1..Len(ds) /\ Len(ds) \in Nat
  OBVIOUS
<1>2. IsFiniteSet(1..Len(ds))
  BY <1>1, FS_Interval
<1>3. Siblings(ds, g) \in SUBSET (1..Len(ds))
  BY <1>1 DEF Siblings
<1>4. IsFiniteSet(Siblings(ds, g))
  BY <1>2, <1>3, FS_Subset
<1>5. Siblings(ds, g) \in SUBSET Nat /\ g \in Siblings(ds, g)
  BY <1>1, <1>3 DEF Siblings
<1>6. QED
  BY <1>4, <1>5, UpToFacts DEF Ordinal

\* A statement and an ordinal tell a DML.
LEMMA OneAtEachPlace ==
    ASSUME NEW T, NEW ds \in Seq(T), NEW g \in DOMAIN ds, NEW h \in DOMAIN ds,
           ds[g].statement = ds[h].statement, Ordinal(ds, g) = Ordinal(ds, h)
    PROVE  g = h
<1>1. Siblings(ds, g) = Siblings(ds, h)
  BY DEF Siblings
<1>2. g \in Siblings(ds, g) /\ h \in Siblings(ds, g)
  BY <1>1, SiblingsFacts
<1>3. Cardinality(UpTo(Siblings(ds, g), g)) = Cardinality(UpTo(Siblings(ds, g), h))
  BY <1>1 DEF Ordinal
<1>4. QED
  BY <1>2, <1>3, SiblingsFacts, UpToInjective

\* sqlparser_dialect_dml_global_index: what is found at an ordinal of a
\* statement is the DML with this ordinal.
LEMMA DmlAtFacts ==
    ASSUME NEW T, dmls \in Seq(T), NEW s, NEW d \in 1..Cardinality(DmlsOf(s))
    PROVE  /\ DmlAt(s, d) \in DOMAIN dmls /\ dmls[DmlAt(s, d)].statement = s
           /\ Ordinal(dmls, DmlAt(s, d)) = d
<1>1. DOMAIN dmls = 1..Len(dmls) /\ Len(dmls) \in Nat
  OBVIOUS
<1>2. IsFiniteSet(1..Len(dmls)) /\ DmlsOf(s) \in SUBSET (1..Len(dmls))
  BY <1>1, FS_Interval DEF DmlsOf
<1>3. IsFiniteSet(DmlsOf(s)) /\ DmlsOf(s) \in SUBSET Nat
  BY <1>1, <1>2, FS_Subset
<1>4. DmlAt(s, d) \in DmlsOf(s) /\ Cardinality(UpTo(DmlsOf(s), DmlAt(s, d))) = d
  BY <1>3, NthFacts DEF DmlAt
<1>5. DmlAt(s, d) \in DOMAIN dmls /\ dmls[DmlAt(s, d)].statement = s
  BY <1>4 DEF DmlsOf
<1>6. Siblings(dmls, DmlAt(s, d)) = DmlsOf(s)
  BY <1>5 DEF Siblings, DmlsOf
<1>7. QED
  BY <1>4, <1>5, <1>6 DEF Ordinal

\* sqlparser_get_dml_result_message: counting the nodes of the kind finds the
\* node at the ordinal.
LEMMA NodeIsAtTheOrdinal ==
    ASSUME Fits(tree, dmls), dialect = "sqlserver",
           NEW s, NEW d \in 1..Cardinality(DmlsOf(s))
    PROVE  /\ s \in DOMAIN tree /\ d \in DOMAIN tree[s]
           /\ NodeOf(s, d) = d /\ Matches(tree[s][d], dmls[DmlAt(s, d)])
<1>1. tree \in Seq(Seq(NodeRecord)) /\ dmls \in Seq(DmlRecord)
  BY DEF Fits
<1>2. d \in Nat /\ \A e \in 1..d : e \in 1..Cardinality(DmlsOf(s))
  <2>1. DOMAIN dmls = 1..Len(dmls) /\ Len(dmls) \in Nat
    BY <1>1
  <2>2. IsFiniteSet(1..Len(dmls)) /\ DmlsOf(s) \in SUBSET (1..Len(dmls))
    BY <2>1, FS_Interval DEF DmlsOf
  <2>3. Cardinality(DmlsOf(s)) \in Nat
    BY <2>2, FS_Subset, FS_CardinalityType
  <2>4. QED
    BY <2>3
<1>3. ASSUME NEW e \in 1..Cardinality(DmlsOf(s))
      PROVE  s \in DOMAIN tree /\ e \in DOMAIN tree[s] /\ Matches(tree[s][e], dmls[DmlAt(s, e)])
  <2>1. /\ DmlAt(s, e) \in DOMAIN dmls /\ dmls[DmlAt(s, e)].statement = s
        /\ Ordinal(dmls, DmlAt(s, e)) = e
    BY <1>1, DmlAtFacts
  <2>2. Placed(tree, dmls, DmlAt(s, e))
    BY <2>1 DEF Fits
  <2>3. QED
    BY <2>1, <2>2 DEF Placed
<1>4. s \in DOMAIN tree /\ d \in DOMAIN tree[s] /\ Matches(tree[s][d], dmls[DmlAt(s, d)])
  BY <1>3
<1> DEFINE ofKind == {k \in DOMAIN tree[s] : tree[s][k].kind = dmls[DmlAt(s, d)].kind}
<1>5. tree[s] \in Seq(NodeRecord) /\ DOMAIN tree[s] = 1..Len(tree[s]) /\ Len(tree[s]) \in Nat
  BY <1>1, <1>4
<1>6. IsFiniteSet(ofKind) /\ ofKind \in SUBSET Nat /\ d \in ofKind
  <2>1. IsFiniteSet(1..Len(tree[s])) /\ ofKind \in SUBSET (1..Len(tree[s]))
    BY <1>5, FS_Interval
  <2>2. d \in ofKind
    BY <1>4 DEF Matches
  <2>3. IsFiniteSet(ofKind)
    BY <2>1, FS_Subset
  <2>4. ofKind \in SUBSET Nat
    BY <1>5, <2>1
  <2>5. QED
    BY <2>2, <2>3, <2>4
<1>7. {e \in 1..d : dmls[DmlAt(s, e)].kind = dmls[DmlAt(s, d)].kind} = UpTo(ofKind, d)
  <2>1. ASSUME NEW e \in 1..d
        PROVE  /\ e \in DOMAIN tree[s] /\ e <= d
               /\ tree[s][e].kind = dmls[DmlAt(s, e)].kind
    BY <1>2, <1>3 DEF Matches
  <2>2. ASSUME NEW e \in DOMAIN tree[s], e <= d PROVE e \in 1..d
    BY <1>2, <1>5, <2>2
  <2>3. QED
    BY <2>1, <2>2 DEF UpTo
<1>8. KindOrdinal(s, d) = Cardinality(UpTo(ofKind, d))
  BY <1>7 DEF KindOrdinal
<1> HIDE DEF ofKind
<1>9. Nth(ofKind, KindOrdinal(s, d)) = d
  BY <1>6, <1>8, NthOf
<1>10. NodeOf(s, d) = d
  BY <1>9 DEF NodeOf, ofKind
<1>11. QED
  BY <1>4, <1>10

-----------------------------------------------------------------------------
(* What edits make of channels.                                            *)

LEMMA MarksFacts ==
    ASSUME NEW f \in Marks
    PROVE  /\ f = [i \in DOMAIN f |-> f[i]] /\ DOMAIN f \in SUBSET Nat
           /\ \A i \in DOMAIN f : f[i] \in ToSet(Markers)
<1>1. PICK P \in SUBSET Nat : f \in [P -> ToSet(Markers)]
  BY DEF Marks
<1>2. QED
  BY <1>1

LEMMA MarksIntro ==
    ASSUME NEW P \in SUBSET Nat, NEW f, f = [i \in P |-> f[i]],
           \A i \in P : f[i] \in ToSet(Markers)
    PROVE  f \in Marks
<1>1. f \in [P -> ToSet(Markers)]
  OBVIOUS
<1>2. QED
  BY <1>1 DEF Marks

LEMMA ChannelFacts ==
    ASSUME NEW x \in Channel
    PROVE  /\ IsChannel(x) /\ x.sink \in Sink /\ x.columns \in Seq(STRING)
           /\ x.actions \in Marks
BY DEF Channel, IsChannel

LEMMA ChannelIntro ==
    ASSUME NEW x, IsChannel(x), x.sink \in Sink, x.columns \in Seq(STRING),
           x.actions \in Marks
    PROVE  x \in Channel
BY DEF Channel, IsChannel

\* A sequence of channels, from its channels.
LEMMA ChannelsIntro ==
    ASSUME NEW n \in Nat, NEW after, after = [b \in 1..n |-> after[b]],
           \A b \in 1..n : after[b] \in Channel
    PROVE  after \in Seq(Channel) /\ Len(after) = n
  OBVIOUS

LEMMA SeqChannelFacts ==
    ASSUME NEW channels \in Seq(Channel)
    PROVE  /\ DOMAIN channels = 1..Len(channels) /\ Len(channels) \in Nat
           /\ \A b \in DOMAIN channels : channels[b] \in Channel /\ IsChannel(channels[b])
BY ChannelFacts

\* Marks that move with an insertion or a deletion are marks.
LEMMA ActionsStayMarks ==
    ASSUME NEW actions \in Marks, NEW i \in Nat \ {0}
    PROVE  ActionsAfterInsert(actions, i) \in Marks /\ ActionsAfterDelete(actions, i) \in Marks
<1>1. DOMAIN actions \in SUBSET Nat /\ \A j \in DOMAIN actions : actions[j] \in ToSet(Markers)
  BY MarksFacts
<1> DEFINE P == {j \in DOMAIN actions : j < i} \cup {j + 1 : j \in {m \in DOMAIN actions : m >= i}}
           Q == {j \in DOMAIN actions : j < i} \cup {j - 1 : j \in {m \in DOMAIN actions : m > i}}
           f == ActionsAfterInsert(actions, i)
           g == ActionsAfterDelete(actions, i)
<1>2. P \in SUBSET Nat /\ Q \in SUBSET Nat
  BY <1>1
<1>3. f = [k \in P |-> IF k < i THEN actions[k] ELSE actions[k - 1]]
      /\ g = [k \in Q |-> IF k < i THEN actions[k] ELSE actions[k + 1]]
  BY DEF ActionsAfterInsert, ActionsAfterDelete
<1>4. ASSUME NEW k \in P PROVE f[k] \in ToSet(Markers)
  <2>1. CASE k < i
    <3>1. k \in DOMAIN actions
      BY <1>1, <2>1
    <3>2. QED
      BY <1>1, <1>3, <2>1, <3>1
  <2>2. CASE ~(k < i)
    <3>1. k - 1 \in DOMAIN actions
      BY <1>1, <2>2
    <3>2. QED
      BY <1>1, <1>3, <2>2, <3>1
  <2>3. QED
    BY <2>1, <2>2
<1>5. ASSUME NEW k \in Q PROVE g[k] \in ToSet(Markers)
  <2>1. CASE k < i
    <3>1. k \in DOMAIN actions
      BY <1>1, <2>1
    <3>2. QED
      BY <1>1, <1>3, <2>1, <3>1
  <2>2. CASE ~(k < i)
    <3>1. k + 1 \in DOMAIN actions
      BY <1>1, <2>2
    <3>2. QED
      BY <1>1, <1>3, <2>2, <3>1
  <2>3. QED
    BY <2>1, <2>2
<1> HIDE DEF P, Q, f, g
<1>6. f = [k \in P |-> f[k]] /\ g = [k \in Q |-> g[k]]
  BY <1>3
<1>7. f \in Marks /\ g \in Marks
  BY <1>2, <1>4, <1>5, <1>6, MarksIntro
<1>8. QED
  BY <1>7 DEF f, g

\* sqlparser_sqlserver_output_adjust_target_count leaves channels.
LEMMA AdjustedTyped ==
    ASSUME NEW channels \in Seq(Channel), NEW n \in Nat, Tiles(channels, n),
           NEW c \in DOMAIN channels, NEW actions \in Marks, NEW delta \in {1, -1},
           channels[c].count + delta >= 0
    PROVE  /\ Adjusted(channels, c, actions, delta) \in Seq(Channel)
           /\ Len(Adjusted(channels, c, actions, delta)) = Len(channels)
<1> DEFINE after == Adjusted(channels, c, actions, delta)
<1>1. /\ DOMAIN channels = 1..Len(channels) /\ Len(channels) \in Nat /\ c \in 1..Len(channels)
      /\ \A b \in DOMAIN channels : channels[b] \in Channel /\ IsChannel(channels[b])
  BY SeqChannelFacts
<1>2. /\ DOMAIN after = DOMAIN channels /\ Len(after) = Len(channels)
      /\ \A b \in DOMAIN channels :
             /\ after[b].offset = IF b > c THEN channels[b].offset + delta ELSE channels[b].offset
             /\ after[b].count = IF b = c THEN channels[b].count + delta ELSE channels[b].count
             /\ after[b].actions = IF b = c THEN actions ELSE channels[b].actions
             /\ after[b].sink = channels[b].sink /\ after[b].columns = channels[b].columns
  <2>1. \A b \in DOMAIN channels : IsChannel(channels[b])
    BY <1>1
  <2>2. after = Adjusted(channels, c, actions, delta)
    OBVIOUS
  <2> HIDE DEF after
  <2>3. QED
    BY <2>1, <2>2, AdjustedFacts
<1>3. ASSUME NEW b \in DOMAIN channels PROVE after[b] \in Channel
  <2>1. /\ channels[b] \in Channel /\ IsChannel(channels[b]) /\ b \in Nat /\ c \in Nat
        /\ channels[c] \in Channel /\ IsChannel(channels[c])
    BY <1>1
  <2>2. after[b] = [sink |-> after[b].sink, columns |-> after[b].columns,
                    offset |-> after[b].offset, count |-> after[b].count,
                    actions |-> after[b].actions]
    BY <2>1 DEF Adjusted, Resized, IsChannel
  <2>3. channels[b].offset \in Nat /\ channels[b].count \in Nat /\ channels[c].count \in Nat
    BY <2>1 DEF IsChannel
  <2>4. b > c => channels[b].offset >= 1
    <3>1. SUFFICES ASSUME b > c PROVE channels[b].offset >= 1
      OBVIOUS
    <3>2. b # 1 /\ b - 1 \in DOMAIN channels
      BY <1>1, <2>1, <3>1
    <3>3. /\ channels[b].offset = channels[b - 1].offset + channels[b - 1].count
          /\ channels[b - 1].count > 0
      BY <3>2 DEF Tiles
    <3>4. channels[b - 1].offset \in Nat /\ channels[b - 1].count \in Nat
      BY <1>1, <3>2 DEF IsChannel
    <3>5. QED
      BY <3>3, <3>4
  <2>5. after[b].offset \in Nat
    BY <1>2, <2>3, <2>4
  <2>6. after[b].count \in Nat
    BY <1>2, <2>3
  <2>7. after[b].sink \in Sink /\ after[b].columns \in Seq(STRING)
        /\ after[b].actions \in Marks
    BY <1>2, <2>1, ChannelFacts
  <2> HIDE DEF after
  <2>8. IsChannel(after[b])
    BY <2>2, <2>5, <2>6 DEF IsChannel
  <2>9. QED
    BY <2>7, <2>8, ChannelIntro
<1>4. after = [b \in 1..Len(channels) |-> after[b]]
  BY <1>1 DEF Adjusted
<1> HIDE DEF after
<1>5. after \in Seq(Channel) /\ Len(after) = Len(channels)
  BY <1>1, <1>3, <1>4, ChannelsIntro
<1>6. QED
  BY <1>5 DEF after

\* sqlparser_sqlserver_output_channel_set_action leaves channels.
LEMMA MarkedTyped ==
    ASSUME NEW channels \in Seq(Channel), NEW c \in DOMAIN channels, NEW i \in Nat,
           NEW marker \in ToSet(Markers) \cup {None}
    PROVE  /\ Marked(channels, c, i, marker) \in Seq(Channel)
           /\ Len(Marked(channels, c, i, marker)) = Len(channels)
<1> DEFINE old == channels[c].actions
           new == IF marker = None THEN [j \in DOMAIN old \ {i} |-> old[j]]
                  ELSE [j \in DOMAIN old \cup {i} |-> IF j = i THEN marker ELSE old[j]]
           after == Marked(channels, c, i, marker)
<1>1. /\ DOMAIN channels = 1..Len(channels) /\ Len(channels) \in Nat
      /\ \A b \in DOMAIN channels : channels[b] \in Channel
  BY SeqChannelFacts
<1>2. old \in Marks
  BY <1>1, ChannelFacts
<1>3. DOMAIN old \in SUBSET Nat /\ \A j \in DOMAIN old : old[j] \in ToSet(Markers)
  BY <1>2, MarksFacts
<1> HIDE DEF old
<1>4. new \in Marks
  <2>1. CASE marker = None
    <3> DEFINE P == DOMAIN old \ {i}
               f == [j \in P |-> old[j]]
    <3>1. P \in SUBSET Nat /\ f = [j \in P |-> f[j]] /\ \A j \in P : f[j] \in ToSet(Markers)
      BY <1>3
    <3>2. f = new
      BY <2>1
    <3> HIDE DEF P, f
    <3>3. f \in Marks
      BY <3>1, MarksIntro
    <3>4. QED
      BY <3>2, <3>3
  <2>2. CASE marker # None
    <3> DEFINE P == DOMAIN old \cup {i}
               f == [j \in P |-> IF j = i THEN marker ELSE old[j]]
    <3>1. P \in SUBSET Nat /\ f = [j \in P |-> f[j]] /\ \A j \in P : f[j] \in ToSet(Markers)
      BY <1>3, <2>2
    <3>2. f = new
      BY <2>2
    <3> HIDE DEF P, f
    <3>3. f \in Marks
      BY <3>1, MarksIntro
    <3>4. QED
      BY <3>2, <3>3
  <2>3. QED
    BY <2>1, <2>2
<1>5. after = [channels EXCEPT ![c] = [channels[c] EXCEPT !.actions = new]]
  BY DEF Marked, old
<1> HIDE DEF new, after
<1>6. [channels[c] EXCEPT !.actions = new] \in Channel
  BY <1>1, <1>4 DEF Channel
<1>7. after \in Seq(Channel) /\ Len(after) = Len(channels)
  BY <1>5, <1>6, ReplacedFacts
<1>8. QED
  BY <1>7 DEF after

\* sqlparser_sqlserver_output_clone copies offsets as it adds the channels:
\* those of a list that is tiled are the ones that were there.
LEMMA ClonedIsTheSame ==
    ASSUME NEW channels \in Seq(Channel), Len(channels) <= 2, NEW n \in Nat, Tiles(channels, n)
    PROVE  ClonedChannels(channels) = channels
<1>1. /\ DOMAIN channels = 1..Len(channels) /\ Len(channels) \in Nat
      /\ \A b \in DOMAIN channels : channels[b] \in Channel /\ IsChannel(channels[b])
  BY SeqChannelFacts
<1>2. ASSUME NEW b \in DOMAIN channels
      PROVE  channels[b].offset = IF b = 1 THEN 0 ELSE channels[1].count
  <2>1. CASE b = 1
    BY <2>1 DEF Tiles
  <2>2. CASE b # 1
    <3>1. b = 2 /\ 1 \in DOMAIN channels /\ b - 1 = 1
      BY <1>1, <2>2
    <3>2. /\ channels[b].offset = channels[1].offset + channels[1].count
          /\ channels[1].offset = 0
      BY <2>2, <3>1 DEF Tiles
    <3>3. channels[1].count \in Nat
      BY <1>1, <3>1 DEF IsChannel
    <3>4. QED
      BY <2>2, <3>2, <3>3
  <2>3. QED
    BY <2>1, <2>2
<1>3. ASSUME NEW b \in DOMAIN channels
      PROVE  [channels[b] EXCEPT !.offset = IF b = 1 THEN 0 ELSE channels[1].count] = channels[b]
  BY <1>1, <1>2 DEF IsChannel
<1>4. channels = [b \in DOMAIN channels |-> channels[b]]
  OBVIOUS
<1>5. QED
  BY <1>3, <1>4 DEF ClonedChannels

-----------------------------------------------------------------------------
(* What edits make of the tree and the state.                              *)

\* The tree with a list that is set in one node.
ListIsSet(t, after, s, d, list) ==
    /\ after \in Seq(Seq(NodeRecord)) /\ DOMAIN after = DOMAIN t
    /\ \A r \in DOMAIN t : r # s => after[r] = t[r]
    /\ DOMAIN after[s] = DOMAIN t[s]
    /\ \A k \in DOMAIN t[s] : k # d => after[s][k] = t[s][k]
    /\ d \in DOMAIN t[s] =>
           /\ after[s][d].returning = list /\ after[s][d].kind = t[s][d].kind
           /\ after[s][d].name = t[s][d].name

LEMMA SetReturning ==
    ASSUME NEW t \in Seq(Seq(NodeRecord)), NEW s \in DOMAIN t, NEW d, NEW list \in Seq(Target)
    PROVE  ListIsSet(t, [t EXCEPT ![s][d].returning = list], s, d, list)
<1> DEFINE after == [t EXCEPT ![s][d].returning = list]
           nodes == [t[s] EXCEPT ![d].returning = list]
           node == [t[s][d] EXCEPT !.returning = list]
<1>1. after = [t EXCEPT ![s] = nodes] /\ nodes = [t[s] EXCEPT ![d] = node]
  OBVIOUS
<1>2. t[s] \in Seq(NodeRecord) /\ DOMAIN t[s] = 1..Len(t[s]) /\ DOMAIN t = 1..Len(t)
  OBVIOUS
<1>3. ASSUME d \in DOMAIN t[s]
      PROVE  /\ node \in NodeRecord
             /\ node.returning = list /\ node.kind = t[s][d].kind /\ node.name = t[s][d].name
  <2>1. t[s][d] \in NodeRecord
    BY <1>2, <1>3
  <2>2. QED
    BY <2>1 DEF NodeRecord
<1> HIDE DEF node
<1>4. nodes \in Seq(NodeRecord) /\ DOMAIN nodes = DOMAIN t[s]
      /\ \A k \in DOMAIN t[s] : nodes[k] = IF k = d THEN node ELSE t[s][k]
  <2>1. CASE d \in DOMAIN t[s]
    <3>1. nodes \in Seq(NodeRecord)
      BY <1>1, <1>2, <1>3, <2>1, ReplacedFacts
    <3>2. QED
      BY <1>1, <3>1
  <2>2. CASE d \notin DOMAIN t[s]
    <3>1. nodes = [k \in DOMAIN t[s] |-> t[s][k]]
      BY <1>1, <2>2
    <3>2. nodes = t[s]
      BY <1>2, <3>1
    <3>3. QED
      BY <1>2, <2>2, <3>2
  <2>3. QED
    BY <2>1, <2>2
<1> HIDE DEF nodes
<1>5. after \in Seq(Seq(NodeRecord))
  <2> DEFINE Nodes == Seq(NodeRecord)
  <2>1. t \in Seq(Nodes) /\ nodes \in Nodes
    BY <1>4
  <2> HIDE DEF Nodes
  <2>2. [t EXCEPT ![s] = nodes] \in Seq(Nodes)
    BY <2>1, ReplacedFacts
  <2>3. QED
    BY <1>1, <2>2 DEF Nodes
<1>6. DOMAIN after = DOMAIN t /\ after[s] = nodes /\ \A r \in DOMAIN t : r # s => after[r] = t[r]
  BY <1>1
<1> HIDE DEF after
<1>7. ListIsSet(t, after, s, d, list)
  BY <1>3, <1>4, <1>5, <1>6 DEF ListIsSet
<1>8. QED
  BY <1>7 DEF after

\* The state with the channels that are set in one DML.
ChannelsAreSet(ds, after, g, channels) ==
    /\ after \in Seq(DmlRecord) /\ DOMAIN after = DOMAIN ds
    /\ \A h \in DOMAIN ds : h # g => after[h] = ds[h]
    /\ after[g].channels = channels /\ after[g].kind = ds[g].kind
    /\ after[g].statement = ds[g].statement /\ after[g].name = ds[g].name

LEMMA SetChannelsOf ==
    ASSUME NEW ds \in Seq(DmlRecord), NEW g \in DOMAIN ds, NEW channels \in Seq(Channel)
    PROVE  ChannelsAreSet(ds, [ds EXCEPT ![g].channels = channels], g, channels)
<1> DEFINE after == [ds EXCEPT ![g].channels = channels]
           dml == [ds[g] EXCEPT !.channels = channels]
<1>1. after = [ds EXCEPT ![g] = dml]
  OBVIOUS
<1>2. ds[g] \in DmlRecord
  OBVIOUS
<1>3. dml \in DmlRecord /\ dml.channels = channels /\ dml.kind = ds[g].kind
      /\ dml.statement = ds[g].statement /\ dml.name = ds[g].name
  BY <1>2 DEF DmlRecord
<1> HIDE DEF dml
<1>4. after \in Seq(DmlRecord)
  BY <1>1, <1>3, ReplacedFacts
<1>5. DOMAIN after = DOMAIN ds /\ after[g] = dml /\ \A h \in DOMAIN ds : h # g => after[h] = ds[h]
  BY <1>1
<1> HIDE DEF after
<1>6. ChannelsAreSet(ds, after, g, channels)
  BY <1>3, <1>4, <1>5 DEF ChannelsAreSet
<1>7. QED
  BY <1>6 DEF after

\* Statements that stay keep every DML at its place.
LEMMA OrdinalsStay ==
    ASSUME NEW ds, NEW after, DOMAIN after = DOMAIN ds,
           \A h \in DOMAIN ds : after[h].statement = ds[h].statement, NEW g \in DOMAIN ds
    PROVE  Ordinal(after, g) = Ordinal(ds, g)
<1>1. Siblings(after, g) = Siblings(ds, g)
  BY DEF Siblings
<1>2. QED
  BY <1>1 DEF Ordinal

\* An edit of the channels of a DML and of the list of its node.
LEMMA EditFits ==
    ASSUME NEW t, NEW ds, Fits(t, ds), NEW g \in DOMAIN ds,
           NEW s, s = ds[g].statement, NEW d, d = Ordinal(ds, g),
           NEW list \in Seq(Target), NEW channels \in Seq(Channel),
           Len(channels) <= 2, Tiles(channels, Len(list)),
           NEW u, ListIsSet(t, u, s, d, list), NEW es, ChannelsAreSet(ds, es, g, channels)
    PROVE  Fits(u, es)
<1>1. t \in Seq(Seq(NodeRecord)) /\ ds \in Seq(DmlRecord) /\ Named(t)
      /\ \A h \in DOMAIN ds : Placed(t, ds, h)
  BY DEF Fits
<1>2. s \in DOMAIN t /\ d \in DOMAIN t[s] /\ Matches(t[s][d], ds[g])
  BY <1>1 DEF Placed
<1>3. /\ u \in Seq(Seq(NodeRecord)) /\ DOMAIN u = DOMAIN t
      /\ \A r \in DOMAIN t : r # s => u[r] = t[r]
      /\ DOMAIN u[s] = DOMAIN t[s]
      /\ \A k \in DOMAIN t[s] : k # d => u[s][k] = t[s][k]
      /\ u[s][d].returning = list /\ u[s][d].kind = t[s][d].kind
      /\ u[s][d].name = t[s][d].name
  BY <1>2 DEF ListIsSet
<1>4. /\ es \in Seq(DmlRecord) /\ DOMAIN es = DOMAIN ds
      /\ \A h \in DOMAIN ds : h # g => es[h] = ds[h]
      /\ es[g].channels = channels /\ es[g].kind = ds[g].kind
      /\ es[g].statement = ds[g].statement /\ es[g].name = ds[g].name
  BY DEF ChannelsAreSet
<1>5. \A h \in DOMAIN ds : es[h].statement = ds[h].statement
  BY <1>4
<1>6. ASSUME NEW h \in DOMAIN ds PROVE Placed(u, es, h)
  <2>1. Ordinal(es, h) = Ordinal(ds, h)
    BY <1>4, <1>5, OrdinalsStay
  <2>2. CASE h = g
    <3>1. Matches(u[s][d], es[g])
      BY <1>2, <1>3, <1>4 DEF Matches
    <3>2. QED
      BY <1>2, <1>3, <1>4, <2>1, <2>2, <3>1 DEF Placed
  <2>3. CASE h # g
    <3> DEFINE r == ds[h].statement
               k == Ordinal(ds, h)
    <3>1. r \in DOMAIN t /\ k \in DOMAIN t[r] /\ Matches(t[r][k], ds[h])
      BY <1>1 DEF Placed
    <3>2. ~(r = s /\ k = d)
      BY <1>1, <2>3, OneAtEachPlace
    <3> HIDE DEF r, k
    <3>3. k \in DOMAIN u[r] /\ u[r][k] = t[r][k]
      BY <1>3, <3>1, <3>2
    <3>4. Matches(u[r][k], es[h]) /\ es[h].statement = r /\ Ordinal(es, h) = k
      BY <1>4, <2>1, <2>3, <3>1, <3>3 DEF r, k
    <3>5. QED
      BY <1>3, <3>1, <3>3, <3>4 DEF Placed
  <2>4. QED
    BY <2>2, <2>3
<1>7. Named(u)
  <2>1. ASSUME NEW r \in DOMAIN t
        PROVE  DOMAIN u[r] = DOMAIN t[r] /\ \A k \in DOMAIN t[r] : u[r][k].name = t[r][k].name
    BY <1>3
  <2>2. QED
    BY <1>1, <1>3, <2>1 DEF Named
<1>8. QED
  BY <1>3, <1>4, <1>6, <1>7 DEF Fits

-----------------------------------------------------------------------------
(* What a selector finds.                                                  *)

\* sqlparser_dialect_dml_result_channel_at on SQL Server: the channels of the
\* state, and they tile the list of the node.
LEMMA SqlServerSelector ==
    ASSUME DmlInvariant, dialect = "sqlserver", NEW s \in DOMAIN tree, NEW d \in 1..DmlCount(s)
    PROVE  /\ pairs[s] = 0 /\ NodeOf(s, d) = d /\ d \in DOMAIN tree[s]
           /\ DmlAt(s, d) \in DOMAIN dmls /\ dmls[DmlAt(s, d)].statement = s
           /\ Ordinal(dmls, DmlAt(s, d)) = d /\ dmls[DmlAt(s, d)].name = tree[s][d].name
           /\ ChannelsOf(s, d) = dmls[DmlAt(s, d)].channels
           /\ ListOf(s, d) = tree[s][d].returning
           /\ ChannelsOf(s, d) \in Seq(Channel) /\ ListOf(s, d) \in Seq(Target)
           /\ Len(ChannelsOf(s, d)) <= 2 /\ Tiles(ChannelsOf(s, d), Len(ListOf(s, d)))
<1>1. Fits(tree, dmls) /\ tree \in Seq(Seq(NodeRecord)) /\ dmls \in Seq(DmlRecord)
  BY DEF DmlInvariant, Fits
<1>2. pairs[s] = 0
  BY DEF DmlInvariant, PairsInvariant, PairedStatement
<1>3. d \in 1..Cardinality(DmlsOf(s))
  BY <1>2 DEF DmlCount
<1>4. /\ DmlAt(s, d) \in DOMAIN dmls /\ dmls[DmlAt(s, d)].statement = s
      /\ Ordinal(dmls, DmlAt(s, d)) = d
  BY <1>1, <1>3, DmlAtFacts
<1>5. NodeOf(s, d) = d /\ d \in DOMAIN tree[s] /\ Matches(tree[s][d], dmls[DmlAt(s, d)])
  BY <1>1, <1>3, NodeIsAtTheOrdinal
<1>6. ChannelsOf(s, d) = dmls[DmlAt(s, d)].channels /\ ListOf(s, d) = tree[s][d].returning
  BY <1>2, <1>5 DEF ChannelsOf, ListOf
<1>7. dmls[DmlAt(s, d)] \in DmlRecord /\ tree[s][d] \in NodeRecord
  <2>1. tree[s] \in Seq(NodeRecord)
    BY <1>1
  <2>2. QED
    BY <1>1, <1>4, <1>5, <2>1
<1>8. dmls[DmlAt(s, d)].channels \in Seq(Channel) /\ tree[s][d].returning \in Seq(Target)
  BY <1>7 DEF DmlRecord, NodeRecord
<1>9. QED
  BY <1>2, <1>4, <1>5, <1>6, <1>8 DEF Matches

\* A selector that is accepted names a node, and its channel a part of the list.
LEMMA ChannelSelector ==
    ASSUME DmlInvariant, NEW s, NEW d, NEW c, HasChannel(s, d, c)
    PROVE  /\ s \in DOMAIN tree /\ d \in 1..DmlCount(s) /\ c \in DOMAIN ChannelsOf(s, d)
           /\ ListOf(s, d) \in Seq(Target)
           /\ ChannelsOf(s, d)[c].offset \in Nat /\ ChannelsOf(s, d)[c].count \in Nat
           /\ ChannelsOf(s, d)[c].offset + ChannelsOf(s, d)[c].count <= Len(ListOf(s, d))
<1>1. /\ s \in DOMAIN tree /\ d \in 1..DmlCount(s) /\ c \in DOMAIN ChannelsOf(s, d)
      /\ ChannelsOf(s, d)[c].offset + ChannelsOf(s, d)[c].count <= Len(ListOf(s, d))
  BY DEF HasChannel
<1>2. PairsInvariant /\ tree \in Seq(Seq(NodeRecord))
  BY DEF DmlInvariant
<1>3. CASE dialect = "sqlserver"
  <2>1. ChannelsOf(s, d) \in Seq(Channel) /\ ListOf(s, d) \in Seq(Target)
    BY <1>1, <1>3, SqlServerSelector
  <2>2. ChannelsOf(s, d)[c] \in Channel
    BY <1>1, <2>1
  <2>3. QED
    BY <1>1, <2>1, <2>2 DEF Channel
<1>4. CASE dialect # "sqlserver" /\ pairs[s] > 0
  <2>1. /\ ListOf(s, d) = tree[s][1].returning
        /\ ChannelsOf(s, d)[c].offset = 0 /\ ChannelsOf(s, d)[c].count = pairs[s]
    BY <1>2, <1>4, PairedSelector
  <2>2. pairs[s] \in Nat /\ tree[s][1].returning \in Seq(Target)
    BY <1>1, <1>2, <1>4 DEF PairsInvariant, PairedStatement
  <2>3. QED
    BY <1>1, <2>1, <2>2
<1>5. CASE dialect = "postgresql" /\ ~(pairs[s] > 0)
  <2>1. d \in DOMAIN tree[s] /\ tree[s] \in Seq(NodeRecord)
    BY <1>1, <1>2, <1>5 DEF DmlCount
  <2>2. tree[s][d] \in NodeRecord
    BY <2>1
  <2>3. tree[s][d].returning \in Seq(Target)
    BY <2>2 DEF NodeRecord
  <2>4. ListOf(s, d) = tree[s][d].returning
    BY <1>5 DEF ListOf, NodeOf
  <2>5. ChannelsOf(s, d) = IF tree[s][d].returning = <<>> THEN <<>>
                           ELSE <<Unnamed(None, <<>>, Len(tree[s][d].returning))>>
    BY <1>5 DEF ChannelsOf
  <2>6. /\ ChannelsOf(s, d) = <<Unnamed(None, <<>>, Len(tree[s][d].returning))>> /\ c = 1
    BY <1>1, <2>5
  <2>7. ChannelsOf(s, d)[c].offset = 0 /\ ChannelsOf(s, d)[c].count = Len(tree[s][d].returning)
    BY <2>6 DEF Unnamed
  <2>8. QED
    BY <1>1, <2>3, <2>4, <2>7
<1>6. CASE dialect # "sqlserver" /\ dialect # "postgresql" /\ ~(pairs[s] > 0)
  <2>1. dmls = <<>>
    BY <1>6 DEF DmlInvariant
  <2>2. DmlsOf(s) = {}
    BY <2>1 DEF DmlsOf
  <2>3. DmlCount(s) = 0
    BY <1>6, <2>2, FS_EmptySet DEF DmlCount
  <2>4. QED
    BY <1>1, <2>3
<1>7. QED
  BY <1>3, <1>4, <1>5, <1>6

-----------------------------------------------------------------------------
(* What the parser sees of targets.                                        *)

LEMMA MarkerForFacts ==
    ASSUME NEW targets, HasMarker(targets)
    PROVE  /\ MarkerFor(targets) \in ToSet(Markers) \cup {None}
           /\ Action \in Words(targets) =>
                  MarkerFor(targets) \in ToSet(Markers) /\ MarkerFor(targets) \notin Words(targets)
<1> DEFINE free == {m \in DOMAIN Markers : Markers[m] \notin Words(targets)}
<1>1. DOMAIN Markers \subseteq Nat
  BY TextAssumption
<1>2. free \in SUBSET Nat /\ free # {}
  BY <1>1 DEF HasMarker
<1>3. \E m \in free : \A k \in free : m <= k
  BY <1>2, LeastNatural
<1>4. Min(free) \in free
  BY <1>3 DEF Min
<1>5. Markers[Min(free)] \in ToSet(Markers) /\ Markers[Min(free)] \notin Words(targets)
  BY <1>4 DEF ToSet
<1>6. QED
  BY <1>5 DEF MarkerFor

LEMMA MarkersAreText ==
    ASSUME NEW m \in ToSet(Markers)
    PROVE  m \in STRING /\ m # None
BY TextAssumption, NoneAssumption DEF ToSet

\* sqlparser_sqlserver_output_target_sql keeps the number of targets.
LEMMA ParserTargetsFacts ==
    ASSUME NEW targets \in Seq(Target), HasMarker(targets)
    PROVE  /\ ParserTargets(targets) \in Seq(Target)
           /\ Len(ParserTargets(targets)) = Len(targets)
           /\ \A i \in DOMAIN targets : ParserTargets(targets)[i] \in Target
<1>1. DOMAIN targets = 1..Len(targets) /\ Len(targets) \in Nat
  OBVIOUS
<1> DEFINE marker == MarkerFor(targets)
<1>2. ASSUME NEW i \in DOMAIN targets PROVE Swap(targets[i], Action, marker) \in Target
  <2> DEFINE target == targets[i]
  <2>1. target \in Seq(Word)
    BY DEF Target
  <2>2. DOMAIN target = 1..Len(target) /\ Len(target) \in Nat
        /\ \A w \in DOMAIN target : target[w] \in Word
    BY <2>1
  <2>3. ASSUME NEW w \in DOMAIN target, target[w] = Action PROVE marker \in Word
    <3>1. Action \in ToSet(targets[i])
      BY <2>3 DEF ToSet
    <3>2. Action \in Words(targets)
      BY <3>1 DEF Words
    <3>3. QED
      BY <3>2, MarkerForFacts, MarkersAreText DEF Word
  <2> HIDE DEF target, marker
  <2>4. [w \in DOMAIN target |-> IF target[w] = Action THEN marker ELSE target[w]] \in Seq(Word)
    BY <2>2, <2>3
  <2>5. QED
    BY <2>4 DEF Swap, Target, target
<1> HIDE DEF marker
<1>3. ParserTargets(targets) = [i \in 1..Len(targets) |-> Swap(targets[i], Action, marker)]
  BY <1>1 DEF ParserTargets, marker
<1>4. QED
  BY <1>1, <1>2, <1>3

LEMMA ActionsOfFacts ==
    ASSUME NEW targets \in Seq(Target), HasMarker(targets)
    PROVE  ActionsOf(targets) \in Marks /\ DOMAIN ActionsOf(targets) \subseteq 1..Len(targets)
<1> DEFINE P == {j \in DOMAIN targets : Action \in ToSet(targets[j])}
           f == ActionsOf(targets)
<1>1. DOMAIN targets = 1..Len(targets) /\ P \in SUBSET Nat /\ P \subseteq 1..Len(targets)
  OBVIOUS
<1>2. f = [i \in P |-> MarkerFor(targets)]
  BY DEF ActionsOf
<1>3. ASSUME NEW i \in P PROVE MarkerFor(targets) \in ToSet(Markers)
  <2>1. Action \in Words(targets)
    BY DEF Words
  <2>2. QED
    BY <2>1, MarkerForFacts
<1> HIDE DEF P, f
<1>4. f = [i \in P |-> f[i]] /\ \A i \in P : f[i] \in ToSet(Markers)
  BY <1>2, <1>3
<1>5. f \in Marks /\ DOMAIN f = P
  BY <1>1, <1>2, <1>4, MarksIntro
<1>6. QED
  BY <1>1, <1>5 DEF f

\* The target of a patch.
LEMMA FragmentFacts ==
    ASSUME NEW t \in Fragments
    PROVE  /\ t \in Target /\ Parsed(t) \in Target /\ Marker(t) \in ToSet(Markers) \cup {None}
<1>1. t \in Target /\ HasMarker(<<t>>)
  BY TextAssumption
<1>2. <<t>> \in Seq(Target) /\ DOMAIN <<t>> = {1}
  BY <1>1
<1>3. ParserTargets(<<t>>)[1] \in Target
  BY <1>1, <1>2, ParserTargetsFacts
<1>4. QED
  BY <1>1, <1>3, MarkerForFacts DEF Parsed, Marker

-----------------------------------------------------------------------------
(* Patches.                                                                *)

\* A patch of SQL Server: the channels of one DML and the list of its node.
LEMMA SqlServerEdit ==
    ASSUME DmlInvariant, PairsInvariant', dialect = "sqlserver", dialect' = dialect,
           NEW s \in DOMAIN tree, NEW d \in 1..DmlCount(s),
           NEW list \in Seq(Target), NEW channels \in Seq(Channel),
           Len(channels) <= 2, Tiles(channels, Len(list)),
           SetList(s, d, list) \/ (tree' = tree /\ list = ListOf(s, d)),
           SetChannels(dmls, s, d, channels)
    PROVE  DmlInvariant'
<1> DEFINE g == DmlAt(s, d)
<1>1. Fits(tree, dmls) /\ tree \in Seq(Seq(NodeRecord)) /\ dmls \in Seq(DmlRecord)
  BY DEF DmlInvariant, Fits
<1>2. /\ NodeOf(s, d) = d /\ d \in DOMAIN tree[s] /\ g \in DOMAIN dmls
      /\ dmls[g].statement = s /\ Ordinal(dmls, g) = d /\ ListOf(s, d) = tree[s][d].returning
  BY SqlServerSelector
<1> HIDE DEF g
<1>3. dmls' = [dmls EXCEPT ![g].channels = channels]
  BY DEF SetChannels, g
<1>4. ChannelsAreSet(dmls, dmls', g, channels)
  BY <1>1, <1>2, <1>3, SetChannelsOf
<1>5. ListIsSet(tree, tree', s, d, list)
  <2>1. CASE SetList(s, d, list)
    <3>1. tree' = [tree EXCEPT ![s][d].returning = list]
      BY <1>2, <2>1 DEF SetList
    <3>2. QED
      BY <1>1, <3>1, SetReturning
  <2>2. CASE tree' = tree /\ list = ListOf(s, d)
    BY <1>1, <1>2, <2>2 DEF ListIsSet
  <2>3. QED
    BY <2>1, <2>2
<1>6. Fits(tree', dmls')
  <2>1. s = dmls[g].statement /\ d = Ordinal(dmls, g)
    BY <1>2
  <2>2. QED
    BY <1>1, <1>2, <1>4, <1>5, <2>1, EditFits
<1>7. tree' \in Seq(Seq(NodeRecord))
  BY <1>6 DEF Fits
<1>8. dialect' = "sqlserver" /\ dialect' # None
  <2>1. "sqlserver" \in Dialects /\ None \notin Dialects
    BY NoneAssumption DEF Dialects
  <2>2. dialect' = "sqlserver"
    OBVIOUS
  <2>3. QED
    BY ONLY <2>1, <2>2
<1>9. QED
  BY <1>6, <1>7, <1>8 DEF DmlInvariant

\* A patch of the other dialects: the list of one node.
LEMMA ListEdit ==
    ASSUME DmlInvariant, PairsInvariant', dialect # "sqlserver", UNCHANGED <<dialect, dmls>>,
           NEW s \in DOMAIN tree, NEW d, NEW list \in Seq(Target), SetList(s, d, list)
    PROVE  DmlInvariant'
<1>1. tree \in Seq(Seq(NodeRecord)) /\ dialect # None
  BY DEF DmlInvariant
<1> DEFINE k == NodeOf(s, d)
<1>2. tree' = [tree EXCEPT ![s][k].returning = list]
  BY DEF SetList
<1> HIDE DEF k
<1>3. ListIsSet(tree, tree', s, k, list)
  BY <1>1, <1>2, SetReturning
<1>4. tree' \in Seq(Seq(NodeRecord))
  BY <1>3 DEF ListIsSet
<1>5. QED
  BY <1>1, <1>4 DEF DmlInvariant

\* The channels of SQL Server, patched.
LEMMA SqlServerChannels ==
    ASSUME DmlInvariant, dialect = "sqlserver", NEW s, NEW d, NEW c, HasChannel(s, d, c)
    PROVE  /\ s \in DOMAIN tree /\ d \in 1..DmlCount(s) /\ c \in DOMAIN ChannelsOf(s, d)
           /\ ListOf(s, d) \in Seq(Target) /\ ChannelsOf(s, d) \in Seq(Channel)
           /\ Len(ChannelsOf(s, d)) <= 2 /\ Tiles(ChannelsOf(s, d), Len(ListOf(s, d)))
           /\ \A b \in DOMAIN ChannelsOf(s, d) : IsChannel(ChannelsOf(s, d)[b])
           /\ Len(ListOf(s, d)) \in Nat
<1>1. s \in DOMAIN tree /\ d \in 1..DmlCount(s) /\ c \in DOMAIN ChannelsOf(s, d)
  BY DEF HasChannel
<1>2. /\ ListOf(s, d) \in Seq(Target) /\ ChannelsOf(s, d) \in Seq(Channel)
      /\ Len(ChannelsOf(s, d)) <= 2 /\ Tiles(ChannelsOf(s, d), Len(ListOf(s, d)))
  BY <1>1, SqlServerSelector
<1>3. QED
  BY <1>1, <1>2, SeqChannelFacts

\* sqlparser_dml_result_set_target_sql
LEMMA ReplaceFits ==
    ASSUME DmlInvariant, PairsInvariant', NEW s, NEW d, NEW c, NEW i \in Indices,
           NEW t \in Fragments, ReplaceTarget(s, d, c, i, t)
    PROVE  DmlInvariant'
<1> DEFINE place == ChannelsOf(s, d)[c].offset + i
           old == ListOf(s, d)
           list == [old EXCEPT ![place] = Parsed(t)]
<1>1. /\ HasChannel(s, d, c) /\ i <= ChannelsOf(s, d)[c].count
      /\ SetList(s, d, list) /\ UNCHANGED <<dialect, pairs>>
      /\ IF dialect = "sqlserver"
         THEN SetChannels(dmls, s, d, Marked(ChannelsOf(s, d), c, i, Marker(t)))
         ELSE UNCHANGED dmls
  BY DEF ReplaceTarget
<1>2. s \in DOMAIN tree /\ d \in 1..DmlCount(s) /\ old \in Seq(Target)
  BY <1>1, ChannelSelector
<1>3. Parsed(t) \in Target /\ Marker(t) \in ToSet(Markers) \cup {None}
  BY FragmentFacts
<1> HIDE DEF old, place
<1>4. list \in Seq(Target) /\ Len(list) = Len(old)
  BY <1>2, <1>3, ReplacedFacts
<1>5. CASE dialect # "sqlserver"
  <2>1. UNCHANGED <<dialect, dmls>>
    BY <1>1, <1>5
  <2> HIDE DEF list
  <2>2. QED
    BY <1>1, <1>2, <1>4, <1>5, <2>1, ListEdit
<1>6. CASE dialect = "sqlserver"
  <2> DEFINE channels == ChannelsOf(s, d)
             after == Marked(channels, c, i, Marker(t))
  <2>1. /\ c \in DOMAIN channels /\ channels \in Seq(Channel)
        /\ Len(channels) <= 2 /\ Tiles(channels, Len(old))
        /\ Len(old) \in Nat
    BY <1>1, <1>6, SqlServerChannels DEF old
  <2>2. \A b \in DOMAIN channels : IsChannel(channels[b])
    BY <1>1, <1>6, SqlServerChannels
  <2>3. SetChannels(dmls, s, d, after) /\ i <= channels[c].count
    BY <1>1, <1>6
  <2> HIDE DEF channels
  <2>4. i \in 1..channels[c].count
    <3>1. i \in Nat /\ i >= 1
      BY BoundAssumption DEF Indices
    <3>2. channels[c].count \in Nat
      BY <2>1, <2>2 DEF IsChannel
    <3>3. QED
      BY <2>3, <3>1, <3>2
  <2>5. Tiles(after, Len(old))
    BY <2>1, <2>2, <2>4, MarkedTiles
  <2>6. i \in Nat
    BY BoundAssumption DEF Indices
  <2>7. after \in Seq(Channel) /\ Len(after) = Len(channels)
    BY <1>3, <2>1, <2>6, MarkedTyped
  <2> HIDE DEF after, list
  <2>8. Len(after) <= 2 /\ Tiles(after, Len(list))
    BY <1>4, <2>1, <2>5, <2>7
  <2>9. SetList(s, d, list) /\ dialect' = dialect
    BY <1>1
  <2>10. QED
    BY <1>2, <1>4, <1>6, <2>3, <2>7, <2>8, <2>9, SqlServerEdit
<1>7. QED
  BY <1>5, <1>6

\* What an insertion makes of the channels.
LEMMA InsertedChannels ==
    ASSUME NEW channels \in Seq(Channel), NEW n \in Nat, Tiles(channels, n),
           NEW c \in DOMAIN channels, NEW i \in 1..(channels[c].count + 1),
           NEW marker \in ToSet(Markers) \cup {None}
    PROVE  LET after == Marked(Grown(channels, c, i), c, i, marker)
           IN  /\ after \in Seq(Channel) /\ Len(after) = Len(channels)
               /\ Tiles(after, n + 1)
<1> DEFINE grown == Grown(channels, c, i)
           after == Marked(grown, c, i, marker)
           moved == ActionsAfterInsert(channels[c].actions, i)
<1>1. /\ \A b \in DOMAIN channels : IsChannel(channels[b])
      /\ channels[c] \in Channel /\ DOMAIN channels = 1..Len(channels)
  BY SeqChannelFacts
<1>2. channels[c].count \in Nat /\ channels[c].actions \in Marks
  BY <1>1, ChannelFacts DEF IsChannel
<1>3. i \in Nat \ {0} /\ i \in Nat
  BY <1>2
<1>4. grown = Adjusted(channels, c, moved, 1)
  BY DEF Grown
<1>5. moved \in Marks
  BY <1>2, <1>3, ActionsStayMarks
<1>6. \A b \in DOMAIN channels : IsChannel(channels[b])
  BY <1>1
<1>7. Tiles(grown, n + 1)
  BY <1>6, GrownTiles
<1>8. channels[c].count + 1 >= 0 /\ 1 \in {1, -1}
  BY <1>2
<1> HIDE DEF moved
<1>9. grown \in Seq(Channel) /\ Len(grown) = Len(channels)
  <2>1. /\ Adjusted(channels, c, moved, 1) \in Seq(Channel)
        /\ Len(Adjusted(channels, c, moved, 1)) = Len(channels)
    BY <1>5, <1>8, AdjustedTyped
  <2>2. QED
    BY <1>4, <2>1
<1>10. grown[c].count = channels[c].count + 1 /\ c \in DOMAIN grown
  <2> DEFINE bigger == Adjusted(channels, c, moved, 1)
  <2>1. bigger = Adjusted(channels, c, moved, 1) /\ grown = bigger
    BY <1>4
  <2> HIDE DEF bigger, grown
  <2>2. DOMAIN bigger = DOMAIN channels /\ bigger[c].count = channels[c].count + 1
    BY <1>6, <1>8, <2>1, AdjustedFacts
  <2>3. QED
    BY <2>1, <2>2
<1> HIDE DEF grown
<1>11. \A b \in DOMAIN grown : IsChannel(grown[b])
  BY <1>9, SeqChannelFacts
<1>12. Tiles(after, n + 1)
  <2>1. i \in 1..grown[c].count /\ n + 1 \in Nat
    BY <1>2, <1>10
  <2>2. QED
    BY <1>7, <1>9, <1>10, <1>11, <2>1, MarkedTiles
<1>13. after \in Seq(Channel) /\ Len(after) = Len(grown)
  BY <1>3, <1>9, <1>10, MarkedTyped
<1>14. QED
  BY <1>9, <1>12, <1>13 DEF grown

\* sqlparser_dml_result_insert_target_sql
LEMMA InsertFits ==
    ASSUME DmlInvariant, PairsInvariant', NEW s, NEW d, NEW c, NEW index \in Indices,
           NEW t \in Fragments, InsertTarget(s, d, c, index, t)
    PROVE  DmlInvariant'
<1> DEFINE channels == ChannelsOf(s, d)
           count == channels[c].count
           offset == channels[c].offset
           i == IF index > count THEN count + 1 ELSE index
           old == ListOf(s, d)
           list == InsertAt(old, offset + i, Parsed(t))
           after == Marked(Grown(channels, c, i), c, i, Marker(t))
<1>1. /\ HasChannel(s, d, c) /\ SetList(s, d, list) /\ UNCHANGED <<dialect, pairs>>
      /\ IF dialect = "sqlserver" THEN SetChannels(dmls, s, d, after) ELSE UNCHANGED dmls
  BY DEF InsertTarget
<1>2. /\ s \in DOMAIN tree /\ d \in 1..DmlCount(s) /\ old \in Seq(Target) /\ c \in DOMAIN channels
      /\ offset \in Nat /\ count \in Nat /\ offset + count <= Len(old)
  BY <1>1, ChannelSelector
<1>3. Parsed(t) \in Target /\ Marker(t) \in ToSet(Markers) \cup {None}
  BY FragmentFacts
<1>4. index \in Nat \ {0}
  BY BoundAssumption DEF Indices
<1>5. CASE dialect # "sqlserver"
  <2>1. UNCHANGED <<dialect, dmls>>
    BY <1>1, <1>5
  <2> HIDE DEF old, offset, count, channels
  <2>2. offset + i \in 1..(Len(old) + 1)
    BY <1>2, <1>4
  <2> HIDE DEF i
  <2>3. list \in Seq(Target)
    BY <1>2, <1>3, <2>2, InsertAtFacts
  <2> HIDE DEF list
  <2>4. QED
    BY <1>1, <1>2, <1>5, <2>1, <2>3, ListEdit
<1>6. CASE dialect = "sqlserver"
  <2>1. /\ channels \in Seq(Channel) /\ Len(channels) <= 2 /\ Tiles(channels, Len(old))
        /\ Len(old) \in Nat
    BY <1>1, <1>6, SqlServerChannels
  <2>2. SetChannels(dmls, s, d, after) /\ SetList(s, d, list) /\ dialect' = dialect
    BY <1>1, <1>6
  <2> HIDE DEF old, channels
  <2>3. i \in 1..(channels[c].count + 1) /\ offset + i \in 1..(Len(old) + 1)
    BY <1>2, <1>4
  <2> HIDE DEF i
  <2>4. /\ after \in Seq(Channel) /\ Len(after) = Len(channels)
        /\ Tiles(after, Len(old) + 1)
    BY <1>2, <1>3, <2>1, <2>3, InsertedChannels
  <2>5. list \in Seq(Target) /\ Len(list) = Len(old) + 1
    BY <1>2, <1>3, <2>3, InsertAtFacts
  <2> HIDE DEF after, list
  <2>6. Len(after) <= 2 /\ Tiles(after, Len(list))
    BY <2>1, <2>4, <2>5
  <2>7. QED
    BY <1>2, <1>6, <2>2, <2>4, <2>5, <2>6, SqlServerEdit
<1>7. QED
  BY <1>5, <1>6

\* sqlparser_dml_result_insert_target_receiver_sql on the pairs of Oracle
LEMMA InsertPairFits ==
    ASSUME DmlInvariant, PairsInvariant', NEW s, NEW d, NEW c, NEW i \in Indices,
           NEW t \in Fragments, NEW bind \in Receivers, InsertPair(s, d, c, i, t, bind)
    PROVE  DmlInvariant'
<1> DEFINE old == ListOf(s, d)
           half == InsertAt(old, i, t)
           list == InsertAt(half, pairs[s] + i + 1, Receiver(bind))
<1>1. /\ HasChannel(s, d, c) /\ i <= ChannelsOf(s, d)[c].count + 1 /\ pairs[s] > 0
      /\ 2 * pairs[s] <= Len(old) /\ SetList(s, d, list) /\ UNCHANGED <<dialect, dmls>>
  BY DEF InsertPair
<1>2. s \in DOMAIN tree /\ old \in Seq(Target) /\ PairsInvariant
  BY <1>1, ChannelSelector DEF DmlInvariant
<1>3. ChannelsOf(s, d)[c].count = pairs[s] /\ pairs[s] \in Nat /\ dialect = "oracle"
  BY <1>1, <1>2, PairedSelector DEF PairsInvariant, PairedStatement
<1>4. i \in Nat \ {0} /\ t \in Target /\ Receiver(bind) \in Target
  BY BoundAssumption, TextAssumption DEF Indices, Receiver, Target, Word
<1> HIDE DEF old
<1>5. i \in 1..(Len(old) + 1)
  BY <1>1, <1>2, <1>3, <1>4
<1>6. half \in Seq(Target) /\ Len(half) = Len(old) + 1
  BY <1>2, <1>4, <1>5, InsertAtFacts
<1> HIDE DEF half
<1>7. pairs[s] + i + 1 \in 1..(Len(half) + 1)
  BY <1>1, <1>2, <1>3, <1>4, <1>6
<1>8. list \in Seq(Target)
  BY <1>4, <1>6, <1>7, InsertAtFacts
<1> HIDE DEF list
<1>9. dialect # "sqlserver"
  BY <1>3
<1>10. QED
  BY <1>1, <1>2, <1>8, <1>9, ListEdit

\* sqlparser_dml_result_delete_target
LEMMA DeleteFits ==
    ASSUME DmlInvariant, PairsInvariant', NEW s, NEW d, NEW c, NEW i \in Indices,
           DeleteTarget(s, d, c, i), Cloned(dmls) = dmls
    PROVE  DmlInvariant'
<1> DEFINE channels == ChannelsOf(s, d)
           count == channels[c].count
           offset == channels[c].offset
           old == ListOf(s, d)
           list == RemoveAt(old, offset + i)
           after == Shrunk(channels, c, i)
<1>1. /\ HasChannel(s, d, c) /\ i <= count /\ SetList(s, d, list) /\ UNCHANGED <<dialect, pairs>>
  BY DEF DeleteTarget
<1>2. /\ s \in DOMAIN tree /\ d \in 1..DmlCount(s) /\ old \in Seq(Target) /\ c \in DOMAIN channels
      /\ offset \in Nat /\ count \in Nat /\ offset + count <= Len(old)
  BY <1>1, ChannelSelector
<1>3. i \in 1..count
  <2>1. i \in Nat \ {0}
    BY BoundAssumption DEF Indices
  <2>2. QED
    BY <1>1, <1>2, <2>1
<1>4. CASE dialect # "sqlserver"
  <2>1. UNCHANGED <<dialect, dmls>>
    BY <1>4 DEF DeleteTarget
  <2> HIDE DEF old, offset, count, channels
  <2>2. offset + i \in 1..Len(old)
    BY <1>2, <1>3
  <2>3. list \in Seq(Target)
    BY <1>2, <2>2, RemoveAtFacts
  <2> HIDE DEF list
  <2>4. QED
    BY <1>1, <1>2, <1>4, <2>1, <2>3, ListEdit
<1>5. CASE dialect = "sqlserver"
  <2>1. /\ channels \in Seq(Channel) /\ Len(channels) <= 2 /\ Tiles(channels, Len(old))
        /\ Len(old) \in Nat
    BY <1>1, <1>5, SqlServerChannels
  <2>2. \A b \in DOMAIN channels : IsChannel(channels[b])
    BY <1>1, <1>5, SqlServerChannels
  <2>3. /\ SetChannels(dmls, s, d, after) /\ SetList(s, d, list) /\ dialect' = dialect
        /\ count # 1
    <3>1. pairs[s] = 0 /\ channels = dmls[DmlAt(s, d)].channels
      BY <1>2, <1>5, SqlServerSelector
    <3>2. /\ SetChannels(Cloned(dmls), s, d, Shrunk(Cloned(dmls)[DmlAt(s, d)].channels, c, i))
          /\ count # 1
      BY <1>5 DEF DeleteTarget
    <3>3. QED
      BY <1>1, <3>1, <3>2
  <2> HIDE DEF old, channels
  <2>4. offset + i \in 1..Len(old)
    BY <1>2, <1>3
  <2>5. channels[c] \in Channel /\ channels[c].actions \in Marks
    <3>1. channels[c] \in Channel
      BY <1>2, <2>1
    <3>2. QED
      BY <3>1, ChannelFacts
  <2> DEFINE moved == ActionsAfterDelete(channels[c].actions, i)
  <2>6. after = Adjusted(channels, c, moved, -1)
    BY DEF Shrunk
  <2>7. moved \in Marks
    <3>1. i \in Nat \ {0}
      BY <1>2, <1>3
    <3>2. QED
      BY <2>5, <3>1, ActionsStayMarks
  <2>8. Tiles(after, Len(old) - 1)
    BY <1>2, <1>3, <2>1, <2>2, <2>3, ShrunkTiles
  <2>9. channels[c].count + (-1) >= 0 /\ -1 \in {1, -1}
    BY <1>2, <1>3
  <2> HIDE DEF moved
  <2>10. after \in Seq(Channel) /\ Len(after) = Len(channels)
    <3>1. /\ Adjusted(channels, c, moved, -1) \in Seq(Channel)
          /\ Len(Adjusted(channels, c, moved, -1)) = Len(channels)
      BY <1>2, <2>1, <2>7, <2>9, AdjustedTyped
    <3>2. QED
      BY <2>6, <3>1
  <2>11. list \in Seq(Target) /\ Len(list) = Len(old) - 1
    BY <1>2, <2>4, RemoveAtFacts
  <2> HIDE DEF after, list
  <2>12. Len(after) <= 2 /\ Tiles(after, Len(list))
    BY <2>1, <2>8, <2>10, <2>11
  <2>13. QED
    BY <1>2, <1>5, <2>3, <2>10, <2>11, <2>12, SqlServerEdit
<1>6. QED
  BY <1>4, <1>5

\* Another sink or other columns of it disturb no channel.
LEMMA ResunkTiles ==
    ASSUME NEW channels \in Seq(Channel), NEW n \in Nat, Tiles(channels, n),
           NEW c \in DOMAIN channels, NEW channel \in Channel,
           channel.offset = channels[c].offset, channel.count = channels[c].count,
           channel.actions = channels[c].actions
    PROVE  LET after == [channels EXCEPT ![c] = channel]
           IN  after \in Seq(Channel) /\ Len(after) = Len(channels) /\ Tiles(after, n)
<1> DEFINE after == [channels EXCEPT ![c] = channel]
<1>1. after \in Seq(Channel) /\ Len(after) = Len(channels) /\ DOMAIN after = DOMAIN channels
  BY ReplacedFacts
<1>2. ASSUME NEW b \in DOMAIN channels
      PROVE  /\ after[b].offset = channels[b].offset /\ after[b].count = channels[b].count
             /\ after[b].actions = channels[b].actions
  OBVIOUS
<1>3. DOMAIN channels = 1..Len(channels) /\ Len(channels) \in Nat
  BY SeqChannelFacts
<1> HIDE DEF after
<1>4. ASSUME NEW b \in DOMAIN channels
      PROVE  /\ after[b].count > 0 /\ DOMAIN after[b].actions \subseteq 1..after[b].count
             /\ after[b].offset = IF b = 1 THEN 0 ELSE after[b - 1].offset + after[b - 1].count
  <2>1. /\ channels[b].count > 0 /\ DOMAIN channels[b].actions \subseteq 1..channels[b].count
        /\ channels[b].offset = IF b = 1 THEN 0 ELSE channels[b - 1].offset + channels[b - 1].count
    BY DEF Tiles
  <2>2. b # 1 => b - 1 \in DOMAIN channels
    BY <1>3
  <2>3. QED
    BY <1>2, <2>1, <2>2
<1>5. n = IF after = <<>> THEN 0 ELSE after[Len(after)].offset + after[Len(after)].count
  <2>1. channels # <<>> /\ after # <<>> /\ Len(channels) \in DOMAIN channels
    BY <1>1, <1>3
  <2>2. n = channels[Len(channels)].offset + channels[Len(channels)].count
    BY <2>1 DEF Tiles
  <2>3. QED
    BY <1>1, <1>2, <2>1, <2>2
<1>6. Tiles(after, n)
  BY <1>1, <1>4, <1>5 DEF Tiles
<1>7. QED
  BY <1>1, <1>6 DEF after

\* sqlparser_dml_result_mutate_sink
LEMMA SinkFits ==
    ASSUME DmlInvariant, PairsInvariant', NEW s, NEW d, NEW c, HasSink(s, d, c),
           NEW channel, ChangeSink(s, d, c, channel),
           channel \in Channel,
           channel.offset = ChannelsOf(s, d)[c].offset, channel.count = ChannelsOf(s, d)[c].count,
           channel.actions = ChannelsOf(s, d)[c].actions
    PROVE  DmlInvariant'
<1> DEFINE channels == ChannelsOf(s, d)
           old == ListOf(s, d)
           after == [channels EXCEPT ![c] = channel]
<1>1. /\ dialect = "sqlserver" /\ s \in DOMAIN tree /\ d \in 1..DmlCount(s)
      /\ c \in DOMAIN channels
  BY DEF HasSink
<1>2. SetChannels(dmls, s, d, after) /\ tree' = tree /\ dialect' = dialect
  BY DEF ChangeSink
<1>3. /\ old \in Seq(Target) /\ channels \in Seq(Channel) /\ Len(old) \in Nat
      /\ Len(channels) <= 2 /\ Tiles(channels, Len(old))
  <2>1. old \in Seq(Target) /\ channels \in Seq(Channel)
        /\ Len(channels) <= 2 /\ Tiles(channels, Len(old))
    BY <1>1, SqlServerSelector
  <2>2. Len(old) \in Nat
    BY <2>1
  <2>3. QED
    BY <2>1, <2>2
<1>4. old = ListOf(s, d)
  OBVIOUS
<1> HIDE DEF channels, old
<1>5. /\ channel.offset = channels[c].offset /\ channel.count = channels[c].count
      /\ channel.actions = channels[c].actions
  BY DEF channels
<1>6. after \in Seq(Channel) /\ Len(after) = Len(channels) /\ Tiles(after, Len(old))
  BY <1>1, <1>3, <1>5, ResunkTiles
<1> HIDE DEF after
<1>7. Len(after) <= 2
  BY <1>3, <1>6
<1>8. QED
  BY <1>1, <1>2, <1>3, <1>4, <1>6, <1>7, SqlServerEdit

\* The channel that a patch of a sink names.
LEMMA SinkChannel ==
    ASSUME DmlInvariant, NEW s, NEW d, NEW c, HasSink(s, d, c)
    PROVE  ChannelsOf(s, d)[c] \in Channel
<1>1. /\ dialect = "sqlserver" /\ s \in DOMAIN tree /\ d \in 1..DmlCount(s)
      /\ c \in DOMAIN ChannelsOf(s, d)
  BY DEF HasSink
<1>2. ChannelsOf(s, d) \in Seq(Channel)
  BY <1>1, SqlServerSelector
<1>3. QED
  BY <1>1, <1>2

LEMMA SinkPatchesFit ==
    ASSUME DmlInvariant, PairsInvariant', NEW s, NEW d, NEW c, NEW i \in Indices,
           \/ DeleteSinkColumn(s, d, c, i)
           \/ \E r \in Receivers : SetSinkColumn(s, d, c, i, r) \/ InsertSinkColumn(s, d, c, i, r)
           \/ \E sink \in Sinks : SetSink(s, d, c, sink)
    PROVE  DmlInvariant'
<1> DEFINE channel == ChannelsOf(s, d)[c]
<1>1. HasSink(s, d, c)
  BY DEF DeleteSinkColumn, SetSinkColumn, InsertSinkColumn, SetSink
<1>2. channel \in Channel /\ i \in Nat \ {0}
  BY <1>1, SinkChannel, BoundAssumption DEF Indices
<1>3. ASSUME NEW columns \in Seq(STRING),
             ChangeSink(s, d, c, [ChannelsOf(s, d)[c] EXCEPT !.columns = columns])
      PROVE  DmlInvariant'
  <2> DEFINE new == [channel EXCEPT !.columns = columns]
  <2>1. /\ new \in Channel /\ new.offset = channel.offset /\ new.count = channel.count
        /\ new.actions = channel.actions
    BY <1>2 DEF Channel
  <2>2. ChangeSink(s, d, c, new)
    BY <1>3
  <2> HIDE DEF new
  <2>3. QED
    BY <1>1, <2>1, <2>2, SinkFits
<1>4. channel.columns \in Seq(STRING)
  BY <1>2 DEF Channel
<1> DEFINE columns == ChannelsOf(s, d)[c].columns
<1>5. columns \in Seq(STRING) /\ Len(columns) \in Nat
  BY <1>4
<1>6. CASE DeleteSinkColumn(s, d, c, i)
  <2>1. ChangeSink(s, d, c, [ChannelsOf(s, d)[c] EXCEPT !.columns = RemoveAt(columns, i)])
        /\ i <= Len(columns)
    BY <1>6 DEF DeleteSinkColumn
  <2> HIDE DEF columns
  <2>2. RemoveAt(columns, i) \in Seq(STRING)
    BY <1>2, <1>5, <2>1, RemoveAtFacts
  <2>3. QED
    BY <1>3, <2>1, <2>2
<1>7. ASSUME NEW r \in Receivers, SetSinkColumn(s, d, c, i, r)
      PROVE  DmlInvariant'
  <2>1. ChangeSink(s, d, c, [ChannelsOf(s, d)[c] EXCEPT !.columns = [columns EXCEPT ![i] = r]])
    BY <1>7 DEF SetSinkColumn
  <2>2. r \in STRING
    BY TextAssumption
  <2> HIDE DEF columns
  <2>3. [columns EXCEPT ![i] = r] \in Seq(STRING)
    BY <1>5, <2>2, ReplacedFacts
  <2>4. QED
    BY <1>3, <2>1, <2>3
<1>8. ASSUME NEW r \in Receivers, InsertSinkColumn(s, d, c, i, r)
      PROVE  DmlInvariant'
  <2> DEFINE at == IF i > Len(columns) THEN Len(columns) + 1 ELSE i
  <2>1. ChangeSink(s, d, c, [ChannelsOf(s, d)[c] EXCEPT !.columns = InsertAt(columns, at, r)])
    BY <1>8 DEF InsertSinkColumn
  <2>2. r \in STRING
    BY TextAssumption
  <2> HIDE DEF columns
  <2>3. at \in 1..(Len(columns) + 1)
    BY <1>2, <1>5
  <2> HIDE DEF at
  <2>4. InsertAt(columns, at, r) \in Seq(STRING)
    BY <1>5, <2>2, <2>3, InsertAtFacts
  <2>5. QED
    BY <1>3, <2>1, <2>4
<1>9. ASSUME NEW sink \in Sinks, SetSink(s, d, c, sink)
      PROVE  DmlInvariant'
  <2> DEFINE new == [channel EXCEPT !.sink = sink]
  <2>1. sink \in Sink
    BY TextAssumption DEF Sink
  <2>2. /\ new \in Channel /\ new.offset = channel.offset /\ new.count = channel.count
        /\ new.actions = channel.actions
    BY <1>2, <2>1 DEF Channel
  <2>3. ChangeSink(s, d, c, new)
    BY <1>9 DEF SetSink
  <2> HIDE DEF new
  <2>4. QED
    BY <1>1, <2>2, <2>3, SinkFits
<1>10. QED
  BY <1>6, <1>7, <1>8, <1>9

\* sqlparser_dml_result_insert_target_receiver_sql on OUTPUT INTO
LEMMA InsertSinkTargetFits ==
    ASSUME DmlInvariant, PairsInvariant', NEW s, NEW d, NEW c, NEW i \in Indices,
           NEW t \in Fragments, NEW column \in Receivers,
           InsertTargetSinkColumn(s, d, c, i, t, column)
    PROVE  DmlInvariant'
<1> DEFINE channels == ChannelsOf(s, d)
           channel == channels[c]
           old == ListOf(s, d)
           list == InsertAt(old, channel.offset + i, Parsed(t))
           columns == InsertAt(channel.columns, i, column)
           wider == [channel EXCEPT !.columns = columns]
           widened == [channels EXCEPT ![c] = wider]
           after == Marked(Grown(widened, c, i), c, i, Marker(t))
<1>1. /\ dialect = "sqlserver" /\ HasChannel(s, d, c) /\ i <= channel.count + 1
      /\ Len(channel.columns) = channel.count
      /\ SetList(s, d, list) /\ dialect' = dialect
  BY DEF InsertTargetSinkColumn
<1>2. SetChannels(dmls, s, d, after)
  <2>1. widened = [ChannelsOf(s, d) EXCEPT ![c].columns = InsertAt(@, i, column)]
    OBVIOUS
  <2>2. QED
    BY <2>1 DEF InsertTargetSinkColumn
<1>3. /\ s \in DOMAIN tree /\ d \in 1..DmlCount(s) /\ c \in DOMAIN channels
      /\ old \in Seq(Target) /\ channels \in Seq(Channel)
      /\ Len(channels) <= 2 /\ Tiles(channels, Len(old)) /\ Len(old) \in Nat
  BY <1>1, SqlServerChannels
<1>4. channel.offset \in Nat /\ channel.count \in Nat /\ channel.offset + channel.count <= Len(old)
  BY <1>1, ChannelSelector
<1>5. i \in Nat \ {0} /\ column \in STRING
  BY BoundAssumption, TextAssumption DEF Indices
<1>6. Parsed(t) \in Target /\ Marker(t) \in ToSet(Markers) \cup {None}
  BY FragmentFacts
<1> HIDE DEF channels, old
<1>7. i \in 1..(channel.count + 1) /\ channel.offset + i \in 1..(Len(old) + 1)
  BY <1>1, <1>4, <1>5
<1>8. channel \in Channel
  BY <1>3
<1>9. columns \in Seq(STRING)
  <2>1. channel.columns \in Seq(STRING) /\ i \in 1..(Len(channel.columns) + 1)
    BY <1>1, <1>7, <1>8 DEF Channel
  <2> DEFINE narrow == channel.columns
  <2> HIDE DEF narrow
  <2>2. InsertAt(narrow, i, column) \in Seq(STRING)
    BY <1>5, <2>1, InsertAtFacts DEF narrow
  <2>3. QED
    BY <2>2 DEF narrow
<1> HIDE DEF columns
<1>10. /\ wider \in Channel /\ wider.offset = channel.offset /\ wider.count = channel.count
       /\ wider.actions = channel.actions
  BY <1>8, <1>9 DEF Channel
<1> HIDE DEF wider
<1>11. widened \in Seq(Channel) /\ Len(widened) = Len(channels) /\ Tiles(widened, Len(old))
  BY <1>3, <1>10, ResunkTiles
<1>12. c \in DOMAIN widened /\ widened[c] = wider
  BY <1>3
<1> HIDE DEF widened
<1>13. i \in 1..(widened[c].count + 1)
  BY <1>7, <1>10, <1>12
<1>14. after \in Seq(Channel) /\ Len(after) = Len(widened) /\ Tiles(after, Len(old) + 1)
  BY <1>3, <1>6, <1>11, <1>12, <1>13, InsertedChannels
<1>15. list \in Seq(Target) /\ Len(list) = Len(old) + 1
  BY <1>3, <1>6, <1>7, InsertAtFacts
<1> HIDE DEF after, list
<1>16. Len(after) <= 2 /\ Tiles(after, Len(list))
  BY <1>3, <1>11, <1>14, <1>15
<1>17. QED
  BY <1>1, <1>2, <1>3, <1>14, <1>15, <1>16, SqlServerEdit

\* sqlparser_clone: the copy has the state of the original.
LEMMA ClonedState ==
    ASSUME DmlInvariant
    PROVE  Cloned(dmls) = dmls
<1>1. CASE dialect # "sqlserver"
  <2>1. dmls = <<>>
    BY <1>1 DEF DmlInvariant
  <2>2. QED
    BY <2>1 DEF Cloned
<1>2. CASE dialect = "sqlserver"
  <2>1. Fits(tree, dmls) /\ tree \in Seq(Seq(NodeRecord)) /\ dmls \in Seq(DmlRecord)
    BY <1>2 DEF DmlInvariant, Fits
  <2>2. ASSUME NEW g \in DOMAIN dmls
        PROVE  [dmls[g] EXCEPT !.channels = ClonedChannels(dmls[g].channels)] = dmls[g]
    <3> DEFINE channels == dmls[g].channels
               s == dmls[g].statement
               d == Ordinal(dmls, g)
               list == tree[s][d].returning
    <3>1. dmls[g] \in DmlRecord
      BY <2>1
    <3>2. channels \in Seq(Channel)
      BY <3>1 DEF DmlRecord
    <3>3. s \in DOMAIN tree /\ d \in DOMAIN tree[s] /\ Matches(tree[s][d], dmls[g])
      BY <2>1 DEF Fits, Placed
    <3> HIDE DEF s, d
    <3>4. tree[s] \in Seq(NodeRecord)
      BY <2>1, <3>3
    <3>5. tree[s][d] \in NodeRecord
      BY <3>3, <3>4
    <3>6. list \in Seq(Target)
      BY <3>5 DEF NodeRecord
    <3>7. Len(list) \in Nat
      BY <3>6
    <3>8. Len(channels) <= 2 /\ Tiles(channels, Len(list))
      BY <3>3 DEF Matches
    <3> HIDE DEF list, channels
    <3>9. ClonedChannels(channels) = channels
      BY <3>2, <3>7, <3>8, ClonedIsTheSame
    <3>10. ClonedChannels(dmls[g].channels) = dmls[g].channels
      BY <3>9 DEF channels
    <3>11. QED
      BY <3>1, <3>10 DEF DmlRecord
  <2>3. dmls = [g \in DOMAIN dmls |-> dmls[g]]
    BY <2>1
  <2>4. QED
    BY <2>2, <2>3 DEF Cloned
<1>3. QED
  BY <1>1, <1>2

-----------------------------------------------------------------------------
(* Parsing.                                                                *)

\* sqlparser_sqlserver_output_process_clause makes a channel of what is written.
LEMMA NewChannelFacts ==
    ASSUME NEW written, written.sink \in Sink, written.columns \in Seq(STRING),
           written.targets \in Seq(Target), written.targets # <<>>, HasMarker(written.targets)
    PROVE  /\ NewChannel(written) \in Channel
           /\ NewChannel(written).count = Len(written.targets) /\ NewChannel(written).count > 0
           /\ NewChannel(written).offset = 0
           /\ DOMAIN NewChannel(written).actions \subseteq 1..Len(written.targets)
<1> DEFINE targets == written.targets
<1>1. ActionsOf(targets) \in Marks /\ DOMAIN ActionsOf(targets) \subseteq 1..Len(targets)
  BY ActionsOfFacts
<1>2. Len(targets) \in Nat /\ Len(targets) > 0
  OBVIOUS
<1>3. NewChannel(written) = [sink |-> written.sink, columns |-> written.columns, offset |-> 0,
                             count |-> Len(targets), actions |-> ActionsOf(targets)]
  BY DEF NewChannel
<1> HIDE DEF targets
<1>4. QED
  BY <1>1, <1>2, <1>3 DEF Channel, targets

LEMMA ClauseElement ==
    ASSUME NEW clause \in Clause, IsWritten(clause), NEW c \in DOMAIN clause
    PROVE  /\ clause[c].sink \in Sink /\ clause[c].columns \in Seq(STRING)
           /\ clause[c].targets \in Seq(Target) /\ clause[c].targets # <<>>
           /\ HasMarker(clause[c].targets)
<1> DEFINE E == [sink : Sink, columns : Seq(STRING), targets : Seq(Target)]
<1>1. clause \in Seq(E)
  BY DEF Clause
<1> HIDE DEF E
<1>2. clause[c] \in E
  BY <1>1
<1>3. QED
  BY <1>2 DEF E, IsWritten

\* What Append makes of a sequence.
LEMMA AppendFacts ==
    ASSUME NEW T, NEW s \in Seq(T), NEW e \in T
    PROVE  /\ Append(s, e) \in Seq(T) /\ Len(Append(s, e)) = Len(s) + 1
           /\ \A i \in 1..Len(s) : Append(s, e)[i] = s[i]
           /\ Append(s, e)[Len(s) + 1] = e
  OBVIOUS

LEMMA AppendToOne ==
    ASSUME NEW a, NEW b
    PROVE  Append(<<a>>, b) = <<a, b>>
<1> DEFINE T == {a, b}
           one == <<a>>
           both == <<a, b>>
<1>1. one \in Seq(T) /\ Len(one) = 1 /\ one[1] = a /\ b \in T
  OBVIOUS
<1>2. both \in Seq(T) /\ Len(both) = 2 /\ both[1] = a /\ both[2] = b
  OBVIOUS
<1> HIDE DEF T, one, both
<1> DEFINE q == Append(one, b)
<1>3. q \in Seq(T) /\ Len(q) = 2 /\ q[1] = a /\ q[2] = b
  <2>1. /\ q \in Seq(T) /\ Len(q) = Len(one) + 1
        /\ \A i \in 1..Len(one) : q[i] = one[i]
        /\ q[Len(one) + 1] = b
    BY <1>1, AppendFacts
  <2>2. QED
    BY <1>1, <2>1
<1> HIDE DEF q
<1>4. q = both
  <2>1. DOMAIN q = 1..2 /\ DOMAIN both = 1..2
    BY <1>2, <1>3
  <2>2. \A i \in 1..2 : q[i] = both[i]
    BY <1>2, <1>3
  <2>3. QED
    BY <1>2, <1>3, <2>1, <2>2
<1>5. QED
  BY <1>4 DEF one, both, q

\* sqlparser_sqlserver_output_process_clause and join_returning: the channels
\* of a clause tile the targets the parser is given.
LEMMA ClauseFacts ==
    ASSUME NEW clause \in Clause, IsWritten(clause), Len(clause) <= 2
    PROVE  /\ Channels(clause) \in Seq(Channel) /\ Len(Channels(clause)) = Len(clause)
           /\ Joined(clause) \in Seq(Target)
           /\ Tiles(Channels(clause), Len(Joined(clause)))
<1> DEFINE lists == [c \in DOMAIN clause |-> ParserTargets(clause[c].targets)]
           n(c) == Len(clause[c].targets)
<1>1. DOMAIN clause = 1..Len(clause) /\ Len(clause) \in Nat
  BY DEF Clause
<1>2. ASSUME NEW c \in DOMAIN clause
      PROVE  /\ lists[c] \in Seq(Target) /\ Len(lists[c]) = n(c)
             /\ NewChannel(clause[c]) \in Channel /\ NewChannel(clause[c]).count = n(c)
             /\ NewChannel(clause[c]).offset = 0 /\ n(c) \in Nat /\ n(c) > 0
             /\ DOMAIN NewChannel(clause[c]).actions \subseteq 1..n(c)
  <2>1. /\ clause[c].sink \in Sink /\ clause[c].columns \in Seq(STRING)
        /\ clause[c].targets \in Seq(Target) /\ clause[c].targets # <<>>
        /\ HasMarker(clause[c].targets)
    BY ClauseElement
  <2>2. /\ NewChannel(clause[c]) \in Channel /\ NewChannel(clause[c]).count = n(c)
        /\ NewChannel(clause[c]).offset = 0
        /\ NewChannel(clause[c]).count > 0
        /\ DOMAIN NewChannel(clause[c]).actions \subseteq 1..n(c)
    BY <2>1, NewChannelFacts
  <2>3. ParserTargets(clause[c].targets) \in Seq(Target)
        /\ Len(ParserTargets(clause[c].targets)) = Len(clause[c].targets)
    BY <2>1, ParserTargetsFacts
  <2>4. QED
    BY <2>1, <2>2, <2>3
<1>3. lists \in Seq(Seq(Target)) /\ Len(lists) = Len(clause)
  <2> DEFINE T == Seq(Target)
  <2>1. \A c \in 1..Len(clause) : lists[c] \in T
    BY <1>1, <1>2
  <2> HIDE DEF T
  <2>2. lists \in Seq(T) /\ Len(lists) = Len(clause)
    BY <1>1, <2>1
  <2>3. QED
    BY <2>2 DEF T
<1>4. Joined(clause) = FlattenSeq(lists) /\ DOMAIN lists = DOMAIN clause
  BY DEF Joined
<1> HIDE DEF lists, n
<1>5. CASE Len(clause) = 0
  <2>1. lists = <<>> /\ FlattenSeq(lists) = <<>>
    BY <1>3, <1>5 DEF FlattenSeq
  <2>2. Channels(clause) = <<>>
    BY <1>5 DEF Channels
  <2>3. Joined(clause) = <<>>
    BY <1>4, <2>1
  <2>4. QED
    BY <1>5, <2>2, <2>3 DEF Tiles
<1> DEFINE x == NewChannel(clause[1])
           y == NewChannel(clause[2])
<1>6. CASE Len(clause) = 1
  <2>1. 1 \in DOMAIN clause /\ lists # <<>> /\ Len(lists) = 1
    <3>1. 1 \in DOMAIN clause
      BY <1>1, <1>6
    <3>2. lists # <<>>
      BY <1>4, <3>1
    <3>3. QED
      BY <1>3, <1>6, <3>1, <3>2
  <2>2. FlattenSeq(lists) = lists[1]
    <3>1. PICK f : f[1] = lists[1] /\ FlattenSeq(lists) = f[Len(lists)]
      BY <1>3, <2>1, FlattenFacts
    <3>2. QED
      BY <2>1, <3>1
  <2>3. x \in Channel /\ x.offset = 0 /\ x.count = n(1) /\ n(1) \in Nat /\ n(1) > 0
        /\ DOMAIN x.actions \subseteq 1..n(1) /\ lists[1] \in Seq(Target) /\ Len(lists[1]) = n(1)
    BY <1>2, <2>1
  <2> HIDE DEF x
  <2>4. Channels(clause) = <<[x EXCEPT !.offset = 0]>>
    BY <1>6 DEF Channels, AddChannel, x
  <2>5. [x EXCEPT !.offset = 0] = x
    BY <2>3 DEF Channel
  <2>6. Channels(clause) = <<x>>
    BY <2>4, <2>5
  <2>7. Tiles(<<x>>, n(1))
    BY <2>3 DEF Tiles
  <2>8. QED
    BY <1>4, <1>6, <2>2, <2>3, <2>6, <2>7
<1>7. CASE Len(clause) = 2
  <2>1. 1 \in DOMAIN clause /\ 2 \in DOMAIN clause /\ lists # <<>> /\ Len(lists) = 2
    <3>1. 1 \in DOMAIN clause /\ 2 \in DOMAIN clause
      BY <1>1, <1>7
    <3>2. lists # <<>>
      BY <1>4, <3>1
    <3>3. QED
      BY <1>3, <1>7, <3>1, <3>2
  <2>2. FlattenSeq(lists) = lists[1] \o lists[2]
    <3>1. PICK f : /\ f[1] = lists[1]
                   /\ \A i \in 2..Len(lists) : f[i] = f[i - 1] \o lists[i]
                   /\ FlattenSeq(lists) = f[Len(lists)]
      BY <1>3, <2>1, FlattenFacts
    <3>2. 2 \in 2..Len(lists) /\ 2 - 1 = 1
      BY <2>1
    <3>3. f[2] = f[2 - 1] \o lists[2]
      BY <3>1, <3>2
    <3>4. QED
      BY <2>1, <3>1, <3>2, <3>3
  <2>3. /\ x \in Channel /\ x.offset = 0 /\ x.count = n(1) /\ n(1) \in Nat /\ n(1) > 0
        /\ DOMAIN x.actions \subseteq 1..n(1) /\ lists[1] \in Seq(Target) /\ Len(lists[1]) = n(1)
    BY <1>2, <2>1
  <2>4. /\ y \in Channel /\ y.count = n(2) /\ n(2) \in Nat /\ n(2) > 0
        /\ DOMAIN y.actions \subseteq 1..n(2) /\ lists[2] \in Seq(Target) /\ Len(lists[2]) = n(2)
    BY <1>2, <2>1
  <2> DEFINE first == [x EXCEPT !.offset = 0]
             second == [y EXCEPT !.offset = first.offset + first.count]
  <2> HIDE DEF x, y
  <2>5. first = x /\ second = [y EXCEPT !.offset = n(1)]
    BY <2>3 DEF Channel
  <2>6. second \in Channel /\ second.offset = n(1) /\ second.count = n(2)
        /\ DOMAIN second.actions \subseteq 1..n(2)
    BY <2>3, <2>4, <2>5 DEF Channel
  <2>7. AddChannel(<<>>, x) = <<first>>
    BY DEF AddChannel
  <2>8. AddChannel(<<first>>, y) = <<first, second>>
    <3> DEFINE one == <<first>>
    <3>1. one # <<>> /\ Len(one) = 1 /\ one[1] = first
      OBVIOUS
    <3> HIDE DEF first, second
    <3>2. Append(one, second) = <<first, second>>
      BY AppendToOne
    <3> HIDE DEF one
    <3> USE DEF second
    <3>3. AddChannel(one, y) = Append(one, second)
      BY <3>1 DEF AddChannel
    <3>4. QED
      BY <3>2, <3>3 DEF one
  <2>9. Channels(clause) = <<first, second>>
    BY <1>7, <2>7, <2>8 DEF Channels, x, y
  <2> HIDE DEF first, second
  <2>10. Channels(clause) \in Seq(Channel) /\ Len(Channels(clause)) = 2
    BY <2>3, <2>5, <2>6, <2>9
  <2>11. Tiles(<<first, second>>, n(1) + n(2))
    <3> DEFINE both == <<first, second>>
    <3>1. both # <<>> /\ Len(both) = 2 /\ DOMAIN both = {1, 2}
          /\ both[1] = first /\ both[2] = second
      OBVIOUS
    <3> HIDE DEF both
    <3>2. both[1].offset = 0 /\ both[1].count = n(1) /\ n(1) > 0
          /\ DOMAIN both[1].actions \subseteq 1..both[1].count
      BY <2>3, <2>5, <3>1
    <3>3. both[2].offset = n(1) /\ both[2].count = n(2) /\ n(2) > 0
          /\ DOMAIN both[2].actions \subseteq 1..both[2].count
      BY <2>4, <2>6, <3>1
    <3>4. n(1) = 0 + n(1) /\ 2 - 1 = 1 /\ 2 # 1
      BY <2>3
    <3>5. Tiles(both, n(1) + n(2))
      BY <3>1, <3>2, <3>3, <3>4 DEF Tiles
    <3>6. QED
      BY <3>5 DEF both
  <2>12. lists[1] \o lists[2] \in Seq(Target) /\ Len(lists[1] \o lists[2]) = n(1) + n(2)
    <3> DEFINE p == lists[1]
               q == lists[2]
    <3>1. p \in Seq(Target) /\ q \in Seq(Target) /\ Len(p) = n(1) /\ Len(q) = n(2)
      BY <2>3, <2>4
    <3> HIDE DEF p, q
    <3>2. p \o q \in Seq(Target) /\ Len(p \o q) = Len(p) + Len(q)
      BY <3>1, ConcatFacts
    <3>3. QED
      BY <3>1, <3>2 DEF p, q
  <2>13. QED
    BY <1>4, <1>7, <2>2, <2>9, <2>10, <2>11, <2>12
<1>8. QED
  BY <1>1, <1>5, <1>6, <1>7

-----------------------------------------------------------------------------
(* The two passes over the SQL.                                            *)

\* Statements that the passes accept.
WellWritten(statements) ==
    /\ statements \in Seq(Texts)
    /\ \A s \in DOMAIN statements :
           /\ IsWritten(statements[s].clause) /\ Len(statements[s].clause) <= 2
           /\ \A j \in DOMAIN statements[s].inner :
                  /\ IsWritten(statements[s].inner[j].clause)
                  /\ Len(statements[s].inner[j].clause) <= 2

LEMMA StatementFacts ==
    ASSUME NEW statements, WellWritten(statements), NEW s \in DOMAIN statements
    PROVE  /\ s \in Nat /\ statements[s].kind \in STRING /\ statements[s].clause \in Clause
           /\ IsWritten(statements[s].clause) /\ Len(statements[s].clause) <= 2
           /\ DOMAIN statements[s].inner = 1..Len(statements[s].inner)
           /\ Len(statements[s].inner) \in Nat
           /\ \A j \in DOMAIN statements[s].inner :
                  /\ statements[s].inner[j].kind \in STRING
                  /\ statements[s].inner[j].clause \in Clause
                  /\ IsWritten(statements[s].inner[j].clause)
                  /\ Len(statements[s].inner[j].clause) <= 2
<1>1. statements \in Seq(Texts)
  BY DEF WellWritten
<1>2. s \in Nat /\ statements[s] \in Texts
  BY <1>1
<1> DEFINE inner == statements[s].inner
           E == [kind : STRING, clause : Clause]
<1>3. statements[s].kind \in STRING /\ statements[s].clause \in Clause /\ inner \in Seq(E)
  BY <1>2 DEF Texts
<1> HIDE DEF E, inner
<1>4. DOMAIN inner = 1..Len(inner) /\ Len(inner) \in Nat /\ \A j \in DOMAIN inner : inner[j] \in E
  BY <1>3
<1>5. \A j \in DOMAIN inner : inner[j].kind \in STRING /\ inner[j].clause \in Clause
  BY <1>4 DEF E
<1>6. QED
  BY <1>2, <1>3, <1>4, <1>5 DEF WellWritten, inner

\* sqlparser_sqlserver_output_nested_name: numbers, and different ones for
\* the DMLs of a statement.
LEMMA NamesFacts ==
    ASSUME NEW statements, WellWritten(statements), NEW s \in DOMAIN statements
    PROVE  /\ \A j \in Nat : NameOf(statements, s, j) \in Nat
           /\ \A j, k \in Nat : NameOf(statements, s, j) = NameOf(statements, s, k) => j = k
<1> DEFINE earlier == UNION {{r} \X DOMAIN statements[r].inner : r \in 1..s - 1}
<1>1. statements \in Seq(Texts)
  BY DEF WellWritten
<1>2. s \in Nat /\ DOMAIN statements = 1..Len(statements) /\ Len(statements) \in Nat
      /\ s <= Len(statements)
  BY <1>1
<1>3. \A r \in 1..s - 1 : r \in DOMAIN statements
  BY <1>2
<1>4. \A r \in 1..s - 1 : IsFiniteSet({r} \X DOMAIN statements[r].inner)
  <2> TAKE r \in 1..s - 1
  <2> DEFINE D == DOMAIN statements[r].inner
             size == Len(statements[r].inner)
  <2>1. D = 1..size /\ size \in Nat
    BY <1>3, StatementFacts
  <2> HIDE DEF D, size
  <2>2. IsFiniteSet(D) /\ IsFiniteSet({r})
    <3>1. 1 \in Int /\ size \in Int
      BY <2>1
    <3>2. IsFiniteSet(1..size)
      BY <3>1, FS_Interval
    <3>3. QED
      BY <2>1, <3>2, FS_Singleton
  <2>3. IsFiniteSet({r} \X D)
    BY <2>2, FS_Product
  <2>4. QED
    BY <2>3 DEF D
<1> DEFINE sets == {{r} \X DOMAIN statements[r].inner : r \in 1..s - 1}
<1>5. IsFiniteSet(sets)
  <2> DEFINE P == 1..s - 1
             last == s - 1
             f == [r \in P |-> {r} \X DOMAIN statements[r].inner]
  <2>1. 1 \in Int /\ last \in Int /\ P = 1..last
    BY <1>2
  <2>2. f \in Surjection(P, sets)
    BY DEF Surjection
  <2> HIDE DEF P, last, f, sets
  <2>3. IsFiniteSet(P)
    BY <2>1, FS_Interval
  <2>4. QED
    BY <2>2, <2>3, FS_Surjection
<1>6. \A S \in sets : IsFiniteSet(S)
  BY <1>4
<1> HIDE DEF sets
<1>7. IsFiniteSet(UNION sets)
  BY <1>5, <1>6, FS_UNION
<1>8. Cardinality(earlier) \in Nat
  BY <1>7, FS_CardinalityType DEF sets
<1>9. \A j : NameOf(statements, s, j) = Cardinality(earlier) + j
  BY DEF NameOf
<1> HIDE DEF earlier
<1>10. QED
  BY <1>8, <1>9

\* The DML at an ordinal of a statement, as the first pass finds it and as
\* the second leaves it.
FoundDml(statements, s, k) ==
    IF k = 1 THEN Dml(statements[s].kind, s, None, <<>>)
    ELSE Dml(statements[s].inner[k - 1].kind, s, NameOf(statements, s, k - 1),
             Channels(statements[s].inner[k - 1].clause))
FullDml(statements, s, k) ==
    IF k = 1 THEN Dml(statements[s].kind, s, None, Channels(statements[s].clause))
    ELSE FoundDml(statements, s, k)

LEMMA DmlIntro ==
    ASSUME NEW kind \in STRING, NEW s \in Nat, NEW name \in Nat \cup {None},
           NEW channels \in Seq(Channel)
    PROVE  /\ Dml(kind, s, name, channels) \in DmlRecord
           /\ Dml(kind, s, name, channels).kind = kind
           /\ Dml(kind, s, name, channels).statement = s
           /\ Dml(kind, s, name, channels).name = name
           /\ Dml(kind, s, name, channels).channels = channels
BY DEF Dml, DmlRecord

LEMMA FoundDmlFacts ==
    ASSUME NEW statements, WellWritten(statements), NEW s \in DOMAIN statements,
           NEW k \in 1..Len(statements[s].inner) + 1
    PROVE  /\ FoundDml(statements, s, k) \in DmlRecord
           /\ FoundDml(statements, s, k).statement = s
           /\ FoundDml(statements, s, k).name = None <=> k = 1
           /\ FullDml(statements, s, k) \in DmlRecord
           /\ FullDml(statements, s, k).statement = s
<1> DEFINE top == statements[s]
           dml == top.inner[k - 1]
<1>1. /\ s \in Nat /\ top.kind \in STRING /\ top.clause \in Clause
      /\ IsWritten(top.clause) /\ Len(top.clause) <= 2
      /\ DOMAIN top.inner = 1..Len(top.inner) /\ Len(top.inner) \in Nat
  BY StatementFacts
<1>2. Channels(top.clause) \in Seq(Channel) /\ <<>> \in Seq(Channel)
  BY <1>1, ClauseFacts
<1>3. k # 1 => k - 1 \in DOMAIN top.inner /\ k - 1 \in Nat
  BY <1>1
<1>4. CASE k = 1
  <2> DEFINE kind == top.kind
             name == None
             none == <<>>
             channels == Channels(top.clause)
  <2>1. FoundDml(statements, s, k) = Dml(kind, s, name, none)
        /\ FullDml(statements, s, k) = Dml(kind, s, name, channels)
    BY <1>4 DEF FoundDml, FullDml
  <2>2. kind \in STRING /\ none \in Seq(Channel) /\ channels \in Seq(Channel) /\ s \in Nat
        /\ name \in Nat \cup {None} /\ name = None
    BY <1>1, <1>2
  <2> HIDE DEF kind, name, none, channels
  <2>3. /\ Dml(kind, s, name, none) \in DmlRecord /\ Dml(kind, s, name, none).statement = s
        /\ Dml(kind, s, name, none).name = name
    BY <2>2, DmlIntro
  <2>4. Dml(kind, s, name, channels) \in DmlRecord /\ Dml(kind, s, name, channels).statement = s
    BY <2>2, DmlIntro
  <2>5. QED
    BY <1>4, <2>1, <2>2, <2>3, <2>4
<1>5. CASE k # 1
  <2> DEFINE name == NameOf(statements, s, k - 1)
             channels == Channels(dml.clause)
             kind == dml.kind
  <2>1. kind \in STRING /\ channels \in Seq(Channel)
    <3>1. /\ dml.kind \in STRING /\ dml.clause \in Clause
          /\ IsWritten(dml.clause) /\ Len(dml.clause) <= 2
      BY <1>3, <1>5, StatementFacts
    <3>2. QED
      BY <3>1, ClauseFacts
  <2>2. name \in Nat /\ name # None
    <3>1. name \in Nat
      BY <1>3, <1>5, NamesFacts
    <3>2. QED
      BY <3>1, NoneAssumption
  <2>3. /\ FoundDml(statements, s, k) = Dml(kind, s, name, channels)
        /\ FullDml(statements, s, k) = Dml(kind, s, name, channels)
    BY <1>5 DEF FoundDml, FullDml
  <2> HIDE DEF name, channels, kind
  <2>4. QED
    BY <1>1, <1>5, <2>1, <2>2, <2>3, DmlIntro
<1>6. QED
  BY <1>4, <1>5

-----------------------------------------------------------------------------
\* Ordinals when DMLs are added behind others.

LEMMA OrdinalsBefore ==
    ASSUME NEW p \in Seq(DmlRecord), NEW q \in Seq(DmlRecord), NEW g \in DOMAIN p,
           \A j \in DOMAIN q : q[j].statement # p[g].statement
    PROVE  Ordinal(p \o q, g) = Ordinal(p, g) /\ (p \o q)[g] = p[g]
<1> DEFINE all == p \o q
<1>1. /\ all \in Seq(DmlRecord) /\ Len(all) = Len(p) + Len(q)
      /\ \A j \in 1..(Len(p) + Len(q)) : all[j] = IF j <= Len(p) THEN p[j] ELSE q[j - Len(p)]
  BY ConcatFacts
<1>2. /\ DOMAIN p = 1..Len(p) /\ DOMAIN q = 1..Len(q) /\ Len(p) \in Nat /\ Len(q) \in Nat
      /\ DOMAIN all = 1..(Len(p) + Len(q))
  BY <1>1
<1> HIDE DEF all
<1>3. \A h \in DOMAIN p : h \in DOMAIN all /\ all[h] = p[h]
  BY <1>1, <1>2
<1>4. ASSUME NEW h \in DOMAIN all, all[h].statement = all[g].statement PROVE h \in DOMAIN p
  <2>1. SUFFICES ASSUME ~(h <= Len(p)) PROVE FALSE
    BY <1>2
  <2>2. h - Len(p) \in DOMAIN q /\ all[h] = q[h - Len(p)]
    BY <1>1, <1>2, <2>1
  <2>3. QED
    BY <1>3, <1>4, <2>2
<1>5. Siblings(all, g) = Siblings(p, g)
  BY <1>3, <1>4 DEF Siblings
<1>6. Ordinal(all, g) = Ordinal(p, g) /\ all[g] = p[g]
  BY <1>3, <1>5 DEF Ordinal
<1>7. QED
  BY <1>6 DEF all

LEMMA OrdinalsBehind ==
    ASSUME NEW p \in Seq(DmlRecord), NEW q \in Seq(DmlRecord), NEW j \in DOMAIN q,
           \A h \in DOMAIN p : p[h].statement # q[j].statement
    PROVE  /\ (p \o q)[Len(p) + j] = q[j]
           /\ (\A k \in DOMAIN q : q[k].statement = q[j].statement)
                  => Ordinal(p \o q, Len(p) + j) = j
           /\ (\A k \in DOMAIN q : q[k].statement = q[j].statement => k = j)
                  => Ordinal(p \o q, Len(p) + j) = 1
<1> DEFINE all == p \o q
           g == Len(p) + j
<1>1. /\ all \in Seq(DmlRecord) /\ Len(all) = Len(p) + Len(q)
      /\ \A i \in 1..(Len(p) + Len(q)) : all[i] = IF i <= Len(p) THEN p[i] ELSE q[i - Len(p)]
  BY ConcatFacts
<1>2. /\ DOMAIN p = 1..Len(p) /\ DOMAIN q = 1..Len(q) /\ Len(p) \in Nat /\ Len(q) \in Nat
      /\ DOMAIN all = 1..(Len(p) + Len(q)) /\ j \in 1..Len(q)
  BY <1>1
<1>3. g \in DOMAIN all /\ g \in Nat /\ ~(g <= Len(p)) /\ g - Len(p) = j
  BY <1>2
<1> HIDE DEF all, g
<1>4. all[g] = q[j]
  BY <1>1, <1>2, <1>3
<1>5. ASSUME NEW h \in DOMAIN all, all[h].statement = q[j].statement
      PROVE  ~(h <= Len(p)) /\ h - Len(p) \in DOMAIN q /\ all[h] = q[h - Len(p)]
  <2>1. ~(h <= Len(p))
    <3>1. SUFFICES ASSUME h <= Len(p) PROVE FALSE
      OBVIOUS
    <3>2. h \in DOMAIN p /\ all[h] = p[h]
      BY <1>1, <1>2, <3>1
    <3>3. QED
      BY <1>5, <3>2
  <2>2. QED
    BY <1>1, <1>2, <2>1
<1>6. ASSUME \A k \in DOMAIN q : q[k].statement = q[j].statement
      PROVE  Ordinal(all, g) = j
  <2> DEFINE first == Len(p) + 1
  <2>1. UpTo(Siblings(all, g), g) = first..g
    <3>1. ASSUME NEW h \in first..g PROVE h \in Siblings(all, g) /\ h <= g
      <4>1. h \in DOMAIN all /\ ~(h <= Len(p)) /\ h <= g /\ h - Len(p) \in DOMAIN q
        BY <1>2, <1>3
      <4>2. all[h] = q[h - Len(p)]
        BY <1>1, <1>2, <4>1
      <4>3. QED
        BY <1>4, <1>6, <4>1, <4>2 DEF Siblings
    <3>2. ASSUME NEW h \in Siblings(all, g), h <= g PROVE h \in first..g
      <4>1. h \in DOMAIN all /\ all[h].statement = q[j].statement
        BY <1>4 DEF Siblings
      <4>2. ~(h <= Len(p)) /\ h \in Nat
        BY <1>2, <1>5, <4>1
      <4>3. QED
        BY <1>2, <1>3, <3>2, <4>2
    <3>3. QED
      BY <3>1, <3>2 DEF UpTo
  <2>2. first \in Int /\ g \in Int /\ ~(first > g) /\ g - first + 1 = j
    BY <1>2, <1>3
  <2> HIDE DEF first
  <2>3. Cardinality(first..g) = j
    BY <2>2, FS_Interval
  <2>4. QED
    BY <2>1, <2>3 DEF Ordinal
<1>7. ASSUME \A k \in DOMAIN q : q[k].statement = q[j].statement => k = j
      PROVE  Ordinal(all, g) = 1
  <2>1. Siblings(all, g) = {g}
    <3>1. ASSUME NEW h \in DOMAIN all, all[h].statement = all[g].statement PROVE h = g
      <4>1. ~(h <= Len(p)) /\ h - Len(p) \in DOMAIN q /\ all[h] = q[h - Len(p)]
        BY <1>4, <1>5, <3>1
      <4>2. h - Len(p) = j
        BY <1>4, <1>7, <3>1, <4>1
      <4>3. QED
        BY <1>2, <1>3, <4>2
    <3>2. QED
      BY <1>3, <3>1 DEF Siblings
  <2>2. UpTo({g}, g) = {g}
    BY <1>3 DEF UpTo
  <2>3. QED
    BY <2>1, <2>2, FS_Singleton DEF Ordinal
<1>8. QED
  BY <1>4, <1>6, <1>7 DEF all, g

-----------------------------------------------------------------------------
\* What the first pass has found: DMLs of statements that have nested ones.
FoundTo(statements, q, i) ==
    /\ q \in Seq(DmlRecord)
    /\ \A g \in DOMAIN q :
           /\ q[g].statement \in DOMAIN statements /\ q[g].statement \in 1..i
           /\ statements[q[g].statement].inner # <<>>
           /\ Ordinal(q, g) \in 1..Len(statements[q[g].statement].inner) + 1
           /\ q[g] = FoundDml(statements, q[g].statement, Ordinal(q, g))

\* The DMLs of one statement.
Block(statements, s) ==
    IF statements[s].inner = <<>> THEN <<>>
    ELSE <<Dml(statements[s].kind, s, None, <<>>)>>
         \o [j \in DOMAIN statements[s].inner |->
                Dml(statements[s].inner[j].kind, s, NameOf(statements, s, j),
                    Channels(statements[s].inner[j].clause))]

LEMMA BlockFacts ==
    ASSUME NEW statements, WellWritten(statements), NEW s \in DOMAIN statements
    PROVE  /\ Block(statements, s) \in Seq(DmlRecord)
           /\ statements[s].inner = <<>> => Block(statements, s) = <<>>
           /\ \A k \in DOMAIN Block(statements, s) :
                  /\ k \in 1..Len(statements[s].inner) + 1
                  /\ Block(statements, s)[k] = FoundDml(statements, s, k)
<1> DEFINE inner == statements[s].inner
           block == Block(statements, s)
           head == <<Dml(statements[s].kind, s, None, <<>>)>>
           rest == [j \in DOMAIN inner |->
                       Dml(inner[j].kind, s, NameOf(statements, s, j), Channels(inner[j].clause))]
<1>1. DOMAIN inner = 1..Len(inner) /\ Len(inner) \in Nat
  BY StatementFacts
<1>2. inner = <<>> => block = <<>> /\ block \in Seq(DmlRecord)
  BY DEF Block
<1>3. CASE inner # <<>>
  <2>1. block = head \o rest
    BY <1>3 DEF Block
  <2>2. 1 \in 1..Len(inner) + 1 /\ head = <<FoundDml(statements, s, 1)>>
    BY <1>1 DEF FoundDml
  <2>3. FoundDml(statements, s, 1) \in DmlRecord
    BY <2>2, FoundDmlFacts
  <2>4. head \in Seq(DmlRecord) /\ Len(head) = 1 /\ head[1] = FoundDml(statements, s, 1)
    BY <2>2, <2>3
  <2>5. ASSUME NEW j \in DOMAIN inner
        PROVE  rest[j] = FoundDml(statements, s, j + 1) /\ rest[j] \in DmlRecord
               /\ j + 1 \in 1..Len(inner) + 1
    <3>1. j + 1 \in 1..Len(inner) + 1 /\ j + 1 # 1 /\ (j + 1) - 1 = j
      BY <1>1
    <3>2. rest[j] = FoundDml(statements, s, j + 1)
      BY <3>1 DEF FoundDml
    <3>3. FoundDml(statements, s, j + 1) \in DmlRecord
      BY <3>1, FoundDmlFacts
    <3>4. QED
      BY <3>1, <3>2, <3>3
  <2>6. rest = [j \in 1..Len(inner) |-> rest[j]]
    BY <1>1
  <2> HIDE DEF head, rest, block, inner
  <2>7. rest \in Seq(DmlRecord) /\ Len(rest) = Len(inner)
    <3>1. \A j \in 1..Len(inner) : rest[j] \in DmlRecord
      BY <1>1, <2>5
    <3>2. QED
      BY <1>1, <2>6, <3>1
  <2>8. /\ head \o rest \in Seq(DmlRecord) /\ Len(head \o rest) = 1 + Len(inner)
        /\ \A k \in 1..(1 + Len(inner)) :
               (head \o rest)[k] = IF k <= 1 THEN head[k] ELSE rest[k - 1]
    <3>1. /\ head \o rest \in Seq(DmlRecord) /\ Len(head \o rest) = Len(head) + Len(rest)
          /\ \A k \in 1..(Len(head) + Len(rest)) :
                 (head \o rest)[k] = IF k <= Len(head) THEN head[k] ELSE rest[k - Len(head)]
      BY <2>4, <2>7, ConcatFacts
    <3>2. QED
      BY <2>4, <2>7, <3>1
  <2>9. DOMAIN block = 1..(1 + Len(inner)) /\ block \in Seq(DmlRecord)
    BY <2>1, <2>8
  <2>10. ASSUME NEW k \in DOMAIN block
         PROVE  k \in 1..Len(inner) + 1 /\ block[k] = FoundDml(statements, s, k)
    <3>1. k \in 1..(1 + Len(inner)) /\ k \in 1..Len(inner) + 1
      BY <1>1, <2>9
    <3>2. CASE k = 1
      BY <2>1, <2>4, <2>8, <3>1, <3>2
    <3>3. CASE k # 1
      <4>1. ~(k <= 1) /\ k - 1 \in DOMAIN inner /\ (k - 1) + 1 = k
        BY <1>1, <3>1, <3>3
      <4>2. block[k] = rest[k - 1]
        BY <2>1, <2>8, <3>1, <4>1
      <4>3. QED
        BY <2>5, <3>1, <4>1, <4>2
    <3>4. QED
      BY <3>2, <3>3
  <2>11. QED
    BY <1>3, <2>9, <2>10 DEF block, inner
<1>4. QED
  BY <1>2, <1>3

LEMMA FoundFurther ==
    ASSUME NEW statements, WellWritten(statements), NEW i \in Nat,
           i + 1 \in DOMAIN statements, NEW p, FoundTo(statements, p, i)
    PROVE  FoundTo(statements, p \o Block(statements, i + 1), i + 1)
<1> DEFINE s == i + 1
           q == Block(statements, s)
           all == p \o q
<1>1. s \in DOMAIN statements /\ s \in Nat /\ ~(s <= i)
  OBVIOUS
<1> HIDE DEF s
<1>2. /\ q \in Seq(DmlRecord)
      /\ statements[s].inner = <<>> => q = <<>>
      /\ \A k \in DOMAIN q : k \in 1..Len(statements[s].inner) + 1 /\ q[k] = FoundDml(statements, s, k)
  BY <1>1, BlockFacts
<1>3. /\ p \in Seq(DmlRecord)
      /\ \A g \in DOMAIN p :
             /\ p[g].statement \in DOMAIN statements /\ p[g].statement \in 1..i
             /\ statements[p[g].statement].inner # <<>>
             /\ Ordinal(p, g) \in 1..Len(statements[p[g].statement].inner) + 1
             /\ p[g] = FoundDml(statements, p[g].statement, Ordinal(p, g))
  BY DEF FoundTo
<1> HIDE DEF q
<1>4. \A k \in DOMAIN q : q[k].statement = s
  BY <1>1, <1>2, FoundDmlFacts
<1>5. \A g \in DOMAIN p : p[g].statement # s
  BY <1>1, <1>3
<1>6. /\ all \in Seq(DmlRecord) /\ DOMAIN all = 1..(Len(p) + Len(q))
      /\ DOMAIN p = 1..Len(p) /\ DOMAIN q = 1..Len(q) /\ Len(p) \in Nat /\ Len(q) \in Nat
  BY <1>2, <1>3, ConcatFacts
<1>7. ASSUME NEW g \in DOMAIN p PROVE Ordinal(all, g) = Ordinal(p, g) /\ all[g] = p[g]
  <2>1. \A j \in DOMAIN q : q[j].statement # p[g].statement
    BY <1>4, <1>5
  <2>2. QED
    BY <1>2, <1>3, <2>1, OrdinalsBefore
<1>8. ASSUME NEW k \in DOMAIN q
      PROVE  Ordinal(all, Len(p) + k) = k /\ all[Len(p) + k] = q[k]
  <2>1. \A h \in DOMAIN p : p[h].statement # q[k].statement
    BY <1>4, <1>5
  <2>2. \A j \in DOMAIN q : q[j].statement = q[k].statement
    BY <1>4
  <2>3. QED
    BY <1>2, <1>3, <2>1, <2>2, OrdinalsBehind
<1>9. 1..i \subseteq 1..s /\ s \in 1..s
  BY <1>1 DEF s
<1> HIDE DEF all
<1>10. ASSUME NEW g \in DOMAIN all
       PROVE  /\ all[g].statement \in DOMAIN statements /\ all[g].statement \in 1..s
              /\ statements[all[g].statement].inner # <<>>
              /\ Ordinal(all, g) \in 1..Len(statements[all[g].statement].inner) + 1
              /\ all[g] = FoundDml(statements, all[g].statement, Ordinal(all, g))
  <2>1. CASE g \in DOMAIN p
    <3>1. Ordinal(all, g) = Ordinal(p, g) /\ all[g] = p[g]
      BY <1>7, <2>1
    <3>2. QED
      BY <1>3, <1>9, <2>1, <3>1
  <2>2. CASE g \notin DOMAIN p
    <3> DEFINE k == g - Len(p)
    <3>1. k \in DOMAIN q /\ Len(p) + k = g
      BY <1>6, <2>2
    <3> HIDE DEF k
    <3>2. Ordinal(all, g) = k /\ all[g] = q[k]
      BY <1>8, <3>1
    <3>3. all[g].statement = s /\ q # <<>>
      BY <1>4, <3>1, <3>2
    <3>4. QED
      BY <1>1, <1>2, <1>9, <3>1, <3>2, <3>3
  <2>3. QED
    BY <2>1, <2>2
<1>11. FoundTo(statements, all, s)
  BY <1>6, <1>10 DEF FoundTo
<1>12. QED
  BY <1>11 DEF all, q, s

\* sqlparser_sqlserver_output_preprocess_nested
LEMMA NestedPassFinds ==
    ASSUME NEW statements, WellWritten(statements)
    PROVE  FoundTo(statements, NestedPass(statements), Len(statements))
<1> DEFINE n == Len(statements)
           blocks == [s \in DOMAIN statements |-> Block(statements, s)]
           T == Seq(DmlRecord)
<1>1. DOMAIN statements = 1..n /\ n \in Nat
  BY DEF WellWritten
<1>2. NestedPass(statements) = FlattenSeq(blocks)
  BY DEF NestedPass, Block
<1>3. \A s \in 1..n : blocks[s] \in T
  BY <1>1, BlockFacts
<1> HIDE DEF T
<1>4. blocks \in Seq(T) /\ Len(blocks) = n
  BY <1>1, <1>3
<1>5. blocks \in Seq(Seq(DmlRecord)) /\ \A s \in 1..n : blocks[s] = Block(statements, s)
  BY <1>1, <1>4 DEF T
<1> HIDE DEF blocks
<1>6. FoundTo(statements, <<>>, 0)
  BY DEF FoundTo
<1>7. CASE n = 0
  <2>1. blocks = <<>>
    BY <1>4, <1>7
  <2>2. FlattenSeq(blocks) = <<>>
    BY <2>1 DEF FlattenSeq
  <2>3. QED
    BY <1>2, <1>6, <1>7, <2>2
<1>8. CASE n # 0
  <2>1. blocks # <<>> /\ 1 \in 1..n
    BY <1>1, <1>4, <1>8
  <2>2. PICK f : /\ \A i \in 1..n : f[i] \in Seq(DmlRecord)
                 /\ f[1] = blocks[1]
                 /\ \A i \in 2..n : f[i] = f[i - 1] \o blocks[i]
                 /\ FlattenSeq(blocks) = f[n]
    <3>1. \E f : /\ \A i \in 1..Len(blocks) : f[i] \in Seq(DmlRecord)
                 /\ f[1] = blocks[1]
                 /\ \A i \in 2..Len(blocks) : f[i] = f[i - 1] \o blocks[i]
                 /\ FlattenSeq(blocks) = f[Len(blocks)]
      BY <1>5, <2>1, FlattenFacts
    <3>2. Len(blocks) = n
      BY <1>4
    <3>3. QED
      BY <3>1, <3>2
  <2> DEFINE S == {i \in Nat : FoundTo(statements, f[i], i)}
  <2>3. 1 \in S
    <3>1. 0 + 1 \in DOMAIN statements /\ 0 \in Nat /\ 0 + 1 = 1
      BY <1>1, <2>1
    <3>2. FoundTo(statements, <<>> \o Block(statements, 0 + 1), 0 + 1)
      BY <1>6, <3>1, FoundFurther
    <3>3. <<>> \o Block(statements, 1) = Block(statements, 1)
      <4> DEFINE q == Block(statements, 1)
      <4>1. q \in Seq(DmlRecord)
        BY <1>5, <2>1, <2>2
      <4> HIDE DEF q
      <4>2. <<>> \o q = q
        BY <4>1
      <4>3. QED
        BY <4>2 DEF q
    <3>4. f[1] = Block(statements, 1)
      BY <1>5, <2>1, <2>2
    <3>5. QED
      BY <3>1, <3>2, <3>3, <3>4
  <2>4. ASSUME NEW i \in 1..(n - 1), i \in S PROVE i + 1 \in S
    <3>1. i \in Nat /\ i + 1 \in DOMAIN statements /\ i + 1 \in 2..n /\ i + 1 \in 1..n
          /\ (i + 1) - 1 = i /\ FoundTo(statements, f[i], i)
      BY <1>1, <2>4
    <3>2. FoundTo(statements, f[i] \o Block(statements, i + 1), i + 1)
      BY <3>1, FoundFurther
    <3>3. f[i + 1] = f[i] \o Block(statements, i + 1)
      BY <1>5, <2>2, <3>1
    <3>4. FoundTo(statements, f[i + 1], i + 1)
      BY <3>2, <3>3
    <3>5. QED
      BY <3>1, <3>4
  <2>5. 1 \in Int /\ n \in Int /\ 1 <= n
    BY <1>1, <1>8
  <2> HIDE DEF S, n
  <2>6. 1..n \subseteq S
    BY <2>3, <2>4, <2>5, IntervalInduction
  <2>7. n \in S
    BY <2>5, <2>6
  <2>8. QED
    BY <1>2, <2>2, <2>7 DEF S, n
<1>9. QED
  BY <1>7, <1>8

\* The state when both passes are over.
FullTo(statements, ds) ==
    /\ ds \in Seq(DmlRecord)
    /\ \A g \in DOMAIN ds :
           /\ ds[g].statement \in DOMAIN statements
           /\ Ordinal(ds, g) \in 1..Len(statements[ds[g].statement].inner) + 1
           /\ ds[g] = FullDml(statements, ds[g].statement, Ordinal(ds, g))

\* What the second pass makes of the DMLs found, and what it adds.
FilledOf(statements, found) ==
    [g \in DOMAIN found |->
        IF found[g].name = None
        THEN [found[g] EXCEPT !.channels = Channels(statements[found[g].statement].clause)]
        ELSE found[g]]
AddedOf(statements) ==
    {s \in DOMAIN statements : NeedsState(statements[s]) /\ statements[s].inner = <<>>}
AddedDmls(statements) ==
    [n \in 1..Cardinality(AddedOf(statements)) |->
        Dml(statements[Nth(AddedOf(statements), n)].kind, Nth(AddedOf(statements), n), None,
            Channels(statements[Nth(AddedOf(statements), n)].clause))]

LEMMA FilledFacts ==
    ASSUME NEW statements, WellWritten(statements), NEW found, NEW i, FoundTo(statements, found, i)
    PROVE  /\ FilledOf(statements, found) \in Seq(DmlRecord)
           /\ DOMAIN FilledOf(statements, found) = DOMAIN found
           /\ \A g \in DOMAIN found :
                  /\ FilledOf(statements, found)[g]
                         = FullDml(statements, found[g].statement, Ordinal(found, g))
                  /\ FilledOf(statements, found)[g].statement = found[g].statement
<1> DEFINE filled == FilledOf(statements, found)
<1>1. DOMAIN found = 1..Len(found) /\ Len(found) \in Nat
  BY DEF FoundTo
<1>2. ASSUME NEW g \in DOMAIN found
      PROVE  /\ filled[g] = FullDml(statements, found[g].statement, Ordinal(found, g))
             /\ filled[g].statement = found[g].statement /\ filled[g] \in DmlRecord
  <2> DEFINE s == found[g].statement
             k == Ordinal(found, g)
  <2>1. /\ s \in DOMAIN statements /\ k \in 1..Len(statements[s].inner) + 1
        /\ found[g] = FoundDml(statements, s, k)
    BY DEF FoundTo
  <2>2. filled[g] = IF found[g].name = None
                    THEN [found[g] EXCEPT !.channels = Channels(statements[s].clause)]
                    ELSE found[g]
    BY DEF FilledOf
  <2> HIDE DEF s, k, filled
  <2>3. /\ FoundDml(statements, s, k).name = None <=> k = 1
        /\ FullDml(statements, s, k) \in DmlRecord
        /\ FullDml(statements, s, k).statement = s
    BY <2>1, FoundDmlFacts
  <2>4. filled[g] = FullDml(statements, s, k)
    <3>1. CASE k = 1
      <4>1. found[g] = Dml(statements[s].kind, s, None, <<>>)
        BY <2>1, <3>1 DEF FoundDml
      <4>2. filled[g] = [found[g] EXCEPT !.channels = Channels(statements[s].clause)]
        BY <2>1, <2>2, <2>3, <3>1
      <4> DEFINE channels == Channels(statements[s].clause)
                 kind == statements[s].kind
      <4> HIDE DEF channels, kind
      <4>3. [Dml(kind, s, None, <<>>) EXCEPT !.channels = channels] = Dml(kind, s, None, channels)
        BY DEF Dml
      <4>4. filled[g] = Dml(kind, s, None, channels)
        BY <4>1, <4>2, <4>3 DEF channels, kind
      <4>5. QED
        BY <3>1, <4>4 DEF FullDml, channels, kind
    <3>2. CASE k # 1
      BY <2>1, <2>2, <2>3, <3>2 DEF FullDml
    <3>3. QED
      BY <3>1, <3>2
  <2>5. QED
    BY <2>3, <2>4 DEF s, k
<1>3. filled = [g \in 1..Len(found) |-> filled[g]]
  BY <1>1 DEF FilledOf
<1>4. \A g \in 1..Len(found) : filled[g] \in DmlRecord
  BY <1>1, <1>2
<1>5. DOMAIN filled = DOMAIN found
  BY DEF FilledOf
<1> HIDE DEF filled
<1>6. filled \in Seq(DmlRecord)
  BY <1>1, <1>3, <1>4
<1>7. QED
  BY <1>2, <1>5, <1>6 DEF filled

LEMMA AddedFacts ==
    ASSUME NEW statements, WellWritten(statements)
    PROVE  /\ AddedDmls(statements) \in Seq(DmlRecord)
           /\ \A k \in DOMAIN AddedDmls(statements) :
                  /\ AddedDmls(statements)[k].statement \in AddedOf(statements)
                  /\ AddedDmls(statements)[k]
                         = FullDml(statements, AddedDmls(statements)[k].statement, 1)
           /\ \A j, k \in DOMAIN AddedDmls(statements) :
                  AddedDmls(statements)[j].statement = AddedDmls(statements)[k].statement => j = k
<1> DEFINE S == AddedOf(statements)
           size == Cardinality(S)
           added == AddedDmls(statements)
<1>1. DOMAIN statements = 1..Len(statements) /\ Len(statements) \in Nat
  BY DEF WellWritten
<1>2. S \in SUBSET Nat /\ IsFiniteSet(S) /\ size \in Nat /\ S \subseteq DOMAIN statements
  <2>1. IsFiniteSet(1..Len(statements))
    <3>1. 1 \in Int /\ Len(statements) \in Int
      BY <1>1
    <3>2. QED
      BY <3>1, FS_Interval
  <2>2. S \in SUBSET (1..Len(statements))
    BY <1>1 DEF AddedOf
  <2> HIDE DEF S
  <2>3. IsFiniteSet(S)
    BY <2>1, <2>2, FS_Subset
  <2>4. size \in Nat
    BY <2>3, FS_CardinalityType
  <2>5. QED
    BY <1>1, <2>2, <2>3, <2>4
<1>3. added = [n \in 1..size |-> added[n]] /\ DOMAIN added = 1..size
  BY DEF AddedDmls
<1>4. ASSUME NEW n \in 1..size
      PROVE  /\ Nth(S, n) \in S /\ Cardinality(UpTo(S, Nth(S, n))) = n
             /\ added[n] = FullDml(statements, Nth(S, n), 1)
             /\ added[n] \in DmlRecord /\ added[n].statement = Nth(S, n)
  <2> DEFINE s == Nth(S, n)
  <2>1. added[n] = Dml(statements[s].kind, s, None, Channels(statements[s].clause))
    BY DEF AddedDmls
  <2> HIDE DEF S
  <2>2. s \in S /\ Cardinality(UpTo(S, s)) = n
    BY <1>2, NthFacts
  <2>3. s \in DOMAIN statements
    BY <1>2, <2>2
  <2>4. added[n] = FullDml(statements, s, 1)
    BY <2>1 DEF FullDml
  <2>5. 1 \in 1..Len(statements[s].inner) + 1
    BY <2>3, StatementFacts
  <2> HIDE DEF s, added
  <2>6. FullDml(statements, s, 1) \in DmlRecord /\ FullDml(statements, s, 1).statement = s
    BY <2>3, <2>5, FoundDmlFacts
  <2>7. QED
    BY <2>2, <2>4, <2>6 DEF s
<1> HIDE DEF added, S
<1>5. added \in Seq(DmlRecord)
  <2>1. \A n \in 1..size : added[n] \in DmlRecord
    BY <1>4
  <2>2. QED
    BY <1>2, <1>3, <2>1
<1>6. ASSUME NEW k \in DOMAIN added
      PROVE  added[k].statement \in S /\ added[k] = FullDml(statements, added[k].statement, 1)
  BY <1>3, <1>4
<1>7. ASSUME NEW j \in DOMAIN added, NEW k \in DOMAIN added, added[j].statement = added[k].statement
      PROVE  j = k
  <2>1. Nth(S, j) = Nth(S, k)
    BY <1>3, <1>4, <1>7
  <2>2. Cardinality(UpTo(S, Nth(S, j))) = j /\ Cardinality(UpTo(S, Nth(S, k))) = k
    BY <1>3, <1>4
  <2>3. QED
    BY <2>1, <2>2
<1>8. QED
  BY <1>5, <1>6, <1>7 DEF added, S

\* sqlparser_sqlserver_output_process_statement, over all statements.
LEMMA OutputStateIsFull ==
    ASSUME NEW statements, WellWritten(statements)
    PROVE  FullTo(statements, OutputState(statements))
<1> DEFINE found == NestedPass(statements)
           p == FilledOf(statements, found)
           q == AddedDmls(statements)
           all == p \o q
<1>1. OutputState(statements) = all
  BY DEF OutputState, StatementPass, FilledOf, AddedDmls, AddedOf
<1>2. FoundTo(statements, found, Len(statements))
  BY NestedPassFinds
<1> HIDE DEF found
<1>3. /\ p \in Seq(DmlRecord) /\ DOMAIN p = DOMAIN found
      /\ \A g \in DOMAIN found :
             /\ p[g] = FullDml(statements, found[g].statement, Ordinal(found, g))
             /\ p[g].statement = found[g].statement
  BY <1>2, FilledFacts
<1>4. /\ q \in Seq(DmlRecord)
      /\ \A k \in DOMAIN q : /\ q[k].statement \in AddedOf(statements)
                             /\ q[k] = FullDml(statements, q[k].statement, 1)
      /\ \A j, k \in DOMAIN q : q[j].statement = q[k].statement => j = k
  BY AddedFacts
<1> HIDE DEF p, q
<1>5. \A g \in DOMAIN found : Ordinal(p, g) = Ordinal(found, g)
  BY <1>3, OrdinalsStay
<1>6. ASSUME NEW g \in DOMAIN p
      PROVE  /\ p[g].statement \in DOMAIN statements
             /\ statements[p[g].statement].inner # <<>>
             /\ Ordinal(p, g) \in 1..Len(statements[p[g].statement].inner) + 1
             /\ p[g] = FullDml(statements, p[g].statement, Ordinal(p, g))
  <2>1. g \in DOMAIN found /\ p[g].statement = found[g].statement
        /\ Ordinal(p, g) = Ordinal(found, g)
    BY <1>3, <1>5
  <2>2. /\ found[g].statement \in DOMAIN statements
        /\ statements[found[g].statement].inner # <<>>
        /\ Ordinal(found, g) \in 1..Len(statements[found[g].statement].inner) + 1
    BY <1>2, <2>1 DEF FoundTo
  <2>3. p[g] = FullDml(statements, found[g].statement, Ordinal(found, g))
    BY <1>3, <2>1
  <2>4. QED
    BY <2>1, <2>2, <2>3
<1>7. \A k \in DOMAIN q : q[k].statement \in DOMAIN statements
                          /\ statements[q[k].statement].inner = <<>>
  BY <1>4 DEF AddedOf
<1>8. /\ all \in Seq(DmlRecord) /\ DOMAIN all = 1..(Len(p) + Len(q))
      /\ DOMAIN p = 1..Len(p) /\ DOMAIN q = 1..Len(q) /\ Len(p) \in Nat /\ Len(q) \in Nat
  BY <1>3, <1>4, ConcatFacts
<1>9. ASSUME NEW g \in DOMAIN p PROVE Ordinal(all, g) = Ordinal(p, g) /\ all[g] = p[g]
  <2>1. \A j \in DOMAIN q : q[j].statement # p[g].statement
    BY <1>6, <1>7
  <2>2. QED
    BY <1>3, <1>4, <2>1, OrdinalsBefore
<1>10. ASSUME NEW k \in DOMAIN q PROVE Ordinal(all, Len(p) + k) = 1 /\ all[Len(p) + k] = q[k]
  <2>1. \A h \in DOMAIN p : p[h].statement # q[k].statement
    BY <1>6, <1>7
  <2>2. \A j \in DOMAIN q : q[j].statement = q[k].statement => j = k
    BY <1>4
  <2>3. QED
    BY <1>3, <1>4, <2>1, <2>2, OrdinalsBehind
<1> HIDE DEF all
<1>11. ASSUME NEW g \in DOMAIN all
       PROVE  /\ all[g].statement \in DOMAIN statements
              /\ Ordinal(all, g) \in 1..Len(statements[all[g].statement].inner) + 1
              /\ all[g] = FullDml(statements, all[g].statement, Ordinal(all, g))
  <2>1. CASE g \in DOMAIN p
    <3>1. Ordinal(all, g) = Ordinal(p, g) /\ all[g] = p[g]
      BY <1>9, <2>1
    <3>2. QED
      BY <1>6, <2>1, <3>1
  <2>2. CASE g \notin DOMAIN p
    <3> DEFINE k == g - Len(p)
    <3>1. k \in DOMAIN q /\ Len(p) + k = g
      BY <1>8, <2>2
    <3> HIDE DEF k
    <3>2. Ordinal(all, g) = 1 /\ all[g] = q[k]
      BY <1>10, <3>1
    <3>3. q[k].statement \in DOMAIN statements /\ q[k] = FullDml(statements, q[k].statement, 1)
      BY <1>4, <1>7, <3>1
    <3>4. 1 \in 1..Len(statements[q[k].statement].inner) + 1
      BY <3>3, StatementFacts
    <3>5. QED
      BY <3>2, <3>3, <3>4
  <2>3. QED
    BY <2>1, <2>2
<1>12. FullTo(statements, all)
  BY <1>8, <1>11 DEF FullTo
<1>13. QED
  BY <1>1, <1>12

-----------------------------------------------------------------------------
(* The trees.                                                              *)

LEMMA HeadAndRest ==
    ASSUME NEW T, NEW e \in T, NEW n \in Nat, NEW rest, rest = [j \in 1..n |-> rest[j]],
           \A j \in 1..n : rest[j] \in T
    PROVE  /\ <<e>> \o rest \in Seq(T) /\ DOMAIN (<<e>> \o rest) = 1..n + 1
           /\ (<<e>> \o rest)[1] = e
           /\ \A j \in 1..n : (<<e>> \o rest)[j + 1] = rest[j]
<1> DEFINE head == <<e>>
           all == head \o rest
<1>1. head \in Seq(T) /\ Len(head) = 1 /\ head[1] = e
  OBVIOUS
<1>2. rest \in Seq(T) /\ Len(rest) = n
  OBVIOUS
<1> HIDE DEF head
<1>3. /\ all \in Seq(T) /\ Len(all) = Len(head) + Len(rest)
      /\ \A k \in 1..(Len(head) + Len(rest)) :
             all[k] = IF k <= Len(head) THEN head[k] ELSE rest[k - Len(head)]
  BY <1>1, <1>2, ConcatFacts
<1> HIDE DEF all
<1>4. all \in Seq(T) /\ Len(all) = n + 1
      /\ \A k \in 1..(n + 1) : all[k] = IF k <= 1 THEN head[k] ELSE rest[k - 1]
  BY <1>1, <1>2, <1>3
<1>5. DOMAIN all = 1..n + 1 /\ all[1] = e
  <2>1. DOMAIN all = 1..n + 1
    BY <1>4
  <2>2. 1 \in 1..(n + 1) /\ 1 <= 1
    OBVIOUS
  <2>3. all[1] = head[1]
    BY <1>4, <2>2
  <2>4. QED
    BY <1>1, <2>1, <2>3
<1>6. ASSUME NEW j \in 1..n PROVE all[j + 1] = rest[j]
  <2>1. j + 1 \in 1..(n + 1) /\ ~(j + 1 <= 1) /\ (j + 1) - 1 = j
    OBVIOUS
  <2>2. QED
    BY <1>4, <2>1
<1>7. QED
  BY <1>4, <1>5, <1>6 DEF all, head

\* A tree whose statements have a node, and one for each nested DML.
LEMMA TreeTyped ==
    ASSUME NEW n \in Nat, NEW t, t = [s \in 1..n |-> t[s]],
           \A s \in 1..n : t[s] \in Seq(NodeRecord)
    PROVE  t \in Seq(Seq(NodeRecord))
<1> DEFINE T == Seq(NodeRecord)
<1>1. \A s \in 1..n : t[s] \in T
  OBVIOUS
<1> HIDE DEF T
<1>2. t \in Seq(T)
  BY <1>1
<1>3. QED
  BY <1>2 DEF T

FullNode(statements, s, k) ==
    IF k = 1 THEN Node(statements[s].kind, None, Joined(statements[s].clause))
    ELSE Node(statements[s].inner[k - 1].kind, NameOf(statements, s, k - 1),
              Joined(statements[s].inner[k - 1].clause))

LEMMA NodeIntro ==
    ASSUME NEW kind \in STRING, NEW name, name = None \/ name \in Nat, NEW list \in Seq(Target)
    PROVE  /\ Node(kind, name, list) \in NodeRecord
           /\ Node(kind, name, list).kind = kind /\ Node(kind, name, list).name = name
           /\ Node(kind, name, list).returning = list
BY DEF Node, NodeRecord

\* The node of a DML and its state agree.
LEMMA FullNodeFacts ==
    ASSUME NEW statements, WellWritten(statements), NEW s \in DOMAIN statements,
           NEW k \in 1..Len(statements[s].inner) + 1
    PROVE  /\ FullNode(statements, s, k) \in NodeRecord
           /\ Matches(FullNode(statements, s, k), FullDml(statements, s, k))
           /\ FullNode(statements, s, k).name
                  = IF k = 1 THEN None ELSE NameOf(statements, s, k - 1)
<1> DEFINE kind == IF k = 1 THEN statements[s].kind ELSE statements[s].inner[k - 1].kind
           name == IF k = 1 THEN None ELSE NameOf(statements, s, k - 1)
           clause == IF k = 1 THEN statements[s].clause ELSE statements[s].inner[k - 1].clause
           list == Joined(clause)
           channels == Channels(clause)
<1>1. /\ s \in Nat /\ DOMAIN statements[s].inner = 1..Len(statements[s].inner)
      /\ Len(statements[s].inner) \in Nat
  BY StatementFacts
<1>2. k # 1 => k - 1 \in DOMAIN statements[s].inner /\ k - 1 \in Nat
  BY <1>1
<1>3. kind \in STRING /\ clause \in Clause /\ IsWritten(clause) /\ Len(clause) <= 2
  BY <1>2, StatementFacts
<1>4. name = None \/ name \in Nat
  BY <1>2, NamesFacts
<1>5. /\ FullNode(statements, s, k) = Node(kind, name, list)
      /\ FullDml(statements, s, k) = Dml(kind, s, name, channels)
  BY DEF FullNode, FullDml, FoundDml
<1> HIDE DEF kind, name, clause
<1>6. /\ channels \in Seq(Channel) /\ Len(channels) = Len(clause) /\ list \in Seq(Target)
      /\ Tiles(channels, Len(list))
  BY <1>3, ClauseFacts
<1> HIDE DEF list, channels
<1>7. /\ Node(kind, name, list) \in NodeRecord
      /\ Node(kind, name, list).kind = kind /\ Node(kind, name, list).name = name
      /\ Node(kind, name, list).returning = list
  <2>1. kind \in STRING /\ (name = None \/ name \in Nat) /\ list \in Seq(Target)
    BY <1>3, <1>4, <1>6
  <2>2. QED
    BY <2>1 DEF Node, NodeRecord
<1>8. /\ Dml(kind, s, name, channels).kind = kind /\ Dml(kind, s, name, channels).name = name
      /\ Dml(kind, s, name, channels).channels = channels
  BY DEF Dml
<1>9. Matches(Node(kind, name, list), Dml(kind, s, name, channels))
  BY <1>3, <1>6, <1>7, <1>8 DEF Matches
<1>10. QED
  BY <1>5, <1>7, <1>9 DEF name

\* Numbers of nested DMLs tell the nodes of a statement.
LEMMA NodesAreNamed ==
    ASSUME NEW statements, WellWritten(statements), NEW s \in DOMAIN statements,
           NEW k \in 1..Len(statements[s].inner) + 1, NEW l \in 1..Len(statements[s].inner) + 1,
           FullNode(statements, s, k).name = FullNode(statements, s, l).name
    PROVE  k = l
<1>1. Len(statements[s].inner) \in Nat
  BY StatementFacts
<1>2. k \in Nat /\ l \in Nat /\ (k # 1 => k - 1 \in Nat) /\ (l # 1 => l - 1 \in Nat)
  BY <1>1
<1>3. /\ FullNode(statements, s, k).name = IF k = 1 THEN None ELSE NameOf(statements, s, k - 1)
      /\ FullNode(statements, s, l).name = IF l = 1 THEN None ELSE NameOf(statements, s, l - 1)
  BY FullNodeFacts
<1>4. \A j \in Nat : NameOf(statements, s, j) # None
  BY NamesFacts, NoneAssumption
<1>5. CASE k = 1 \/ l = 1
  BY <1>2, <1>3, <1>4, <1>5
<1>6. CASE k # 1 /\ l # 1
  <2>1. k - 1 = l - 1
    BY <1>2, <1>3, <1>6, NamesFacts
  <2>2. QED
    BY <1>2, <2>1
<1>7. QED
  BY <1>5, <1>6

LEMMA SqlServerTreeFacts ==
    ASSUME NEW statements, WellWritten(statements)
    PROVE  /\ SqlServerTree(statements) \in Seq(Seq(NodeRecord))
           /\ DOMAIN SqlServerTree(statements) = DOMAIN statements
           /\ \A s \in DOMAIN statements :
                  /\ DOMAIN SqlServerTree(statements)[s] = 1..Len(statements[s].inner) + 1
                  /\ \A k \in 1..Len(statements[s].inner) + 1 :
                         SqlServerTree(statements)[s][k] = FullNode(statements, s, k)
<1> DEFINE t == SqlServerTree(statements)
<1>1. DOMAIN statements = 1..Len(statements) /\ Len(statements) \in Nat
  BY DEF WellWritten
<1>2. ASSUME NEW s \in DOMAIN statements
      PROVE  /\ t[s] \in Seq(NodeRecord) /\ DOMAIN t[s] = 1..Len(statements[s].inner) + 1
             /\ \A k \in 1..Len(statements[s].inner) + 1 : t[s][k] = FullNode(statements, s, k)
  <2> DEFINE inner == statements[s].inner
             n == Len(inner)
             e == FullNode(statements, s, 1)
             rest == [j \in DOMAIN inner |->
                         Node(inner[j].kind, NameOf(statements, s, j), Joined(inner[j].clause))]
  <2>1. DOMAIN inner = 1..n /\ n \in Nat /\ 1 \in 1..n + 1
    BY StatementFacts
  <2>2. t[s] = <<e>> \o rest
    BY DEF SqlServerTree, FullNode
  <2>3. \A j \in 1..n : j + 1 \in 1..n + 1 /\ j + 1 # 1 /\ (j + 1) - 1 = j
    BY <2>1
  <2>4. \A j \in 1..n : rest[j] = FullNode(statements, s, j + 1)
    BY <2>1, <2>3 DEF FullNode
  <2>5. \A k \in 1..n + 1 : FullNode(statements, s, k) \in NodeRecord
    BY FullNodeFacts
  <2>6. rest = [j \in 1..n |-> rest[j]]
    BY <2>1
  <2> HIDE DEF inner, n, e, rest, t
  <2>7. e \in NodeRecord /\ \A j \in 1..n : rest[j] \in NodeRecord
    BY <2>1, <2>3, <2>4, <2>5 DEF e
  <2>8. /\ t[s] \in Seq(NodeRecord) /\ DOMAIN t[s] = 1..n + 1 /\ t[s][1] = e
        /\ \A j \in 1..n : t[s][j + 1] = rest[j]
    BY <2>1, <2>2, <2>6, <2>7, HeadAndRest
  <2>9. ASSUME NEW k \in 1..n + 1 PROVE t[s][k] = FullNode(statements, s, k)
    <3>1. CASE k = 1
      BY <2>8, <3>1 DEF e
    <3>2. CASE k # 1
      <4> DEFINE j == k - 1
      <4>1. j \in 1..n /\ j + 1 = k
        BY <2>1, <3>2
      <4> HIDE DEF j
      <4>2. QED
        BY <2>4, <2>8, <4>1
    <3>3. QED
      BY <3>1, <3>2
  <2>10. QED
    BY <2>8, <2>9 DEF n, inner
<1>3. t = [s \in 1..Len(statements) |-> t[s]] /\ DOMAIN t = DOMAIN statements
  BY <1>1 DEF SqlServerTree
<1> HIDE DEF t
<1>4. t \in Seq(Seq(NodeRecord))
  BY <1>1, <1>2, <1>3, TreeTyped
<1>5. QED
  BY <1>2, <1>3, <1>4 DEF t

\* What is parsed fits.
LEMMA ParsedFits ==
    ASSUME NEW statements, WellWritten(statements)
    PROVE  Fits(SqlServerTree(statements), OutputState(statements))
<1> DEFINE t == SqlServerTree(statements)
           ds == OutputState(statements)
<1>1. /\ t \in Seq(Seq(NodeRecord)) /\ DOMAIN t = DOMAIN statements
      /\ \A s \in DOMAIN statements :
             /\ DOMAIN t[s] = 1..Len(statements[s].inner) + 1
             /\ \A k \in 1..Len(statements[s].inner) + 1 : t[s][k] = FullNode(statements, s, k)
  BY SqlServerTreeFacts
<1>2. FullTo(statements, ds)
  BY OutputStateIsFull
<1> HIDE DEF t, ds
<1>3. Named(t)
  <2> SUFFICES ASSUME NEW s \in DOMAIN t, NEW k \in DOMAIN t[s], NEW l \in DOMAIN t[s],
                      t[s][k].name = t[s][l].name
               PROVE  k = l
    BY DEF Named
  <2>1. /\ s \in DOMAIN statements /\ k \in 1..Len(statements[s].inner) + 1
        /\ l \in 1..Len(statements[s].inner) + 1
    BY <1>1
  <2>2. t[s][k] = FullNode(statements, s, k) /\ t[s][l] = FullNode(statements, s, l)
    BY <1>1, <2>1
  <2>3. QED
    BY <2>1, <2>2, NodesAreNamed
<1>4. ASSUME NEW g \in DOMAIN ds PROVE Placed(t, ds, g)
  <2> DEFINE s == ds[g].statement
             k == Ordinal(ds, g)
  <2>1. /\ s \in DOMAIN statements /\ k \in 1..Len(statements[s].inner) + 1
        /\ ds[g] = FullDml(statements, s, k)
    BY <1>2 DEF FullTo
  <2>2. s \in DOMAIN t /\ k \in DOMAIN t[s] /\ t[s][k] = FullNode(statements, s, k)
    BY <1>1, <2>1
  <2> HIDE DEF s, k
  <2>3. Matches(FullNode(statements, s, k), FullDml(statements, s, k))
    BY <2>1, FullNodeFacts
  <2>4. Matches(t[s][k], ds[g])
    BY <2>1, <2>2, <2>3
  <2>5. QED
    BY <2>2, <2>4 DEF Placed, s, k
<1>5. Fits(t, ds)
  BY <1>1, <1>2, <1>3, <1>4 DEF Fits, FullTo
<1>6. QED
  BY <1>5 DEF t, ds

\* What is known of every document.
LEMMA DocumentFacts ==
    ASSUME NEW doc \in Documents, NEW s \in DOMAIN doc.statements
    PROVE  /\ doc.statements \in Seq(Texts)
           /\ doc.statements[s].kind \in STRING
           /\ doc.statements[s].clause \in Clause /\ IsWritten(doc.statements[s].clause)
           /\ DOMAIN doc.statements[s].inner = 1..Len(doc.statements[s].inner)
           /\ Len(doc.statements[s].inner) \in Nat
           /\ \A j \in DOMAIN doc.statements[s].inner :
                  /\ doc.statements[s].inner[j].kind \in STRING
                  /\ doc.statements[s].inner[j].clause \in Clause
                  /\ IsWritten(doc.statements[s].inner[j].clause)
<1> DEFINE statements == doc.statements
           inner == statements[s].inner
           E == [kind : STRING, clause : Clause]
<1>1. /\ statements \in Seq(Texts)
      /\ IsWritten(statements[s].clause)
      /\ \A j \in DOMAIN inner : IsWritten(inner[j].clause)
  BY DocumentsAssumption
<1>2. statements[s] \in Texts
  BY <1>1
<1>3. statements[s].kind \in STRING /\ statements[s].clause \in Clause /\ inner \in Seq(E)
  BY <1>2 DEF Texts
<1> HIDE DEF E, inner, statements
<1>4. DOMAIN inner = 1..Len(inner) /\ Len(inner) \in Nat /\ \A j \in DOMAIN inner : inner[j] \in E
  BY <1>3
<1>5. \A j \in DOMAIN inner : inner[j].kind \in STRING /\ inner[j].clause \in Clause
  BY <1>4 DEF E
<1>6. QED
  BY <1>1, <1>3, <1>4, <1>5 DEF inner, statements

LEMMA PlainTargetsTyped ==
    ASSUME NEW clause \in Clause, IsWritten(clause)
    PROVE  /\ PlainTargets(clause) \in Seq(Target)
           /\ OracleList(clause) \in Seq(Target)
<1>1. CASE clause = <<>>
  BY <1>1 DEF PlainTargets, OracleList
<1>2. CASE clause # <<>>
  <2>1. 1 \in DOMAIN clause
    BY <1>2 DEF Clause
  <2>2. clause[1].targets \in Seq(Target) /\ clause[1].columns \in Seq(STRING)
    BY <2>1, ClauseElement
  <2>3. WithReceivers(clause[1].targets, clause[1].columns) \in Seq(Target)
    BY <2>2, WithReceiversFacts
  <2>4. QED
    BY <1>2, <2>2, <2>3 DEF PlainTargets, OracleList
<1>3. QED
  BY <1>1, <1>2

LEMMA UnnamedNode ==
    ASSUME NEW kind \in STRING, NEW list \in Seq(Target)
    PROVE  Node(kind, None, list) \in NodeRecord
BY DEF Node, NodeRecord

LEMMA PostgresTreeTyped ==
    ASSUME NEW doc \in Documents
    PROVE  PostgresTree(doc.statements) \in Seq(Seq(NodeRecord))
<1> DEFINE statements == doc.statements
           t == PostgresTree(statements)
<1>1. DOMAIN statements = 1..Len(statements) /\ Len(statements) \in Nat
  <2>1. statements \in Seq(Texts)
    BY DocumentsAssumption
  <2>2. QED
    BY <2>1
<1>2. ASSUME NEW s \in DOMAIN statements PROVE t[s] \in Seq(NodeRecord)
  <2> DEFINE inner == statements[s].inner
             n == Len(inner)
             e == Node(statements[s].kind, None, PlainTargets(statements[s].clause))
             rest == [j \in DOMAIN inner |->
                         Node(inner[j].kind, None, PlainTargets(inner[j].clause))]
  <2>1. /\ statements[s].kind \in STRING
        /\ statements[s].clause \in Clause /\ IsWritten(statements[s].clause)
        /\ DOMAIN inner = 1..n /\ n \in Nat
        /\ \A j \in DOMAIN inner : /\ inner[j].kind \in STRING
                                   /\ inner[j].clause \in Clause /\ IsWritten(inner[j].clause)
    <3>1. s \in DOMAIN doc.statements
      OBVIOUS
    <3> HIDE DEF t
    <3>2. QED
      BY <3>1, DocumentFacts
  <2>2. t[s] = <<e>> \o rest
    BY DEF PostgresTree
  <2>3. e \in NodeRecord
    <3>1. PlainTargets(statements[s].clause) \in Seq(Target)
      BY <2>1, PlainTargetsTyped
    <3>2. QED
      BY <2>1, <3>1, UnnamedNode
  <2>4. ASSUME NEW j \in 1..n PROVE rest[j] \in NodeRecord
    <3>1. j \in DOMAIN inner
      BY <2>1
    <3>2. PlainTargets(inner[j].clause) \in Seq(Target) /\ inner[j].kind \in STRING
      BY <2>1, <3>1, PlainTargetsTyped
    <3>3. Node(inner[j].kind, None, PlainTargets(inner[j].clause)) \in NodeRecord
      BY <3>2, UnnamedNode
    <3>4. QED
      BY <3>1, <3>3
  <2>5. rest = [j \in 1..n |-> rest[j]]
    BY <2>1
  <2> HIDE DEF inner, n, e, rest, t
  <2>6. <<e>> \o rest \in Seq(NodeRecord)
    <3>1. n \in Nat /\ \A j \in 1..n : rest[j] \in NodeRecord
      BY <2>1, <2>4
    <3>2. /\ <<e>> \o rest \in Seq(NodeRecord) /\ DOMAIN (<<e>> \o rest) = 1..n + 1
          /\ (<<e>> \o rest)[1] = e
          /\ \A j \in 1..n : (<<e>> \o rest)[j + 1] = rest[j]
      BY <2>3, <2>5, <3>1, HeadAndRest
    <3>3. QED
      BY <3>2
  <2>7. QED
    BY <2>2, <2>6
<1>3. t = [s \in 1..Len(statements) |-> t[s]]
  BY <1>1 DEF PostgresTree
<1> HIDE DEF t, statements
<1>4. t \in Seq(Seq(NodeRecord))
  BY <1>1, <1>2, <1>3, TreeTyped
<1>5. QED
  BY <1>4 DEF t, statements

LEMMA OracleTreeTyped ==
    ASSUME NEW doc \in Documents
    PROVE  OracleTree(doc.statements) \in Seq(Seq(NodeRecord))
<1> DEFINE statements == doc.statements
           t == OracleTree(statements)
<1>1. DOMAIN statements = 1..Len(statements) /\ Len(statements) \in Nat
  <2>1. statements \in Seq(Texts)
    BY DocumentsAssumption
  <2>2. QED
    BY <2>1
<1>2. ASSUME NEW s \in DOMAIN statements PROVE t[s] \in Seq(NodeRecord)
  <2> DEFINE e == Node(statements[s].kind, None, OracleList(statements[s].clause))
  <2>1. /\ statements[s].kind \in STRING
        /\ statements[s].clause \in Clause /\ IsWritten(statements[s].clause)
    BY DocumentFacts
  <2>2. OracleList(statements[s].clause) \in Seq(Target)
    BY <2>1, PlainTargetsTyped
  <2>3. e \in NodeRecord
    BY <2>1, <2>2, UnnamedNode
  <2>4. t[s] = <<e>>
    BY DEF OracleTree
  <2> HIDE DEF e, t
  <2>5. QED
    BY <2>3, <2>4
<1>3. t = [s \in 1..Len(statements) |-> t[s]]
  BY <1>1 DEF OracleTree
<1> HIDE DEF t, statements
<1>4. t \in Seq(Seq(NodeRecord))
  BY <1>1, <1>2, <1>3, TreeTyped
<1>5. QED
  BY <1>4 DEF t, statements

\* Statements that the passes accept are well written.
LEMMA AcceptedStatements ==
    ASSUME NEW doc \in Documents, \A s \in DOMAIN doc.statements : StatementOk(doc.statements[s])
    PROVE  WellWritten(doc.statements)
<1> DEFINE statements == doc.statements
<1>1. statements \in Seq(Texts)
  BY DocumentsAssumption
<1>2. ASSUME NEW s \in DOMAIN statements
      PROVE  /\ IsWritten(statements[s].clause) /\ Len(statements[s].clause) <= 2
             /\ \A j \in DOMAIN statements[s].inner :
                    /\ IsWritten(statements[s].inner[j].clause)
                    /\ Len(statements[s].inner[j].clause) <= 2
  <2>1. IsWritten(statements[s].clause) /\ \A j \in DOMAIN statements[s].inner :
                                               IsWritten(statements[s].inner[j].clause)
    BY DocumentsAssumption
  <2>2. StatementOk(statements[s])
    OBVIOUS
  <2> DEFINE top == statements[s]
  <2> HIDE DEF statements
  <2>3. Len(top.clause) <= 2 /\ \A j \in DOMAIN top.inner : Len(top.inner[j].clause) <= 2
    BY <2>2 DEF StatementOk, ClauseOk
  <2>4. QED
    BY <2>1, <2>3 DEF statements
<1>3. QED
  BY <1>1, <1>2 DEF WellWritten

LEMMA ParseFits ==
    ASSUME Parse, PairsInvariant'
    PROVE  DmlInvariant'
<1>1. PICK doc \in Documents :
          dialect' = doc.dialect /\ (ParseSqlServer(doc) \/ ParseOracle(doc) \/ ParsePostgres(doc))
  BY DEF Parse
<1>2. CASE ParseSqlServer(doc)
  <2>1. /\ dialect' = "sqlserver" /\ tree' = SqlServerTree(doc.statements)
        /\ dmls' = OutputState(doc.statements)
        /\ \A s \in DOMAIN doc.statements : StatementOk(doc.statements[s])
    BY <1>1, <1>2 DEF ParseSqlServer
  <2>2. Fits(SqlServerTree(doc.statements), OutputState(doc.statements))
    BY <2>1, AcceptedStatements, ParsedFits
  <2>3. Fits(tree', dmls')
    BY <2>1, <2>2
  <2>4. tree' \in Seq(Seq(NodeRecord))
    BY <2>3 DEF Fits
  <2>5. dialect' \in Dialects /\ dialect' # None
    BY <2>1, NoneAssumption DEF Dialects
  <2>6. QED
    BY <2>1, <2>3, <2>4, <2>5 DEF DmlInvariant
<1>3. CASE ParseOracle(doc)
  <2>1. dialect' = "oracle" /\ tree' = OracleTree(doc.statements) /\ dmls' = <<>>
    BY <1>1, <1>3 DEF ParseOracle
  <2>2. tree' \in Seq(Seq(NodeRecord))
    BY <2>1, OracleTreeTyped
  <2>3. dialect' \in Dialects /\ dialect' # None /\ dialect' # "sqlserver"
    BY <2>1, NoneAssumption DEF Dialects
  <2>4. QED
    BY <2>1, <2>2, <2>3 DEF DmlInvariant
<1>4. CASE ParsePostgres(doc)
  <2>1. dialect' = "postgresql" /\ tree' = PostgresTree(doc.statements) /\ dmls' = <<>>
    BY <1>1, <1>4 DEF ParsePostgres
  <2>2. tree' \in Seq(Seq(NodeRecord))
    BY <2>1, PostgresTreeTyped
  <2>3. dialect' \in Dialects /\ dialect' # None /\ dialect' # "sqlserver"
    BY <2>1, NoneAssumption DEF Dialects
  <2>4. QED
    BY <2>1, <2>2, <2>3 DEF DmlInvariant
<1>5. QED
  BY <1>1, <1>2, <1>3, <1>4

-----------------------------------------------------------------------------
(* The state invariant.                                                    *)

LEMMA InitFits == Init => DmlInvariant
<1> SUFFICES ASSUME Init PROVE DmlInvariant
  OBVIOUS
<1>1. dialect = None /\ tree = <<>> /\ dmls = <<>>
  BY DEF Init
<1>2. dialect # "sqlserver"
  BY <1>1, NoneAssumption DEF Dialects
<1>3. tree \in Seq(Seq(NodeRecord))
  <2> DEFINE T == Seq(NodeRecord)
  <2> HIDE DEF T
  <2>1. <<>> \in Seq(T)
    OBVIOUS
  <2>2. QED
    BY <1>1, <2>1 DEF T
<1>4. QED
  BY <1>1, <1>2, <1>3, InitPairs DEF DmlInvariant

LEMMA SameStateFits ==
    ASSUME DmlInvariant, PairsInvariant', UNCHANGED <<dialect, tree>>, dmls' = dmls
    PROVE  DmlInvariant'
<1>1. Fits(tree, dmls) => Fits(tree', dmls')
  OBVIOUS
<1>2. QED
  BY <1>1 DEF DmlInvariant

LEMMA DestroyFits ==
    ASSUME Destroy, PairsInvariant'
    PROVE  DmlInvariant'
<1>1. dialect' = None /\ tree' = <<>> /\ dmls' = <<>>
  BY DEF Destroy
<1>2. dialect' # "sqlserver"
  BY <1>1, NoneAssumption DEF Dialects
<1>3. tree' \in Seq(Seq(NodeRecord))
  <2> DEFINE T == Seq(NodeRecord)
  <2> HIDE DEF T
  <2>1. <<>> \in Seq(T)
    OBVIOUS
  <2>2. QED
    BY <1>1, <2>1 DEF T
<1>4. QED
  BY <1>1, <1>2, <1>3 DEF DmlInvariant

LEMMA PatchFits ==
    ASSUME DmlInvariant, PairsInvariant', Patch
    PROVE  DmlInvariant'
<1>1. PICK p \in Selectors, i \in Indices :
          \/ DeleteTarget(p[1], p[2], p[3], i)
          \/ DeleteSinkColumn(p[1], p[2], p[3], i)
          \/ \E t \in Fragments :
                 \/ ReplaceTarget(p[1], p[2], p[3], i, t)
                 \/ InsertTarget(p[1], p[2], p[3], i, t)
                 \/ \E r \in Receivers : \/ InsertPair(p[1], p[2], p[3], i, t, r)
                                         \/ InsertTargetSinkColumn(p[1], p[2], p[3], i, t, r)
          \/ \E r \in Receivers : \/ SetSinkColumn(p[1], p[2], p[3], i, r)
                                  \/ InsertSinkColumn(p[1], p[2], p[3], i, r)
          \/ i = 1 /\ \E sink \in Sinks : SetSink(p[1], p[2], p[3], sink)
  BY DEF Patch
<1> DEFINE s == p[1]
           d == p[2]
           c == p[3]
<1> HIDE DEF s, d, c
<1>2. CASE DeleteTarget(s, d, c, i)
  BY <1>2, DeleteFits, ClonedState
<1>3. CASE \E t \in Fragments : ReplaceTarget(s, d, c, i, t)
  BY <1>3, ReplaceFits
<1>4. CASE \E t \in Fragments : InsertTarget(s, d, c, i, t)
  BY <1>4, InsertFits
<1>5. CASE \E t \in Fragments, r \in Receivers : InsertPair(s, d, c, i, t, r)
  BY <1>5, InsertPairFits
<1>6. CASE \E t \in Fragments, r \in Receivers : InsertTargetSinkColumn(s, d, c, i, t, r)
  BY <1>6, InsertSinkTargetFits
<1>7. CASE \/ DeleteSinkColumn(s, d, c, i)
           \/ \E r \in Receivers : SetSinkColumn(s, d, c, i, r) \/ InsertSinkColumn(s, d, c, i, r)
           \/ \E sink \in Sinks : SetSink(s, d, c, sink)
  BY <1>7, SinkPatchesFit
<1>8. QED
  BY <1>1, <1>2, <1>3, <1>4, <1>5, <1>6, <1>7 DEF s, d, c

LEMMA StepFits ==
    ASSUME DmlInvariant, [Next]_vars
    PROVE  DmlInvariant'
<1>1. PairsInvariant'
  BY StepPairs DEF DmlInvariant
<1>2. CASE Parse
  BY <1>1, <1>2, ParseFits
<1>3. CASE Patch
  BY <1>1, <1>3, PatchFits
<1>4. CASE Clone
  <2>1. dmls' = dmls /\ UNCHANGED <<dialect, tree>>
    BY <1>4, ClonedState DEF Clone
  <2>2. QED
    BY <1>1, <2>1, SameStateFits
<1>5. CASE Destroy
  BY <1>1, <1>5, DestroyFits
<1>6. CASE UNCHANGED vars
  <2>1. dmls' = dmls /\ UNCHANGED <<dialect, tree>>
    BY <1>6 DEF vars
  <2>2. QED
    BY <1>1, <2>1, SameStateFits
<1>7. QED
  BY <1>2, <1>3, <1>4, <1>5, <1>6 DEF Next

\* The inductive invariant. Whatever is parsed, patched and cloned, the OUTPUT state fits the
\* tree: the DML that sqlparser_sqlserver_output_state_t keeps for a statement and an ordinal is
\* the node of that number, of the same kind and name, with its RETURNING list divided by
\* the state's offsets and counts; and pairs of RETURNING INTO are whole.
THEOREM FitIsInvariant == Spec => []DmlInvariant
<1>1. Init => DmlInvariant
  BY InitFits
<1>2. DmlInvariant /\ [Next]_vars => DmlInvariant'
  BY StepFits
<1>3. QED
  BY <1>1, <1>2, PTL DEF Spec

LEMMA FitGivesState == DmlInvariant => StateInvariant
<1> SUFFICES ASSUME DmlInvariant PROVE StateInvariant
  OBVIOUS
<1>1. ASSUME NEW g \in DOMAIN dmls, NEW c \in DOMAIN dmls[g].channels
      PROVE  ChannelRecord(dmls[g].channels[c])
  <2> DEFINE channels == dmls[g].channels
  <2>1. dialect = "sqlserver"
    BY DEF DmlInvariant
  <2>2. dmls \in Seq(DmlRecord)
    BY <2>1 DEF DmlInvariant, Fits
  <2>3. dmls[g] \in DmlRecord
    BY <2>2
  <2>4. channels \in Seq(Channel) /\ c \in DOMAIN channels
    BY <2>3 DEF DmlRecord
  <2> HIDE DEF channels
  <2>5. channels[c] \in Channel
    BY <2>4
  <2>6. channels[c].count \in Nat /\ channels[c].offset \in Nat /\ channels[c].actions \in Marks
    BY <2>5 DEF Channel
  <2>7. \A i \in DOMAIN channels[c].actions : channels[c].actions[i] \in ToSet(Markers)
    BY <2>6, MarksFacts
  <2>8. QED
    BY <2>6, <2>7 DEF ChannelRecord, channels
<1>2. ASSUME dialect = "sqlserver", NEW s \in DOMAIN tree, NEW d \in 1..DmlCount(s)
      PROVE  Tiles(ChannelsOf(s, d), Len(ListOf(s, d)))
  BY <1>2, SqlServerSelector
<1>3. PairsAreWhole
  BY DEF DmlInvariant, PairsInvariant, PairedStatement, PairsAreWhole
<1>4. QED
  BY <1>1, <1>2, <1>3 DEF StateInvariant, DmlInvariant

\* The OUTPUT state is whole: channels tile the list of their node through
\* every patch (sqlparser_sqlserver_output_adjust_target_count), marks stay
\* within their channel, and lists of RETURNING INTO are twice their pairs.
THEOREM StateIsInvariant == Spec => []StateInvariant
BY FitIsInvariant, FitGivesState, PTL

-----------------------------------------------------------------------------
(* Writing the SQL.                                                        *)

\* A channel of what is written.
LEMMA PublicChannelTyped ==
    ASSUME NEW sink \in Sink, NEW columns \in Seq(STRING), NEW targets \in Seq(Target)
    PROVE  /\ PublicChannel(sink, columns, targets)
                  \in [sink : Sink, columns : Seq(STRING), targets : Seq(Target)]
           /\ PublicChannel(sink, columns, targets).sink = sink
           /\ PublicChannel(sink, columns, targets).targets = targets
BY DEF PublicChannel

\* A clause of one channel is no mismatch.
LEMMA OneChannelTyped ==
    ASSUME NEW sink \in Sink, NEW columns \in Seq(STRING), NEW targets \in Seq(Target)
    PROVE  /\ <<PublicChannel(sink, columns, targets)>> \in Clause
           /\ Len(<<PublicChannel(sink, columns, targets)>>) = 1
           /\ DOMAIN <<PublicChannel(sink, columns, targets)>> = {1}
<1> DEFINE channel == PublicChannel(sink, columns, targets)
           E == [sink : Sink, columns : Seq(STRING), targets : Seq(Target)]
<1>1. channel \in E
  BY PublicChannelTyped
<1> HIDE DEF channel, E
<1>2. <<channel>> \in Seq(E) /\ Len(<<channel>>) = 1 /\ DOMAIN <<channel>> = {1}
  BY <1>1
<1>3. <<channel>> \in Clause
  BY <1>2 DEF Clause, E
<1>4. QED
  BY <1>2, <1>3 DEF channel

LEMMA NoClauseTyped == <<>> \in Clause /\ <<>> # Mismatch
<1> DEFINE E == [sink : Sink, columns : Seq(STRING), targets : Seq(Target)]
<1> HIDE DEF E
<1>1. <<>> \in Seq(E)
  OBVIOUS
<1>2. <<>> \in Clause
  BY <1>1 DEF Clause, E
<1>3. QED
  BY <1>2, NoneAssumption DEF Mismatch

LEMMA OneChannel ==
    ASSUME NEW sink \in Sink, NEW columns \in Seq(STRING), NEW targets \in Seq(Target)
    PROVE  /\ <<PublicChannel(sink, columns, targets)>> # Mismatch
           /\ Len(<<PublicChannel(sink, columns, targets)>>) = 1
           /\ DOMAIN <<PublicChannel(sink, columns, targets)>> = {1}
BY OneChannelTyped, NoneAssumption DEF Mismatch

LEMMA PublicTyped ==
    ASSUME NEW target \in Target, NEW marker
    PROVE  Public(target, marker) \in Target
<1>1. target \in Seq(Word) /\ Action \in Word
  BY DEF Target, Word
<1> HIDE DEF Action
<1>2. DOMAIN target = 1..Len(target) /\ Len(target) \in Nat /\ \A w \in DOMAIN target : target[w] \in Word
  BY <1>1
<1>3. [w \in DOMAIN target |-> IF target[w] = marker THEN Action ELSE target[w]] \in Seq(Word)
  BY <1>1, <1>2
<1>4. QED
  BY <1>1, <1>3 DEF Public, Swap, Target

\* sqlparser_sqlserver_output_build_public_clause: running through the list
\* comes to the offset of each channel, and to the end of the list.
LEMMA BeforeFacts ==
    ASSUME NEW channels \in Seq(Channel), NEW n \in Nat, Tiles(channels, n)
    PROVE  /\ \A c \in DOMAIN channels : Before(channels, c) = channels[c].offset
           /\ Before(channels, Len(channels) + 1) = n
<1> DEFINE last == Len(channels)
           F(f) == f = [b \in 0..last |-> IF b = 0 THEN 0 ELSE f[b - 1] + channels[b].count]
           reached == [b \in 0..last |-> IF b = 0 THEN 0
                                         ELSE channels[b].offset + channels[b].count]
           taken == CHOOSE f : F(f)
<1>1. /\ DOMAIN channels = 1..last /\ last \in Nat
      /\ \A b \in DOMAIN channels : channels[b].offset \in Nat /\ channels[b].count \in Nat
  BY SeqChannelFacts DEF IsChannel
<1>2. \A b \in 1..last : channels[b].offset = reached[b - 1]
  <2> TAKE b \in 1..last
  <2>1. b - 1 \in 0..last /\ b \in DOMAIN channels
    BY <1>1
  <2>2. channels[b].offset = IF b = 1 THEN 0 ELSE channels[b - 1].offset + channels[b - 1].count
    BY <2>1 DEF Tiles
  <2>3. b = 1 <=> b - 1 = 0
    BY <1>1
  <2>4. QED
    BY <2>1, <2>2, <2>3
<1>3. F(reached)
  <2>1. \A b \in 0..last :
            reached[b] = IF b = 0 THEN 0 ELSE reached[b - 1] + channels[b].count
    <3> TAKE b \in 0..last
    <3>1. b # 0 => b \in 1..last
      BY <1>1
    <3>2. QED
      BY <1>2, <3>1
  <2>2. reached = [b \in 0..last |-> reached[b]]
    OBVIOUS
  <2> HIDE DEF reached
  <2>3. QED
    BY <2>1, <2>2
<1>4. F(taken)
  <2> HIDE DEF F
  <2>1. QED
    BY <1>3
<1>5. \A c : Before(channels, c) = taken[c - 1]
  BY DEF Before
<1> HIDE DEF taken
<1>6. taken[0] = 0 /\ \A b \in 1..last : taken[b] = taken[b - 1] + channels[b].count
  BY <1>1, <1>4
<1> DEFINE S == {b \in Nat : taken[b] = reached[b]}
<1>7. 0 \in S
  BY <1>1, <1>6
<1>8. ASSUME NEW b \in 0..(last - 1), b \in S PROVE b + 1 \in S
  <2>1. b + 1 \in 1..last /\ b + 1 \in 0..last /\ b + 1 # 0 /\ (b + 1) - 1 = b /\ b + 1 \in Nat
    BY <1>1
  <2>2. taken[b + 1] = taken[b] + channels[b + 1].count
    BY <1>6, <2>1
  <2>3. reached[b + 1] = channels[b + 1].offset + channels[b + 1].count
    BY <2>1
  <2>4. channels[b + 1].offset = reached[b]
    BY <1>2, <2>1
  <2>5. taken[b] = reached[b]
    BY <1>8
  <2>6. QED
    BY <2>1, <2>2, <2>3, <2>4, <2>5
<1>9. 0 \in Int /\ last \in Int /\ 0 <= last
  BY <1>1
<1> HIDE DEF S
<1>10. 0..last \subseteq S
  BY <1>7, <1>8, <1>9, IntervalInduction
<1>11. \A b \in 0..last : taken[b] = reached[b]
  BY <1>10 DEF S
<1>12. ASSUME NEW c \in DOMAIN channels PROVE Before(channels, c) = channels[c].offset
  <2>1. c \in 1..last /\ c - 1 \in 0..last
    BY <1>1
  <2>2. QED
    BY <1>2, <1>5, <1>11, <2>1
<1>13. Before(channels, last + 1) = n
  <2>1. (last + 1) - 1 = last /\ last \in 0..last
    BY <1>1
  <2>2. Before(channels, last + 1) = reached[last]
    BY <1>5, <1>11, <2>1
  <2>3. CASE channels = <<>>
    <3>1. last = 0 /\ n = 0
      BY <2>3 DEF Tiles
    <3>2. QED
      BY <2>1, <2>2, <3>1
  <2>4. CASE channels # <<>>
    <3>1. n = channels[last].offset + channels[last].count
      BY <2>4 DEF Tiles
    <3>2. last # 0
      BY <1>1, <2>4
    <3>3. QED
      BY <2>1, <2>2, <3>1, <3>2
  <2>5. QED
    BY <2>3, <2>4
<1>14. QED
  BY <1>12, <1>13

\* What a selector and the deparse agree on, at one place.
Agrees(s, d, written) ==
    /\ written # Mismatch
    /\ Len(written) = Len(ChannelsOf(s, d))
    /\ \A c \in DOMAIN written :
           /\ HasChannel(s, d, c)
           /\ written[c].sink = ChannelsOf(s, d)[c].sink
           /\ written[c].targets = [i \in 1..ChannelsOf(s, d)[c].count |-> TargetSql(s, d, c, i)]

LEMMA DeparsedAt ==
    ASSUME DmlInvariant, NEW s \in DOMAIN tree, NEW d \in DOMAIN tree[s]
    PROVE  Deparsed[s][d] = ClauseOf(s, d)
<1>1. tree # <<>>
  OBVIOUS
<1>2. Live
  BY <1>1 DEF DmlInvariant, Live
<1>3. QED
  BY <1>2 DEF Deparsed

\* Min of one number.
LEMMA MinOfOne ==
    ASSUME NEW g \in Nat
    PROVE  Min({g}) = g
<1>1. g \in {g} /\ \A y \in {g} : g <= y
  OBVIOUS
<1>2. Min({g}) = CHOOSE x \in {g} : \A y \in {g} : x <= y
  BY DEF Min
<1>3. QED
  BY <1>1, <1>2

\* What is written for one channel.
TargetsText(channels, list, c) ==
    [i \in 1..channels[c].count |->
        Public(list[channels[c].offset + i], MarkerAt(channels[c], i))]
ChannelText(channels, list, c) ==
    PublicChannel(channels[c].sink, channels[c].columns, TargetsText(channels, list, c))

LEMMA TargetsTextTyped ==
    ASSUME NEW channels \in Seq(Channel), NEW list \in Seq(Target), NEW c \in DOMAIN channels,
           channels[c].offset + channels[c].count <= Len(list)
    PROVE  TargetsText(channels, list, c) \in Seq(Target)
<1> DEFINE offset == channels[c].offset
           count == channels[c].count
           n == Len(list)
           P(i) == Public(list[offset + i], MarkerAt(channels[c], i))
<1>1. n \in Nat /\ \A k \in 1..n : list[k] \in Target
  OBVIOUS
<1>2. offset \in Nat /\ count \in Nat /\ offset + count <= n
  BY SeqChannelFacts DEF IsChannel
<1> HIDE DEF n
<1>3. ASSUME NEW i \in 1..count
      PROVE  P(i) \in Target
  <2> DEFINE target == list[offset + i]
             marker == MarkerAt(channels[c], i)
  <2>1. offset + i \in 1..n
    <3> HIDE DEF offset, count
    <3>1. QED
      BY <1>1, <1>2
  <2>2. target \in Target
    BY <1>1, <2>1
  <2> HIDE DEF target, marker
  <2>3. Public(target, marker) \in Target
    BY <2>2, PublicTyped
  <2>4. QED
    BY <2>3 DEF target, marker
<1>4. TargetsText(channels, list, c) = [i \in 1..count |-> P(i)]
  BY DEF TargetsText
<1>5. \A i \in 1..count : P(i) \in Target
  BY <1>3
<1> HIDE DEF P, count
<1>6. [i \in 1..count |-> P(i)] \in Seq(Target)
  BY <1>2, <1>5
<1>7. QED
  BY <1>4, <1>6

\* What is written for channels that share out a list.
LEMMA PublicClauseFacts ==
    ASSUME NEW channels \in Seq(Channel), NEW list \in Seq(Target), Len(channels) <= 2,
           Tiles(channels, Len(list))
    PROVE  /\ PublicClause(channels, list) \in Clause
           /\ PublicClause(channels, list) # Mismatch
           /\ PublicClause(channels, list)
                  = [c \in 1..Len(channels) |-> ChannelText(channels, list, c)]
           /\ Len(PublicClause(channels, list)) = Len(channels)
           /\ \A c \in DOMAIN channels : channels[c].offset + channels[c].count <= Len(list)
<1> DEFINE n == Len(list)
           m == Len(channels)
           E == [sink : Sink, columns : Seq(STRING), targets : Seq(Target)]
           clause == PublicClause(channels, list)
<1>1. n \in Nat /\ m \in Nat
  OBVIOUS
<1>2. /\ DOMAIN channels = 1..m
      /\ \A b \in DOMAIN channels : channels[b] \in Channel /\ IsChannel(channels[b])
  BY SeqChannelFacts
<1>3. \A c \in DOMAIN channels : Before(channels, c) = channels[c].offset
  BY <1>1, BeforeFacts
<1>4. clause = [c \in 1..m |-> ChannelText(channels, list, c)]
  BY <1>2, <1>3 DEF PublicClause, ChannelText, TargetsText
<1>5. ASSUME NEW c \in DOMAIN channels
      PROVE  /\ channels[c].offset + channels[c].count <= n
             /\ ChannelText(channels, list, c) \in E
  <2>1. channels[c].offset + channels[c].count <= n
    BY <1>1, <1>2, ChannelsInOrder
  <2> DEFINE targets == TargetsText(channels, list, c)
             sink == channels[c].sink
             columns == channels[c].columns
  <2>2. sink \in Sink /\ columns \in Seq(STRING)
    BY <1>2, ChannelFacts
  <2>3. targets \in Seq(Target)
    BY <2>1, TargetsTextTyped
  <2> HIDE DEF targets, sink, columns
  <2>4. PublicChannel(sink, columns, targets) \in E
    BY <2>2, <2>3, PublicChannelTyped
  <2>5. QED
    BY <2>1, <2>4 DEF ChannelText, targets, sink, columns
<1> HIDE DEF E
<1>6. clause \in Seq(E) /\ Len(clause) = m
  <2>1. \A c \in 1..m : ChannelText(channels, list, c) \in E
    BY <1>2, <1>5
  <2> HIDE DEF clause, m
  <2>2. [c \in 1..m |-> ChannelText(channels, list, c)] \in Seq(E)
    BY <1>1, <2>1
  <2>3. QED
    BY <1>1, <1>4, <2>2
<1>7. clause \in Clause
  BY <1>6 DEF Clause, E
<1>8. clause # Mismatch
  BY <1>7, NoneAssumption DEF Mismatch
<1>9. QED
  BY <1>4, <1>5, <1>6, <1>7, <1>8

-----------------------------------------------------------------------------
(* SQL Server: what is written at a place of the tree.                     *)

Plain(list) == IF list = <<>> THEN <<>> ELSE <<PublicChannel(None, <<>>, list)>>
NamedIn(ds, s, name) == {g \in DOMAIN ds : ds[g].statement = s /\ ds[g].name = name}
TextOf(t, ds, s, k) ==
    IF NamedIn(ds, s, t[s][k].name) # {}
    THEN SqlServerClause(ds[Min(NamedIn(ds, s, t[s][k].name))], t[s][k].returning)
    ELSE Plain(t[s][k].returning)

LEMMA ClauseIsText ==
    ASSUME dialect = "sqlserver", NEW s, pairs[s] = 0, NEW k
    PROVE  ClauseOf(s, k) = TextOf(tree, dmls, s, k)
<1>1. ~(pairs[s] > 0)
  OBVIOUS
<1>2. StateOf(s, k) = NamedIn(dmls, s, tree[s][k].name)
  BY DEF StateOf, NamedIn
<1>3. CASE StateOf(s, k) # {}
  <2>1. ClauseOf(s, k) = SqlServerClause(dmls[Min(StateOf(s, k))], tree[s][k].returning)
    BY <1>1, <1>3, Zenon DEF ClauseOf
  <2>2. QED
    BY <1>2, <1>3, <2>1 DEF TextOf
<1>4. CASE StateOf(s, k) = {}
  <2>1. ClauseOf(s, k) = Plain(tree[s][k].returning)
    BY <1>1, <1>4, Zenon DEF ClauseOf, Plain
  <2>2. QED
    BY <1>2, <1>4, <2>1 DEF TextOf
<1>5. QED
  BY <1>3, <1>4

\* The name of a CTE finds the state that counting finds: no two DMLs of a
\* statement have a name.
LEMMA TextAtPlace ==
    ASSUME NEW t, NEW ds, Fits(t, ds), NEW g \in DOMAIN ds,
           NEW s, s = ds[g].statement, NEW k, k = Ordinal(ds, g)
    PROVE  /\ s \in DOMAIN t /\ k \in DOMAIN t[s]
           /\ ds[g].channels \in Seq(Channel) /\ t[s][k].returning \in Seq(Target)
           /\ Len(ds[g].channels) <= 2 /\ Tiles(ds[g].channels, Len(t[s][k].returning))
           /\ TextOf(t, ds, s, k) = PublicClause(ds[g].channels, t[s][k].returning)
<1>1. t \in Seq(Seq(NodeRecord)) /\ ds \in Seq(DmlRecord) /\ Named(t)
  BY DEF Fits
<1>2. s \in DOMAIN t /\ k \in DOMAIN t[s] /\ Matches(t[s][k], ds[g])
  BY DEF Fits, Placed
<1> DEFINE name == t[s][k].name
           channels == ds[g].channels
           list == t[s][k].returning
<1>3. ASSUME NEW h \in NamedIn(ds, s, name) PROVE h = g
  <2>1. h \in DOMAIN ds /\ ds[h].statement = s /\ ds[h].name = name
    BY <1>3 DEF NamedIn
  <2>2. Placed(t, ds, h)
    BY <2>1 DEF Fits
  <2>3. Ordinal(ds, h) \in DOMAIN t[s] /\ t[s][Ordinal(ds, h)].name = ds[h].name
    BY <2>1, <2>2 DEF Placed, Matches
  <2>4. Ordinal(ds, h) = k
    BY <1>1, <1>2, <2>1, <2>3 DEF Named
  <2>5. QED
    BY <1>1, <2>1, <2>4, OneAtEachPlace
<1>4. g \in NamedIn(ds, s, name)
  BY <1>2 DEF NamedIn, Matches
<1>5. NamedIn(ds, s, name) = {g} /\ NamedIn(ds, s, name) # {}
  BY <1>3, <1>4
<1>6. Min(NamedIn(ds, s, name)) = g
  <2>1. g \in Nat
    BY <1>1
  <2>2. QED
    BY <1>5, <2>1, MinOfOne
<1>7. TextOf(t, ds, s, k) = SqlServerClause(ds[g], list)
  BY <1>5, <1>6 DEF TextOf
<1>8. /\ channels \in Seq(Channel) /\ list \in Seq(Target)
      /\ Len(channels) <= 2 /\ Tiles(channels, Len(list))
  <2>1. t[s] \in Seq(NodeRecord)
    BY <1>1, <1>2
  <2>2. ds[g] \in DmlRecord /\ t[s][k] \in NodeRecord
    BY <1>1, <1>2, <2>1
  <2>3. QED
    BY <1>2, <2>2 DEF DmlRecord, NodeRecord, Matches
<1>9. SqlServerClause(ds[g], list) = PublicClause(channels, list)
  <2> HIDE DEF list
  <2>1. Len(list) \in Nat
    BY <1>8
  <2>2. Before(channels, Len(channels) + 1) = Len(list)
    <3> HIDE DEF channels
    <3>1. QED
      BY <1>8, <2>1, BeforeFacts
  <2>3. QED
    BY <2>2 DEF SqlServerClause
<1>10. QED
  BY <1>2, <1>7, <1>8, <1>9

\* A node that no state names.
HasPlace(ds, s, k) == \E g \in DOMAIN ds : ds[g].statement = s /\ Ordinal(ds, g) = k

LEMMA TextElsewhere ==
    ASSUME NEW t, NEW ds, Fits(t, ds), NEW s \in DOMAIN t, NEW k \in DOMAIN t[s],
           ~HasPlace(ds, s, k)
    PROVE  TextOf(t, ds, s, k) = Plain(t[s][k].returning)
<1>1. ASSUME NEW h \in NamedIn(ds, s, t[s][k].name) PROVE FALSE
  <2>1. h \in DOMAIN ds /\ ds[h].statement = s /\ ds[h].name = t[s][k].name
    BY <1>1 DEF NamedIn
  <2>2. Placed(t, ds, h)
    BY <2>1 DEF Fits
  <2>3. Ordinal(ds, h) \in DOMAIN t[s] /\ t[s][Ordinal(ds, h)].name = ds[h].name
    BY <2>1, <2>2 DEF Placed, Matches
  <2>4. Ordinal(ds, h) = k
    BY <2>1, <2>3 DEF Fits, Named
  <2>5. QED
    BY <2>1, <2>4 DEF HasPlace
<1>2. QED
  BY <1>1 DEF TextOf

\* SQL Server.
LEMMA SqlServerAgrees ==
    ASSUME DmlInvariant, dialect = "sqlserver", NEW s \in DOMAIN tree, NEW d \in 1..DmlCount(s)
    PROVE  Agrees(s, d, ClauseOf(s, d))
<1> DEFINE g == DmlAt(s, d)
           channels == dmls[g].channels
           list == tree[s][d].returning
           clause == PublicClause(channels, list)
<1>1. /\ d \in DOMAIN tree[s] /\ g \in DOMAIN dmls /\ pairs[s] = 0
      /\ dmls[g].statement = s /\ Ordinal(dmls, g) = d
      /\ ChannelsOf(s, d) = channels /\ ListOf(s, d) = list
      /\ ChannelsOf(s, d) \in Seq(Channel) /\ ListOf(s, d) \in Seq(Target)
      /\ Len(ChannelsOf(s, d)) <= 2 /\ Tiles(ChannelsOf(s, d), Len(ListOf(s, d)))
  BY SqlServerSelector
<1>2. Fits(tree, dmls)
  BY DEF DmlInvariant
<1>3. ClauseOf(s, d) = clause
  <2> HIDE DEF g
  <2>1. TextOf(tree, dmls, s, d) = clause
    BY <1>1, <1>2, TextAtPlace
  <2>2. ClauseOf(s, d) = TextOf(tree, dmls, s, d)
    BY <1>1, ClauseIsText
  <2>3. QED
    BY <2>1, <2>2
<1>4. channels \in Seq(Channel) /\ list \in Seq(Target) /\ Len(channels) <= 2
      /\ Tiles(channels, Len(list))
  BY <1>1
<1>5. DOMAIN channels = 1..Len(channels)
  BY <1>4, SeqChannelFacts
<1> HIDE DEF channels, list
<1>6. /\ clause # Mismatch /\ clause = [c \in 1..Len(channels) |-> ChannelText(channels, list, c)]
      /\ Len(clause) = Len(channels)
      /\ \A c \in DOMAIN channels : channels[c].offset + channels[c].count <= Len(list)
  BY <1>4, PublicClauseFacts
<1> HIDE DEF clause
<1>7. ASSUME NEW c \in DOMAIN clause
      PROVE  /\ HasChannel(s, d, c) /\ clause[c].sink = ChannelsOf(s, d)[c].sink
             /\ clause[c].targets
                    = [i \in 1..ChannelsOf(s, d)[c].count |-> TargetSql(s, d, c, i)]
  <2>1. c \in DOMAIN channels /\ clause[c] = ChannelText(channels, list, c)
    BY <1>5, <1>6
  <2>2. HasChannel(s, d, c)
    BY <1>1, <1>6, <2>1 DEF HasChannel
  <2>3. \A i : TargetSql(s, d, c, i)
                   = Public(list[channels[c].offset + i], MarkerAt(channels[c], i))
    BY <1>1 DEF TargetSql
  <2>4. /\ clause[c].sink = channels[c].sink
        /\ clause[c].targets = TargetsText(channels, list, c)
    BY <2>1 DEF ChannelText, PublicChannel
  <2>5. QED
    BY <1>1, <2>2, <2>3, <2>4 DEF TargetsText
<1>8. QED
  BY <1>1, <1>3, <1>6, <1>7 DEF Agrees

\* A channel the dialect makes up has no marks.
LEMMA UnnamedAgrees ==
    ASSUME NEW s \in DOMAIN tree, NEW d \in 1..DmlCount(s), NEW sink \in Sink,
           NEW columns \in Seq(STRING), NEW list \in Seq(Target), NEW n \in Nat,
           n <= Len(list), ListOf(s, d) = list, ChannelsOf(s, d) = <<Unnamed(sink, columns, n)>>,
           NEW targets, targets = [i \in 1..n |-> list[i]]
    PROVE  Agrees(s, d, <<PublicChannel(sink, columns, targets)>>)
<1> DEFINE channel == Unnamed(sink, columns, n)
           written == <<PublicChannel(sink, columns, targets)>>
<1>1. /\ channel.sink = sink /\ channel.offset = 0 /\ channel.count = n
      /\ channel.actions = <<>>
  BY DEF Unnamed
<1>2. DOMAIN list = 1..Len(list) /\ Len(list) \in Nat /\ \A k \in 1..Len(list) : list[k] \in Target
  OBVIOUS
<1>3. targets \in Seq(Target)
  BY <1>2
<1>4. /\ written # Mismatch /\ Len(written) = 1 /\ DOMAIN written = {1}
      /\ written[1].sink = sink /\ written[1].targets = targets
  BY <1>3, OneChannel, PublicChannelTyped
<1> HIDE DEF written, channel
<1>5. ChannelsOf(s, d)[1] = channel /\ Len(ChannelsOf(s, d)) = 1 /\ 1 \in DOMAIN ChannelsOf(s, d)
  BY DEF channel
<1>6. HasChannel(s, d, 1)
  BY <1>1, <1>2, <1>5 DEF HasChannel
<1>7. ASSUME NEW i \in 1..n PROVE TargetSql(s, d, 1, i) = list[i]
  <2>1. MarkerAt(channel, i) = None
    BY <1>1 DEF MarkerAt
  <2>2. channel.offset + i = i
    BY <1>1
  <2>3. QED
    BY <1>5, <2>1, <2>2 DEF TargetSql, Public
<1>8. written[1].targets = [i \in 1..ChannelsOf(s, d)[1].count |-> TargetSql(s, d, 1, i)]
  BY <1>1, <1>4, <1>5, <1>7
<1>9. written[1].sink = ChannelsOf(s, d)[1].sink
  BY <1>1, <1>4, <1>5
<1>10. Agrees(s, d, written)
  BY <1>4, <1>5, <1>6, <1>8, <1>9 DEF Agrees
<1>11. QED
  BY <1>10 DEF written

LEMMA SingleNode ==
    ASSUME NEW e, NEW x, x = <<e>>
    PROVE  Len(x) = 1 /\ DOMAIN x = {1} /\ x[1] = e
OBVIOUS

\* Oracle: the receivers are written as the columns of an INTO.
Firsts(list, n) == [i \in 1..n |-> list[i]]
LEMMA PairedClauseFacts ==
    ASSUME NEW n \in Nat, NEW list \in Seq(Target), Len(list) = 2 * n, HasReceivers(list, n)
    PROVE  /\ PairedClause(n, list) = <<PublicChannel(Into, Second(list, n), Firsts(list, n))>>
           /\ Second(list, n) \in Seq(STRING) /\ Firsts(list, n) \in Seq(Target)
           /\ Into \in Sink /\ PairedClause(n, list) \in Clause
<1> DEFINE columns == Second(list, n)
           targets == Firsts(list, n)
<1>1. Into \in Sink
  BY DEF Sink
<1>2. columns \in Seq(STRING)
  <2>1. \A i \in 1..n : list[n + i][1] \in STRING
    BY DEF HasReceivers
  <2> DEFINE P(i) == list[n + i][1]
  <2>2. columns = [i \in 1..n |-> P(i)]
    BY DEF Second
  <2>3. \A i \in 1..n : P(i) \in STRING
    BY <2>1
  <2> HIDE DEF P
  <2>4. QED
    BY <2>2, <2>3
<1>3. n <= Len(list)
  OBVIOUS
<1>4. targets \in Seq(Target)
  BY <1>3 DEF Firsts
<1>5. SubSeq(list, 1, n) = targets
  BY <1>3 DEF Firsts
<1>6. PairedClause(n, list) = <<PublicChannel(Into, columns, targets)>>
  BY <1>5 DEF PairedClause
<1> HIDE DEF columns, targets
<1>7. <<PublicChannel(Into, columns, targets)>> \in Clause
  BY <1>1, <1>2, <1>4, OneChannelTyped
<1>8. QED
  BY <1>1, <1>2, <1>4, <1>6, <1>7 DEF columns, targets

LEMMA PairedTree ==
    ASSUME NEW s, PairedStatement(s)
    PROVE  DOMAIN tree[s] = {1}
<1> DEFINE node == Node(tree[s][1].kind, None, tree[s][1].returning)
           x == tree[s]
<1>1. x = <<node>>
  BY DEF PairedStatement
<1> HIDE DEF node, x
<1>2. DOMAIN x = {1}
  BY <1>1, SingleNode
<1>3. QED
  BY <1>2 DEF x

LEMMA PairsAgree ==
    ASSUME DmlInvariant, NEW s \in DOMAIN tree, pairs[s] > 0, NEW d \in 1..DmlCount(s)
    PROVE  /\ d \in DOMAIN tree[s] /\ d = 1 /\ Agrees(s, d, ClauseOf(s, d))
           /\ ClauseOf(s, d) = PairedClause(pairs[s], tree[s][1].returning)
<1> DEFINE n == pairs[s]
           list == tree[s][1].returning
           columns == Second(list, n)
           targets == Firsts(list, n)
<1>1. PairedStatement(s) /\ n \in Nat /\ n > 0
  BY DEF DmlInvariant, PairsInvariant
<1>2. list \in Seq(Target) /\ Len(list) = 2 * n /\ HasReceivers(list, n)
      /\ dialect # "sqlserver" /\ dialect # "postgresql" /\ DOMAIN tree[s] = {1}
  <2>1. dialect = "oracle"
    BY <1>1 DEF PairedStatement
  <2>2. QED
    BY <1>1, <2>1, PairedTree DEF PairedStatement
<1>3. DmlCount(s) = 1
  BY <1>1, <1>2 DEF DmlCount
<1>4. d = 1 /\ NodeOf(s, d) = 1 /\ ListOf(s, d) = list
  <2>1. d = 1
    BY <1>3
  <2>2. QED
    BY <1>2, <2>1 DEF NodeOf, ListOf
<1>5. ChannelsOf(s, d) = <<Unnamed(Into, columns, n)>>
  BY <1>1, <1>2 DEF ChannelsOf
<1>6. ClauseOf(s, d) = PairedClause(n, list)
  BY <1>1, <1>2, <1>4, Zenon DEF ClauseOf
<1> HIDE DEF n, list
<1>7. /\ PairedClause(n, list) = <<PublicChannel(Into, columns, targets)>>
      /\ columns \in Seq(STRING) /\ targets \in Seq(Target) /\ Into \in Sink
  BY <1>1, <1>2, PairedClauseFacts
<1>8. n <= Len(list)
  BY <1>1, <1>2
<1>9. targets = [i \in 1..n |-> list[i]]
  BY DEF Firsts
<1> HIDE DEF columns, targets
<1>10. Agrees(s, d, <<PublicChannel(Into, columns, targets)>>)
  BY <1>1, <1>2, <1>4, <1>5, <1>7, <1>8, <1>9, UnnamedAgrees
<1>11. QED
  BY <1>2, <1>4, <1>6, <1>7, <1>10 DEF n, list

\* PostgreSQL: the list is the one channel of the client.
LEMMA PostgresAgrees ==
    ASSUME DmlInvariant, dialect = "postgresql", NEW s \in DOMAIN tree, NEW d \in 1..DmlCount(s)
    PROVE  d \in DOMAIN tree[s] /\ Agrees(s, d, ClauseOf(s, d))
<1> DEFINE list == tree[s][d].returning
<1>1. pairs[s] = 0 /\ tree \in Seq(Seq(NodeRecord))
  BY DEF DmlInvariant, PairsInvariant, PairedStatement
<1>2. d \in DOMAIN tree[s] /\ tree[s] \in Seq(NodeRecord)
  BY <1>1 DEF DmlCount
<1>3. list \in Seq(Target)
  <2>1. tree[s][d] \in NodeRecord
    BY <1>2
  <2>2. QED
    BY <2>1 DEF NodeRecord
<1>4. NodeOf(s, d) = d /\ ListOf(s, d) = list
  BY DEF NodeOf, ListOf
<1>5. ~(pairs[s] > 0) /\ dialect # "sqlserver"
  BY <1>1
<1>6. ChannelsOf(s, d) = IF list = <<>> THEN <<>> ELSE <<Unnamed(None, <<>>, Len(list))>>
  BY <1>5 DEF ChannelsOf
<1>7. ClauseOf(s, d) = IF list = <<>> THEN <<>> ELSE <<PublicChannel(None, <<>>, list)>>
  BY <1>5, Zenon DEF ClauseOf
<1> HIDE DEF list
<1>8. CASE list = <<>>
  <2>1. DOMAIN <<>> = {}
    OBVIOUS
  <2>2. QED
    BY <1>2, <1>6, <1>7, <1>8, <2>1, NoClauseTyped DEF Agrees
<1>9. CASE list # <<>>
  <2> DEFINE columns == <<>>
             n == Len(list)
  <2>1. None \in Sink /\ columns \in Seq(STRING) /\ n \in Nat /\ n <= n
    BY <1>3 DEF Sink
  <2>2. list = [i \in 1..n |-> list[i]]
    BY <1>3
  <2>3. /\ ClauseOf(s, d) = <<PublicChannel(None, columns, list)>>
        /\ ChannelsOf(s, d) = <<Unnamed(None, columns, n)>>
    BY <1>6, <1>7, <1>9
  <2> HIDE DEF columns
  <2>4. Agrees(s, d, <<PublicChannel(None, columns, list)>>)
    BY <1>3, <1>4, <2>1, <2>2, <2>3, UnnamedAgrees
  <2>5. QED
    BY <1>2, <2>3, <2>4
<1>10. QED
  BY <1>8, <1>9

LEMMA FitGivesSelectors == DmlInvariant => SelectorsReadWhatIsWritten
<1> SUFFICES ASSUME DmlInvariant, NEW s \in DOMAIN tree, NEW d \in 1..DmlCount(s)
             PROVE  Agrees(s, d, Deparsed[s][d])
  BY DEF SelectorsReadWhatIsWritten, Agrees
<1>1. d \in DOMAIN tree[s] /\ Agrees(s, d, ClauseOf(s, d))
  <2>1. CASE dialect = "sqlserver"
    <3>1. d \in DOMAIN tree[s]
      BY <2>1, SqlServerSelector
    <3>2. QED
      BY <2>1, <3>1, SqlServerAgrees
  <2>2. CASE pairs[s] > 0
    BY <2>2, PairsAgree
  <2>3. CASE dialect = "postgresql"
    BY <2>3, PostgresAgrees
  <2>4. CASE dialect # "sqlserver" /\ dialect # "postgresql" /\ ~(pairs[s] > 0)
    <3>1. dmls = <<>>
      BY <2>4 DEF DmlInvariant
    <3>2. DmlsOf(s) = {}
      BY <3>1 DEF DmlsOf
    <3>3. Cardinality(DmlsOf(s)) = 0
      BY <3>2, FS_EmptySet
    <3>4. DmlCount(s) = 0
      BY <2>4, <3>3 DEF DmlCount
    <3>5. QED
      BY <3>4
  <2>5. QED
    BY <2>1, <2>2, <2>3, <2>4
<1>2. QED
  BY <1>1, DeparsedAt

\* A selector reads what the deparse writes at its place: counting nodes of a
\* kind (sqlparser_get_dml_result_message) finds the node that the name of the
\* CTE finds (sqlparser_sqlserver_output_postprocess), and an offset is what
\* running through the list comes to.
THEOREM SelectorsAgreeWithTheDeparse == Spec => []SelectorsReadWhatIsWritten
BY FitIsInvariant, FitGivesSelectors, PTL

-----------------------------------------------------------------------------
(* What a patch changes in the SQL.                                        *)

\* An edit of one node and its state: all others are written as before.
LEMMA EditedText ==
    ASSUME NEW t, NEW ds, Fits(t, ds), NEW g \in DOMAIN ds,
           NEW s, s = ds[g].statement, NEW d, d = Ordinal(ds, g),
           NEW list \in Seq(Target), NEW channels \in Seq(Channel),
           Len(channels) <= 2, Tiles(channels, Len(list)),
           NEW u, ListIsSet(t, u, s, d, list), NEW es, ChannelsAreSet(ds, es, g, channels)
    PROVE  /\ TextOf(u, es, s, d) = PublicClause(channels, list)
           /\ \A r \in DOMAIN t : \A k \in DOMAIN t[r] :
                  ~(r = s /\ k = d) => TextOf(u, es, r, k) = TextOf(t, ds, r, k)
<1>1. Fits(u, es)
  BY EditFits
<1>2. s \in DOMAIN t /\ d \in DOMAIN t[s]
  BY DEF Fits, Placed
<1>3. /\ DOMAIN es = DOMAIN ds /\ \A h \in DOMAIN ds : es[h].statement = ds[h].statement
      /\ es[g].channels = channels /\ \A h \in DOMAIN ds : h # g => es[h] = ds[h]
  BY DEF ChannelsAreSet
<1>4. \A h \in DOMAIN ds : Ordinal(es, h) = Ordinal(ds, h)
  BY <1>3, OrdinalsStay
<1>5. u[s][d].returning = list
  BY <1>2 DEF ListIsSet
<1>6. TextOf(u, es, s, d) = PublicClause(channels, list)
  <2>1. g \in DOMAIN es /\ s = es[g].statement /\ d = Ordinal(es, g)
    BY <1>3, <1>4
  <2>2. TextOf(u, es, s, d) = PublicClause(es[g].channels, u[s][d].returning)
    BY <1>1, <2>1, TextAtPlace
  <2>3. QED
    BY <1>3, <1>5, <2>2
<1>7. ASSUME NEW r \in DOMAIN t, NEW k \in DOMAIN t[r], ~(r = s /\ k = d)
      PROVE  TextOf(u, es, r, k) = TextOf(t, ds, r, k)
  <2>1. r \in DOMAIN u /\ k \in DOMAIN u[r] /\ u[r][k] = t[r][k]
    BY <1>7 DEF ListIsSet
  <2>2. CASE HasPlace(ds, r, k)
    <3>1. PICK h \in DOMAIN ds : ds[h].statement = r /\ Ordinal(ds, h) = k
      BY <2>2 DEF HasPlace
    <3>2. h # g
      BY <1>7, <3>1
    <3>3. h \in DOMAIN es /\ es[h] = ds[h] /\ es[h].statement = r /\ Ordinal(es, h) = k
      BY <1>3, <1>4, <3>1, <3>2
    <3>4. TextOf(t, ds, r, k) = PublicClause(ds[h].channels, t[r][k].returning)
      BY <3>1, TextAtPlace
    <3>5. TextOf(u, es, r, k) = PublicClause(es[h].channels, u[r][k].returning)
      BY <1>1, <3>3, TextAtPlace
    <3>6. QED
      BY <2>1, <3>3, <3>4, <3>5
  <2>3. CASE ~HasPlace(ds, r, k)
    <3>1. ~HasPlace(es, r, k)
      BY <1>3, <1>4, <2>3 DEF HasPlace
    <3>2. TextOf(t, ds, r, k) = Plain(t[r][k].returning)
      BY <2>3, TextElsewhere
    <3>3. TextOf(u, es, r, k) = Plain(u[r][k].returning)
      BY <1>1, <2>1, <3>1, TextElsewhere
    <3>4. QED
      BY <2>1, <3>2, <3>3
  <2>4. QED
    BY <2>2, <2>3
<1>8. QED
  BY <1>6, <1>7

\* The step writes another clause at one place.
Differs(s, d, clause) ==
    /\ DOMAIN tree' = DOMAIN tree /\ \A r \in DOMAIN tree : DOMAIN tree'[r] = DOMAIN tree[r]
    /\ \A r \in DOMAIN tree : \A k \in DOMAIN tree[r] :
           ClauseOf(r, k)' = IF r = s /\ k = d THEN clause ELSE ClauseOf(r, k)

LEMMA NextClauseIsText ==
    ASSUME dialect' = "sqlserver", NEW s, pairs'[s] = 0, NEW k
    PROVE  ClauseOf(s, k)' = TextOf(tree', dmls', s, k)
<1>1. ~(pairs'[s] > 0)
  OBVIOUS
<1>2. StateOf(s, k)' = NamedIn(dmls', s, tree'[s][k].name)
  BY DEF StateOf, NamedIn
<1>3. CASE StateOf(s, k)' # {}
  <2>1. ClauseOf(s, k)' = SqlServerClause(dmls'[Min(StateOf(s, k)')], tree'[s][k].returning)
    BY <1>1, <1>3, Zenon DEF ClauseOf
  <2>2. QED
    BY <1>2, <1>3, <2>1 DEF TextOf
<1>4. CASE StateOf(s, k)' = {}
  <2>1. ClauseOf(s, k)' = Plain(tree'[s][k].returning)
    BY <1>1, <1>4, Zenon DEF ClauseOf, Plain
  <2>2. QED
    BY <1>2, <1>4, <2>1 DEF TextOf
<1>5. QED
  BY <1>3, <1>4

\* The edit of SqlServerEdit, in the SQL.
LEMMA SqlServerDiffers ==
    ASSUME DmlInvariant, dialect = "sqlserver", UNCHANGED <<dialect, pairs>>,
           NEW s \in DOMAIN tree, NEW d \in 1..DmlCount(s),
           NEW list \in Seq(Target), NEW channels \in Seq(Channel),
           Len(channels) <= 2, Tiles(channels, Len(list)),
           SetList(s, d, list) \/ (tree' = tree /\ list = ListOf(s, d)),
           SetChannels(dmls, s, d, channels)
    PROVE  /\ Differs(s, d, PublicClause(channels, list)) /\ d \in DOMAIN tree[s]
           /\ ClauseOf(s, d) = PublicClause(ChannelsOf(s, d), ListOf(s, d))
<1> DEFINE g == DmlAt(s, d)
<1>1. Fits(tree, dmls) /\ tree \in Seq(Seq(NodeRecord)) /\ dmls \in Seq(DmlRecord)
  BY DEF DmlInvariant, Fits
<1>2. /\ NodeOf(s, d) = d /\ d \in DOMAIN tree[s] /\ g \in DOMAIN dmls
      /\ dmls[g].statement = s /\ Ordinal(dmls, g) = d /\ ListOf(s, d) = tree[s][d].returning
      /\ ChannelsOf(s, d) = dmls[g].channels
  BY SqlServerSelector
<1> HIDE DEF g
<1>3. dmls' = [dmls EXCEPT ![g].channels = channels]
  BY DEF SetChannels, g
<1>4. ChannelsAreSet(dmls, dmls', g, channels)
  BY <1>1, <1>2, <1>3, SetChannelsOf
<1>5. ListIsSet(tree, tree', s, d, list)
  <2>1. CASE SetList(s, d, list)
    <3>1. tree' = [tree EXCEPT ![s][d].returning = list]
      BY <1>2, <2>1 DEF SetList
    <3>2. QED
      BY <1>1, <3>1, SetReturning
  <2>2. CASE tree' = tree /\ list = ListOf(s, d)
    BY <1>1, <1>2, <2>2 DEF ListIsSet
  <2>3. QED
    BY <2>1, <2>2
<1>6. /\ TextOf(tree', dmls', s, d) = PublicClause(channels, list)
      /\ \A r \in DOMAIN tree : \A k \in DOMAIN tree[r] :
             ~(r = s /\ k = d) => TextOf(tree', dmls', r, k) = TextOf(tree, dmls, r, k)
  <2>1. s = dmls[g].statement /\ d = Ordinal(dmls, g)
    BY <1>2
  <2>2. Fits(tree, dmls) /\ g \in DOMAIN dmls
    BY <1>1, <1>2
  <2>3. /\ list \in Seq(Target) /\ channels \in Seq(Channel)
        /\ Len(channels) <= 2 /\ Tiles(channels, Len(list))
    OBVIOUS
  <2>4. QED
    BY ONLY <1>4, <1>5, <2>1, <2>2, <2>3, EditedText
<1>7. \A r \in DOMAIN tree : pairs[r] = 0
  BY DEF DmlInvariant, PairsInvariant, PairedStatement
<1>8. ASSUME NEW r \in DOMAIN tree, NEW k
      PROVE  ClauseOf(r, k) = TextOf(tree, dmls, r, k) /\ ClauseOf(r, k)' = TextOf(tree', dmls', r, k)
  <2>1. pairs[r] = 0 /\ pairs'[r] = 0 /\ dialect' = "sqlserver"
    BY <1>7
  <2>2. ClauseOf(r, k) = TextOf(tree, dmls, r, k)
    BY <2>1, ClauseIsText
  <2>3. ClauseOf(r, k)' = TextOf(tree', dmls', r, k)
    BY <2>1, NextClauseIsText
  <2>4. QED
    BY <2>2, <2>3
<1>9. Differs(s, d, PublicClause(channels, list))
  <2>1. DOMAIN tree' = DOMAIN tree /\ \A r \in DOMAIN tree : DOMAIN tree'[r] = DOMAIN tree[r]
    BY <1>5 DEF ListIsSet
  <2>2. QED
    BY <1>6, <1>8, <2>1 DEF Differs
<1>10. ClauseOf(s, d) = PublicClause(ChannelsOf(s, d), ListOf(s, d))
  <2>1. s = dmls[g].statement /\ d = Ordinal(dmls, g)
    BY <1>2
  <2>2. Fits(tree, dmls) /\ g \in DOMAIN dmls
    BY <1>1, <1>2
  <2>3. TextOf(tree, dmls, s, d) = PublicClause(dmls[g].channels, tree[s][d].returning)
    BY ONLY <2>1, <2>2, TextAtPlace
  <2>4. QED
    BY <1>2, <1>8, <2>3
<1>11. QED
  BY <1>2, <1>9, <1>10

-----------------------------------------------------------------------------
(* The promise of OutputChannels.                                          *)

LEMMA PlainTyped ==
    ASSUME NEW list \in Seq(Target)
    PROVE  Plain(list) \in Clause
<1> DEFINE columns == <<>>
<1>1. None \in Sink /\ columns \in Seq(STRING)
  BY DEF Sink
<1> HIDE DEF columns
<1>2. <<PublicChannel(None, columns, list)>> \in Clause
  BY <1>1, OneChannelTyped
<1>3. QED
  BY <1>2, NoClauseTyped DEF Plain, columns

LEMMA ClauseTyped ==
    ASSUME DmlInvariant, NEW s \in DOMAIN tree, NEW k \in DOMAIN tree[s]
    PROVE  ClauseOf(s, k) \in Clause
<1> DEFINE list == tree[s][k].returning
<1>1. tree \in Seq(Seq(NodeRecord)) /\ PairsInvariant
  BY DEF DmlInvariant
<1>2. list \in Seq(Target)
  <2>1. tree[s] \in Seq(NodeRecord)
    BY <1>1
  <2>2. tree[s][k] \in NodeRecord
    BY <2>1
  <2>3. QED
    BY <2>2 DEF NodeRecord
<1>3. pairs[s] \in Nat
  BY <1>1 DEF PairsInvariant
<1>4. CASE pairs[s] > 0
  <2>1. PairedStatement(s)
    BY <1>1, <1>4 DEF PairsInvariant
  <2>2. k = 1 /\ dialect = "oracle"
    BY <2>1, PairedTree DEF PairedStatement
  <2>3. Len(list) = 2 * pairs[s] /\ HasReceivers(list, pairs[s])
    BY <2>1, <2>2 DEF PairedStatement
  <2>4. dialect # "sqlserver"
    BY <2>2
  <2>5. ClauseOf(s, k) = PairedClause(pairs[s], list)
    BY <1>4, <2>4, Zenon DEF ClauseOf
  <2> HIDE DEF list
  <2>6. PairedClause(pairs[s], list) \in Clause
    BY <1>2, <1>3, <2>3, PairedClauseFacts
  <2>7. QED
    BY <2>5, <2>6
<1>5. CASE pairs[s] = 0 /\ dialect = "sqlserver"
  <2>1. Fits(tree, dmls)
    BY <1>5 DEF DmlInvariant
  <2>2. ClauseOf(s, k) = TextOf(tree, dmls, s, k)
    BY <1>5, ClauseIsText
  <2>3. CASE HasPlace(dmls, s, k)
    <3>1. PICK g \in DOMAIN dmls : s = dmls[g].statement /\ k = Ordinal(dmls, g)
      BY <2>3 DEF HasPlace
    <3> DEFINE channels == dmls[g].channels
    <3>2. /\ channels \in Seq(Channel) /\ list \in Seq(Target)
          /\ Len(channels) <= 2 /\ Tiles(channels, Len(list))
          /\ TextOf(tree, dmls, s, k) = PublicClause(channels, list)
      BY ONLY <2>1, <3>1, TextAtPlace
    <3> HIDE DEF channels, list
    <3>3. PublicClause(channels, list) \in Clause
      BY <3>2, PublicClauseFacts
    <3>4. QED
      BY <2>2, <3>2, <3>3
  <2>4. CASE ~HasPlace(dmls, s, k)
    <3>1. TextOf(tree, dmls, s, k) = Plain(list)
      BY <2>1, <2>4, TextElsewhere
    <3> HIDE DEF list
    <3>2. QED
      BY <1>2, <2>2, <3>1, PlainTyped
  <2>5. QED
    BY <2>3, <2>4
<1>6. CASE pairs[s] = 0 /\ dialect # "sqlserver"
  <2>1. ~(pairs[s] > 0)
    BY <1>6
  <2>2. ClauseOf(s, k) = Plain(list)
    BY <1>6, <2>1, Zenon DEF ClauseOf, Plain
  <2> HIDE DEF list
  <2>3. QED
    BY <1>2, <2>2, PlainTyped
<1>7. QED
  BY <1>3, <1>4, <1>5, <1>6

\* What is written is one clause for each DML.
LEMMA DeparsedTyped ==
    ASSUME DmlInvariant, Live
    PROVE  /\ Deparsed \in Seq(Seq(Clause)) /\ Deparsed # None
           /\ Deparsed = [s \in DOMAIN tree |-> [k \in DOMAIN tree[s] |-> ClauseOf(s, k)]]
<1> DEFINE T == Seq(Clause)
           P(s) == [k \in DOMAIN tree[s] |-> ClauseOf(s, k)]
<1>1. Deparsed = [s \in DOMAIN tree |-> P(s)]
  BY DEF Deparsed
<1>2. tree \in Seq(Seq(NodeRecord))
  BY DEF DmlInvariant
<1>3. ASSUME NEW s \in DOMAIN tree PROVE P(s) \in T
  <2> DEFINE n == Len(tree[s])
             Q(k) == ClauseOf(s, k)
  <2>1. tree[s] \in Seq(NodeRecord)
    BY <1>2
  <2>2. DOMAIN tree[s] = 1..n /\ n \in Nat
    BY <2>1
  <2>3. \A k \in 1..n : Q(k) \in Clause
    BY <2>2, ClauseTyped
  <2>4. P(s) = [k \in 1..n |-> Q(k)]
    BY <2>2
  <2> HIDE DEF n, Q, P
  <2>5. [k \in 1..n |-> Q(k)] \in Seq(Clause)
    BY <2>2, <2>3
  <2>6. QED
    BY <2>4, <2>5
<1>4. DOMAIN tree = 1..Len(tree) /\ Len(tree) \in Nat
  BY <1>2
<1> DEFINE m == Len(tree)
<1>5. \A s \in 1..m : P(s) \in T
  BY <1>3, <1>4
<1>6. Deparsed = [s \in 1..m |-> P(s)] /\ m \in Nat
  BY <1>1, <1>4
<1>7. [s \in 1..m |-> P(s)] \in Seq(T)
  <2> HIDE DEF T, P, m
  <2>1. QED
    BY <1>5, <1>6
<1>8. Deparsed \in Seq(Seq(Clause))
  BY <1>6, <1>7
<1>9. QED
  BY <1>1, <1>8, NoneAssumption

\* A step that writes another clause at one place, as an edit of what is written.
LEMMA DeparsedDiffers ==
    ASSUME DmlInvariant, Live, Live', NEW s \in DOMAIN tree, NEW d \in DOMAIN tree[s],
           NEW clause, Differs(s, d, clause)
    PROVE  Deparsed' = [Deparsed EXCEPT ![s][d] = clause]
<1> DEFINE now == Deparsed
           P(r) == [k \in DOMAIN tree[r] |-> ClauseOf(r, k)]
           Q(r) == [k \in DOMAIN tree[r] |-> IF r = s /\ k = d THEN clause ELSE ClauseOf(r, k)]
<1>1. now = [r \in DOMAIN tree |-> P(r)]
  BY DEF Deparsed
<1>2. Deparsed' = [r \in DOMAIN tree' |-> [k \in DOMAIN tree'[r] |-> ClauseOf(r, k)']]
  BY DEF Deparsed
<1>3. Deparsed' = [r \in DOMAIN tree |-> Q(r)]
  BY <1>2 DEF Differs
<1>4. \A r \in DOMAIN tree : r # s => Q(r) = P(r)
  OBVIOUS
<1>5. Q(s) = [P(s) EXCEPT ![d] = clause]
  OBVIOUS
<1> HIDE DEF P, Q
<1>6. [r \in DOMAIN tree |-> Q(r)] = [now EXCEPT ![s] = Q(s)]
  BY <1>1, <1>4
<1>7. now[s] = P(s)
  BY <1>1
<1>8. Deparsed' = [now EXCEPT ![s] = [now[s] EXCEPT ![d] = clause]]
  BY <1>3, <1>5, <1>6, <1>7
<1>9. QED
  BY <1>8

LEMMA EditIsWritten ==
    ASSUME DmlInvariant, Live, Live', NEW s \in DOMAIN tree, NEW d \in DOMAIN tree[s],
           NEW c \in DOMAIN ClauseOf(s, d), NEW new \in Written!Edited(ClauseOf(s, d)[c]),
           Differs(s, d, [ClauseOf(s, d) EXCEPT ![c] = new])
    PROVE  Written!Edit
<1> DEFINE now == Deparsed
           clause == ClauseOf(s, d)
           edited == [clause EXCEPT ![c] = new]
<1>1. Deparsed' = [now EXCEPT ![s][d] = edited]
  <2> HIDE DEF clause
  <2> DEFINE next == edited
  <2>1. Differs(s, d, next)
    BY DEF clause
  <2> HIDE DEF next
  <2>2. Deparsed' = [Deparsed EXCEPT ![s][d] = next]
    BY <2>1, DeparsedDiffers
  <2>3. QED
    BY <2>2 DEF next
<1>2. now # None /\ DOMAIN now = DOMAIN tree /\ DOMAIN now[s] = DOMAIN tree[s] /\ now[s][d] = clause
  BY DeparsedTyped
<1> HIDE DEF now, clause
<1>3. Deparsed' = [now EXCEPT ![s][d][c] = new]
  BY <1>1, <1>2
<1>4. s \in DOMAIN now /\ d \in DOMAIN now[s] /\ c \in DOMAIN now[s][d]
      /\ new \in Written!Edited(now[s][d][c])
  BY <1>2 DEF clause
<1>5. \E q \in {Deparsed} : \E r \in DOMAIN q : \E k \in DOMAIN q[r] : \E b \in DOMAIN q[r][k] :
          Deparsed' \in {[q EXCEPT ![r][k][b] = x] : x \in Written!Edited(q[r][k][b])}
                          \cup {[q EXCEPT ![r][k] = x] : x \in Written!Emptied(q[r][k], b)}
  <2>1. Deparsed' \in {[now EXCEPT ![s][d][c] = x] : x \in Written!Edited(now[s][d][c])}
    BY <1>3, <1>4
  <2>2. now \in {Deparsed}
    BY DEF now
  <2>3. QED
    BY <1>4, <2>1, <2>2
<1>6. QED
  BY <1>2, <1>5 DEF Written!Edit, now

\* $action comes back: sqlparser_sqlserver_output_postprocess_target_sql undoes
\* sqlparser_sqlserver_output_target_sql, since the marker is no word of the text.
LEMMA SwappedBack ==
    ASSUME NEW target \in Target, NEW marker, marker \notin ToSet(target)
    PROVE  Swap(Swap(target, Action, marker), marker, Action) = target
<1>1. target \in Seq(Word)
  BY DEF Target
<1>2. target = [w \in DOMAIN target |-> target[w]]
  BY <1>1
<1>3. \A w \in DOMAIN target : target[w] # marker
  BY DEF ToSet
<1> DEFINE there == Swap(target, Action, marker)
<1>4. DOMAIN there = DOMAIN target
      /\ \A w \in DOMAIN target : there[w] = IF target[w] = Action THEN marker ELSE target[w]
  BY DEF Swap
<1> HIDE DEF there
<1> HIDE DEF Action
<1>5. Swap(there, marker, Action)
          = [w \in DOMAIN target |-> IF there[w] = marker THEN Action ELSE there[w]]
  BY <1>4 DEF Swap
<1>6. \A w \in DOMAIN target : (IF there[w] = marker THEN Action ELSE there[w]) = target[w]
  BY <1>3, <1>4
<1>7. QED
  BY <1>2, <1>5, <1>6 DEF there

LEMMA NothingSwapped ==
    ASSUME NEW target \in Target, NEW marker, Action \notin ToSet(target)
    PROVE  Swap(target, Action, marker) = target
<1>1. target \in Seq(Word)
  BY DEF Target
<1>2. target = [w \in DOMAIN target |-> target[w]]
  BY <1>1
<1>3. \A w \in DOMAIN target : target[w] # Action
  BY DEF ToSet
<1> HIDE DEF Action
<1>4. QED
  BY <1>2, <1>3 DEF Swap

LEMMA TargetComesBack ==
    ASSUME NEW targets \in Seq(Target), HasMarker(targets), NEW i \in DOMAIN targets
    PROVE  Public(ParserTargets(targets)[i],
                  IF Action \in ToSet(targets[i]) THEN MarkerFor(targets) ELSE None) = targets[i]
<1> DEFINE target == targets[i]
           marker == MarkerFor(targets)
<1>1. target \in Target
  OBVIOUS
<1>2. ParserTargets(targets)[i] = Swap(target, Action, marker)
  BY DEF ParserTargets
<1>3. CASE Action \in ToSet(target)
  <2>1. Action \in Words(targets)
    BY <1>3 DEF Words
  <2>2. marker \in ToSet(Markers) /\ marker \notin Words(targets)
    BY <2>1, MarkerForFacts
  <2>3. marker # None /\ marker \notin ToSet(target)
    BY <2>2, MarkersAreText DEF Words
  <2> HIDE DEF target, marker
  <2>4. Swap(Swap(target, Action, marker), marker, Action) = target
    BY <1>1, <2>3, SwappedBack
  <2>5. Public(Swap(target, Action, marker), marker) = target
    BY <2>3, <2>4 DEF Public
  <2>6. QED
    BY <1>2, <1>3, <2>5 DEF target, marker
<1>4. CASE Action \notin ToSet(target)
  <2> HIDE DEF target, marker
  <2>1. Swap(target, Action, marker) = target
    BY <1>1, <1>4, NothingSwapped
  <2>2. QED
    BY <1>2, <1>4, <2>1 DEF Public, target
<1>5. QED
  BY <1>3, <1>4

LEMMA FragmentComesBack ==
    ASSUME NEW t \in Fragments
    PROVE  Public(Parsed(t), Marker(t)) = t
<1> DEFINE targets == <<t>>
<1>1. t \in Target /\ HasMarker(targets)
  BY TextAssumption
<1>2. targets \in Seq(Target) /\ DOMAIN targets = {1} /\ targets[1] = t
  BY <1>1
<1>3. Words(targets) = ToSet(t)
  <2>1. Words(targets) = UNION {ToSet(targets[i]) : i \in {1}}
    BY <1>2 DEF Words
  <2>2. QED
    BY <1>2, <2>1
<1> HIDE DEF targets
<1>4. Public(ParserTargets(targets)[1],
             IF Action \in ToSet(targets[1]) THEN MarkerFor(targets) ELSE None) = targets[1]
  BY <1>1, <1>2, TargetComesBack
<1>5. Action \notin ToSet(t) => MarkerFor(targets) = None
  BY <1>3 DEF MarkerFor
<1>6. QED
  BY <1>2, <1>4, <1>5 DEF Parsed, Marker, targets

-----------------------------------------------------------------------------
(* Edits of one channel.                                                   *)

LEMMA SameText ==
    ASSUME NEW x, NEW y, NEW p, NEW q, NEW b,
           y[b].sink = x[b].sink, y[b].columns = x[b].columns, y[b].count = x[b].count,
           \A j \in 1..x[b].count : /\ q[y[b].offset + j] = p[x[b].offset + j]
                                    /\ MarkerAt(y[b], j) = MarkerAt(x[b], j)
    PROVE  ChannelText(y, q, b) = ChannelText(x, p, b)
<1>1. TargetsText(y, q, b) = TargetsText(x, p, b)
  BY DEF TargetsText
<1>2. QED
  BY <1>1 DEF ChannelText

\* An edit of the channels x and their list p to y and q leaves all texts but
\* that of channel c, and a clause or another sequence is edited at c.
OthersStay(x, y, p, q, c) ==
    \A b \in DOMAIN x : b # c => ChannelText(y, q, b) = ChannelText(x, p, b)
EditedAt(old, new, c, e) == c \in DOMAIN old /\ new = [old EXCEPT ![c] = e]

LEMMA ClauseEdited ==
    ASSUME NEW x \in Seq(Channel), NEW y \in Seq(Channel), NEW p \in Seq(Target),
           NEW q \in Seq(Target), Len(x) <= 2, Len(y) = Len(x),
           Tiles(x, Len(p)), Tiles(y, Len(q)), NEW c \in DOMAIN x,
           OthersStay(x, y, p, q, c)
    PROVE  /\ EditedAt(PublicClause(x, p), PublicClause(y, q), c, ChannelText(y, q, c))
           /\ PublicClause(x, p)[c] = ChannelText(x, p, c)
<1> DEFINE n == Len(x)
           F(b) == ChannelText(x, p, b)
           G(b) == ChannelText(y, q, b)
<1>1. PublicClause(x, p) = [b \in 1..n |-> F(b)]
  BY PublicClauseFacts
<1>2. PublicClause(y, q) = [b \in 1..n |-> G(b)]
  BY PublicClauseFacts
<1>3. DOMAIN x = 1..n
  BY SeqChannelFacts
<1>4. \A b \in 1..n : b # c => G(b) = F(b)
  BY <1>3 DEF OthersStay
<1> HIDE DEF n, F, G
<1>5. PublicClause(y, q) = [PublicClause(x, p) EXCEPT ![c] = G(c)]
  BY <1>1, <1>2, <1>3, <1>4
<1>6. QED
  BY <1>1, <1>3, <1>5 DEF F, G, EditedAt

\* sqlparser_sqlserver_output_channel_set_action
LEMMA MarkedAt ==
    ASSUME NEW x \in Seq(Channel), NEW c \in DOMAIN x, NEW i, NEW marker,
           NEW y, y = Marked(x, c, i, marker)
    PROVE  /\ \A b \in DOMAIN x :
                  /\ y[b].sink = x[b].sink /\ y[b].columns = x[b].columns
                  /\ y[b].offset = x[b].offset /\ y[b].count = x[b].count
           /\ \A b \in DOMAIN x : b # c => y[b] = x[b]
           /\ \A j : MarkerAt(y[c], j) = IF j = i THEN marker ELSE MarkerAt(x[c], j)
<1> DEFINE old == x[c].actions
           new == IF marker = None THEN [j \in DOMAIN old \ {i} |-> old[j]]
                  ELSE [j \in DOMAIN old \cup {i} |-> IF j = i THEN marker ELSE old[j]]
<1>1. y = [x EXCEPT ![c] = [x[c] EXCEPT !.actions = new]]
  BY DEF Marked
<1>2. x[c] \in Channel
  OBVIOUS
<1>3. x[c] = [sink |-> x[c].sink, columns |-> x[c].columns, offset |-> x[c].offset,
              count |-> x[c].count, actions |-> x[c].actions]
  BY <1>2 DEF Channel
<1> DEFINE changed == [x[c] EXCEPT !.actions = new]
<1> HIDE DEF new
<1>4. /\ changed.sink = x[c].sink /\ changed.columns = x[c].columns
      /\ changed.offset = x[c].offset /\ changed.count = x[c].count /\ changed.actions = new
  BY <1>3
<1> HIDE DEF changed
<1>5. y = [x EXCEPT ![c] = changed]
  BY <1>1 DEF changed
<1>6. y[c] = changed /\ \A b \in DOMAIN x : b # c => y[b] = x[b]
  BY <1>5
<1>7. ASSUME NEW j PROVE MarkerAt(y[c], j) = IF j = i THEN marker ELSE MarkerAt(x[c], j)
  <2>1. MarkerAt(y[c], j) = IF j \in DOMAIN new THEN new[j] ELSE None
    BY <1>4, <1>6 DEF MarkerAt
  <2>2. CASE marker = None
    <3>1. new = [k \in DOMAIN old \ {i} |-> old[k]]
      BY <2>2 DEF new
    <3>2. QED
      BY <2>1, <2>2, <3>1 DEF MarkerAt
  <2>3. CASE marker # None
    <3>1. new = [k \in DOMAIN old \cup {i} |-> IF k = i THEN marker ELSE old[k]]
      BY <2>3 DEF new
    <3>2. QED
      BY <2>1, <2>3, <3>1 DEF MarkerAt
  <2>4. QED
    BY <2>2, <2>3
<1>8. QED
  BY <1>4, <1>6, <1>7

\* sqlparser_dml_result_set_target_sql
LEMMA ReplacedText ==
    ASSUME NEW x \in Seq(Channel), Len(x) <= 2, NEW p \in Seq(Target), Tiles(x, Len(p)),
           NEW c \in DOMAIN x, NEW i \in 1..x[c].count, NEW t \in Fragments,
           NEW y, y = Marked(x, c, i, Marker(t)),
           NEW q, q = [p EXCEPT ![x[c].offset + i] = Parsed(t)]
    PROVE  /\ OthersStay(x, y, p, q, c)
           /\ ChannelText(y, q, c) = PublicChannel(x[c].sink, x[c].columns,
                                         [TargetsText(x, p, c) EXCEPT ![i] = t])
<1> DEFINE n == Len(p)
           place == x[c].offset + i
<1>1. /\ DOMAIN x = 1..Len(x)
      /\ \A b \in DOMAIN x : IsChannel(x[b]) /\ x[b].offset \in Nat /\ x[b].count \in Nat
  BY SeqChannelFacts DEF IsChannel
<1>2. /\ \A b \in DOMAIN x :
             /\ y[b].sink = x[b].sink /\ y[b].columns = x[b].columns
             /\ y[b].offset = x[b].offset /\ y[b].count = x[b].count
      /\ \A b \in DOMAIN x : b # c => y[b] = x[b]
      /\ \A j : MarkerAt(y[c], j) = IF j = i THEN Marker(t) ELSE MarkerAt(x[c], j)
  BY MarkedAt
<1>3. n \in Nat /\ DOMAIN p = 1..n
  OBVIOUS
<1>4. \A a, b \in DOMAIN x : /\ a < b => x[a].offset + x[a].count <= x[b].offset
                             /\ x[a].offset + x[a].count <= n
  BY <1>1, <1>3, ChannelsInOrder
<1>5. place \in DOMAIN p
  <2> DEFINE oc == x[c].offset
             nc == x[c].count
  <2>1. oc \in Nat /\ nc \in Nat /\ i \in 1..nc
    BY <1>1
  <2>2. oc + nc <= n
    BY <1>4
  <2> HIDE DEF oc, nc, n
  <2>3. oc + i \in 1..n
    BY <1>3, <2>1, <2>2
  <2>4. QED
    BY <1>3, <2>3 DEF oc
<1>6. q[place] = Parsed(t) /\ \A k : k # place => q[k] = p[k]
  BY <1>5
<1>7. ASSUME NEW b \in DOMAIN x, b # c
      PROVE  ChannelText(y, q, b) = ChannelText(x, p, b)
  <2>1. ASSUME NEW j \in 1..x[b].count
        PROVE  /\ q[y[b].offset + j] = p[x[b].offset + j]
               /\ MarkerAt(y[b], j) = MarkerAt(x[b], j)
    <3> DEFINE ob == x[b].offset
               nb == x[b].count
               oc == x[c].offset
               nc == x[c].count
    <3>1. ob \in Nat /\ nb \in Nat /\ oc \in Nat /\ nc \in Nat /\ b \in Int /\ c \in Int
          /\ j \in 1..nb /\ i \in 1..nc
      BY <1>1
    <3>2. (b < c => ob + nb <= oc) /\ (c < b => oc + nc <= ob)
      BY <1>4
    <3> HIDE DEF ob, nb, oc, nc
    <3>3. ob + j # oc + i
      <4>1. CASE b < c
        BY ONLY <3>1, <3>2, <4>1
      <4>2. CASE c < b
        BY ONLY <3>1, <3>2, <4>2
      <4>3. b < c \/ c < b
        BY ONLY <1>7, <3>1
      <4>4. QED
        BY <4>1, <4>2, <4>3
    <3>4. x[b].offset + j # place
      BY <3>3 DEF ob, oc
    <3>5. QED
      BY <1>2, <1>6, <1>7, <3>4
  <2>2. y[b].sink = x[b].sink /\ y[b].columns = x[b].columns /\ y[b].count = x[b].count
    BY <1>2
  <2>3. QED
    BY ONLY <2>1, <2>2, SameText
<1>8. TargetsText(y, q, c) = [TargetsText(x, p, c) EXCEPT ![i] = t]
  <2> DEFINE offset == x[c].offset
             count == x[c].count
             P(j) == Public(p[offset + j], MarkerAt(x[c], j))
             Q(j) == Public(q[offset + j], MarkerAt(y[c], j))
  <2>1. TargetsText(x, p, c) = [j \in 1..count |-> P(j)]
    BY DEF TargetsText
  <2>2. TargetsText(y, q, c) = [j \in 1..count |-> Q(j)]
    BY <1>2 DEF TargetsText
  <2>3. Q(i) = t
    BY <1>2, <1>6, FragmentComesBack
  <2>4. ASSUME NEW j \in 1..count, j # i PROVE Q(j) = P(j)
    <3>1. offset \in Nat /\ i \in Int /\ j \in Int
      BY <1>1
    <3>2. offset + j # offset + i
      <4> HIDE DEF offset
      <4>1. QED
        BY <2>4, <3>1
    <3>3. QED
      BY <1>2, <1>6, <2>4, <3>2
  <2>5. i \in 1..count
    OBVIOUS
  <2> HIDE DEF P, Q, count
  <2>6. [j \in 1..count |-> Q(j)] = [[j \in 1..count |-> P(j)] EXCEPT ![i] = t]
    BY <2>3, <2>4, <2>5
  <2>7. QED
    BY <2>1, <2>2, <2>6
<1>9. QED
  BY <1>2, <1>7, <1>8 DEF ChannelText, OthersStay

\* sqlparser_dml_result_insert_target_sql
LEMMA InsertedText ==
    ASSUME NEW x \in Seq(Channel), Len(x) <= 2, NEW p \in Seq(Target), Tiles(x, Len(p)),
           NEW c \in DOMAIN x, NEW i \in 1..(x[c].count + 1), NEW t \in Fragments,
           NEW y, y = Marked(Grown(x, c, i), c, i, Marker(t)),
           NEW q, q = InsertAt(p, x[c].offset + i, Parsed(t))
    PROVE  /\ OthersStay(x, y, p, q, c)
           /\ ChannelText(y, q, c) = PublicChannel(x[c].sink, x[c].columns,
                                         InsertAt(TargetsText(x, p, c), i, t))
<1> DEFINE g == Grown(x, c, i)
           moved == ActionsAfterInsert(x[c].actions, i)
<1>1. /\ DOMAIN x = 1..Len(x) /\ \A b \in DOMAIN x : IsChannel(x[b])
      /\ x[c].offset \in Nat /\ x[c].count \in Nat /\ x[c].actions \in Marks
      /\ Len(p) \in Nat
  <2>1. x[c] \in Channel
    OBVIOUS
  <2>2. QED
    BY <2>1, SeqChannelFacts, ChannelFacts DEF IsChannel
<1>2. g \in Seq(Channel) /\ DOMAIN g = DOMAIN x
  <2>1. moved \in Marks
    <3>1. i \in Nat \ {0}
      BY <1>1
    <3>2. QED
      BY <1>1, <3>1, ActionsStayMarks
  <2>2. 1 \in {1, -1} /\ x[c].count + 1 >= 0
    BY <1>1
  <2>3. g = Adjusted(x, c, moved, 1)
    BY DEF Grown
  <2> HIDE DEF moved
  <2>4. Adjusted(x, c, moved, 1) \in Seq(Channel) /\ Len(Adjusted(x, c, moved, 1)) = Len(x)
    BY <1>1, <2>1, <2>2, AdjustedTyped
  <2>5. g \in Seq(Channel) /\ Len(g) = Len(x)
    BY <2>3, <2>4
  <2> HIDE DEF g
  <2>6. DOMAIN g = 1..Len(g)
    BY <2>5
  <2>7. QED
    BY <1>1, <2>5, <2>6
<1>3. ASSUME NEW b \in DOMAIN x
      PROVE  /\ g[b].sink = x[b].sink /\ g[b].columns = x[b].columns
             /\ g[b].count = IF b = c THEN x[b].count + 1 ELSE x[b].count
             /\ b = c => g[b].offset = x[b].offset
  <2> DEFINE after == Adjusted(x, c, moved, 1)
  <2>1. g = after /\ after = Adjusted(x, c, moved, 1) /\ 1 \in {1, -1}
    BY DEF Grown
  <2> HIDE DEF after, g, moved
  <2>2. /\ after[b].offset = IF b > c THEN x[b].offset + 1 ELSE x[b].offset
        /\ after[b].count = IF b = c THEN x[b].count + 1 ELSE x[b].count
        /\ after[b].sink = x[b].sink /\ after[b].columns = x[b].columns
    <3>1. \A a \in DOMAIN x : IsChannel(x[a])
      BY <1>1
    <3>2. QED
      BY <2>1, <3>1, AdjustedFacts
  <2>3. b = c => ~(b > c)
    BY <1>1
  <2>4. QED
    BY <2>1, <2>2, <2>3
<1>4. y = Marked(g, c, i, Marker(t))
  OBVIOUS
<1>5. ASSUME NEW b \in DOMAIN x, NEW j \in 1..x[b].count
      PROVE  LET place == PlaceAfterInsert(b, j, c, i)
             IN  /\ q[g[b].offset + place] = p[x[b].offset + j]
                 /\ MarkerAt(g[b], place) = MarkerAt(x[b], j)
  <2>1. Parsed(t) \in Target
    BY FragmentFacts
  <2>2. \A a \in DOMAIN x : IsChannel(x[a])
    BY <1>1
  <2> DEFINE r == Parsed(t)
  <2>3. r \in Target
    BY <2>1
  <2>4. q = InsertAt(p, x[c].offset + i, r)
    OBVIOUS
  <2> HIDE DEF r
  <2>5. LET after == Grown(x, c, i)
            place == PlaceAfterInsert(b, j, c, i)
        IN  /\ InsertAt(p, x[c].offset + i, r)[after[b].offset + place] = p[x[b].offset + j]
            /\ MarkerAt(after[b], place) = MarkerAt(x[b], j)
    BY <2>2, <2>3, InsertionKeepsTargets
  <2>6. QED
    BY <2>4, <2>5
<1> HIDE DEF g
<1>6. /\ \A b \in DOMAIN x :
             /\ y[b].sink = g[b].sink /\ y[b].columns = g[b].columns
             /\ y[b].offset = g[b].offset /\ y[b].count = g[b].count
      /\ \A b \in DOMAIN x : b # c => y[b] = g[b]
      /\ \A j : MarkerAt(y[c], j) = IF j = i THEN Marker(t) ELSE MarkerAt(g[c], j)
  BY <1>2, <1>4, MarkedAt
<1>7. ASSUME NEW b \in DOMAIN x, b # c
      PROVE  ChannelText(y, q, b) = ChannelText(x, p, b)
  <2>1. ASSUME NEW j \in 1..x[b].count
        PROVE  /\ q[y[b].offset + j] = p[x[b].offset + j]
               /\ MarkerAt(y[b], j) = MarkerAt(x[b], j)
    <3>1. PlaceAfterInsert(b, j, c, i) = j
      BY <1>7 DEF PlaceAfterInsert
    <3>2. QED
      BY <1>5, <1>6, <1>7, <3>1
  <2>2. y[b].sink = x[b].sink /\ y[b].columns = x[b].columns /\ y[b].count = x[b].count
    BY <1>3, <1>6, <1>7
  <2>3. QED
    BY ONLY <2>1, <2>2, SameText
<1>8. TargetsText(y, q, c) = InsertAt(TargetsText(x, p, c), i, t)
  <2> DEFINE offset == x[c].offset
             count == x[c].count
             P(j) == Public(p[offset + j], MarkerAt(x[c], j))
             Q(j) == Public(q[offset + j], MarkerAt(y[c], j))
             old == TargetsText(x, p, c)
             new == InsertAt(old, i, t)
  <2>1. old = [j \in 1..count |-> P(j)]
    BY DEF TargetsText
  <2>2. TargetsText(y, q, c) = [j \in 1..count + 1 |-> Q(j)]
    BY <1>3, <1>6 DEF TargetsText
  <2>3. old \in Seq(Target) /\ t \in Target
    <3>1. x[c].offset + x[c].count <= Len(p)
      BY <1>1, ChannelsInOrder
    <3>2. QED
      BY <3>1, TargetsTextTyped, FragmentFacts
  <2>4. count \in Nat /\ i \in 1..count + 1 /\ offset \in Nat /\ offset + count <= Len(p)
        /\ Len(p) \in Nat
    BY <1>1, ChannelsInOrder
  <2>5. Q(i) = t
    <3> DEFINE k == offset + i
               r == Parsed(t)
               n == Len(p)
    <3>1. k \in 1..(n + 1) /\ r \in Target
      <4>1. k \in 1..(n + 1)
        <5> HIDE DEF offset, count, n
        <5>1. n \in Nat /\ offset + count <= n
          BY <2>4 DEF n
        <5>2. QED
          BY <2>4, <5>1
      <4>2. QED
        BY <4>1, FragmentFacts
    <3>2. k \in 1..(Len(p) + 1) /\ k \in Int
      BY <3>1
    <3> HIDE DEF k, r, n
    <3>3. InsertAt(p, k, r)[k] = r
      BY <3>1, <3>2, InsertAtFacts
    <3>4. q[k] = r
      BY <3>3 DEF k, r
    <3>5. QED
      BY <1>6, <3>4, FragmentComesBack DEF k, r
  <2>6. ASSUME NEW j \in 1..count, j < i PROVE Q(j) = P(j)
    <3>1. PlaceAfterInsert(c, j, c, i) = j /\ j # i
      BY <2>4, <2>6 DEF PlaceAfterInsert
    <3>2. q[g[c].offset + j] = p[x[c].offset + j] /\ MarkerAt(g[c], j) = MarkerAt(x[c], j)
      BY <1>5, <3>1
    <3>3. g[c].offset = x[c].offset
      BY <1>3
    <3>4. QED
      BY <1>6, <3>1, <3>2, <3>3
  <2>7. ASSUME NEW j \in 1..count, j >= i PROVE Q(j + 1) = P(j)
    <3>1. PlaceAfterInsert(c, j, c, i) = j + 1 /\ j + 1 # i
      BY <2>4, <2>7 DEF PlaceAfterInsert
    <3>2. q[g[c].offset + (j + 1)] = p[x[c].offset + j] /\ MarkerAt(g[c], j + 1) = MarkerAt(x[c], j)
      BY <1>5, <3>1
    <3>3. g[c].offset = x[c].offset
      BY <1>3
    <3>4. QED
      BY <1>6, <3>1, <3>2, <3>3
  <2> HIDE DEF P, Q, count, offset, old
  <2>8. Len(old) = count /\ \A j \in 1..count : old[j] = P(j)
    BY <2>1, <2>4
  <2>9. /\ DOMAIN new = 1..(count + 1) /\ new \in Seq(Target)
        /\ \A j \in 1..(count + 1) :
               new[j] = IF j < i THEN old[j] ELSE IF j = i THEN t ELSE old[j - 1]
    <3>1. i \in 1..(Len(old) + 1)
      BY <2>4, <2>8
    <3>2. /\ InsertAt(old, i, t) \in Seq(Target)
          /\ DOMAIN InsertAt(old, i, t) = 1..(Len(old) + 1)
          /\ \A j \in 1..(Len(old) + 1) :
                 InsertAt(old, i, t)[j] = IF j < i THEN old[j] ELSE IF j = i THEN t ELSE old[j - 1]
      <4>1. InsertAt(old, i, t) \in Seq(Target)
            /\ IsInsertion(InsertAt(old, i, t), old, i, t)
        BY ONLY <2>3, <3>1, InsertionIs
      <4>2. QED
        BY ONLY <4>1 DEF IsInsertion
    <3>3. QED
      BY <2>8, <3>2
  <2> HIDE DEF new
  <2>10. ASSUME NEW j \in 1..count + 1 PROVE new[j] = Q(j)
    <3>1. CASE j < i
      <4>1. j \in 1..count
        BY <2>4, <3>1
      <4>2. QED
        BY <2>6, <2>8, <2>9, <3>1, <4>1
    <3>2. CASE j = i
      BY <2>4, <2>5, <2>9, <3>2
    <3>3. CASE j > i
      <4> DEFINE m == j - 1
      <4>1. m \in 1..count /\ m >= i /\ m + 1 = j /\ ~(j < i) /\ j # i
        BY <2>4, <3>3
      <4>2. new[j] = old[m]
        BY <2>9, <4>1
      <4> HIDE DEF m
      <4>3. Q(m + 1) = P(m)
        BY <2>7, <4>1
      <4>4. QED
        BY <2>8, <4>1, <4>2, <4>3
    <3>4. QED
      BY <2>4, <3>1, <3>2, <3>3
  <2>11. new = [j \in 1..count + 1 |-> new[j]]
    BY <2>9
  <2>12. new = [j \in 1..count + 1 |-> Q(j)]
    BY <2>10, <2>11
  <2>13. QED
    BY <2>2, <2>12 DEF new, old
<1>9. QED
  BY <1>3, <1>6, <1>7, <1>8 DEF ChannelText, OthersStay

\* sqlparser_dml_result_delete_target
LEMMA DeletedText ==
    ASSUME NEW x \in Seq(Channel), Len(x) <= 2, NEW p \in Seq(Target), Tiles(x, Len(p)),
           NEW c \in DOMAIN x, NEW i \in 1..x[c].count, x[c].count # 1,
           NEW y, y = Shrunk(x, c, i),
           NEW q, q = RemoveAt(p, x[c].offset + i)
    PROVE  /\ OthersStay(x, y, p, q, c)
           /\ ChannelText(y, q, c) = PublicChannel(x[c].sink, x[c].columns,
                                         RemoveAt(TargetsText(x, p, c), i))
<1> DEFINE moved == ActionsAfterDelete(x[c].actions, i)
<1>1. /\ DOMAIN x = 1..Len(x)
      /\ x[c].offset \in Nat /\ x[c].count \in Nat /\ Len(p) \in Nat
  BY SeqChannelFacts DEF IsChannel
<1>2. \A b \in DOMAIN x : IsChannel(x[b])
  BY SeqChannelFacts
<1>3. ASSUME NEW b \in DOMAIN x
      PROVE  /\ y[b].sink = x[b].sink /\ y[b].columns = x[b].columns
             /\ y[b].count = IF b = c THEN x[b].count + (-1) ELSE x[b].count
             /\ b = c => y[b].offset = x[b].offset
  <2>1. y = Adjusted(x, c, moved, -1) /\ -1 \in {1, -1}
    BY DEF Shrunk
  <2> HIDE DEF moved
  <2>2. /\ y[b].offset = IF b > c THEN x[b].offset + (-1) ELSE x[b].offset
        /\ y[b].count = IF b = c THEN x[b].count + (-1) ELSE x[b].count
        /\ y[b].sink = x[b].sink /\ y[b].columns = x[b].columns
    BY <1>2, <2>1, AdjustedFacts
  <2>3. b = c => ~(b > c)
    BY <1>1
  <2>4. QED
    BY <2>2, <2>3
<1>4. ASSUME NEW b \in DOMAIN x, NEW j \in 1..x[b].count, b = c => j # i
      PROVE  LET place == PlaceAfterDelete(b, j, c, i)
             IN  /\ q[y[b].offset + place] = p[x[b].offset + j]
                 /\ MarkerAt(y[b], place) = MarkerAt(x[b], j)
  <2>1. LET after == Shrunk(x, c, i)
            place == PlaceAfterDelete(b, j, c, i)
        IN  /\ RemoveAt(p, x[c].offset + i)[after[b].offset + place] = p[x[b].offset + j]
            /\ MarkerAt(after[b], place) = MarkerAt(x[b], j)
    BY <1>2, <1>4, DeletionKeepsTargets
  <2>2. QED
    BY <2>1
<1>5. ASSUME NEW b \in DOMAIN x, b # c
      PROVE  ChannelText(y, q, b) = ChannelText(x, p, b)
  <2>1. ASSUME NEW j \in 1..x[b].count
        PROVE  /\ q[y[b].offset + j] = p[x[b].offset + j]
               /\ MarkerAt(y[b], j) = MarkerAt(x[b], j)
    <3>1. PlaceAfterDelete(b, j, c, i) = j
      BY <1>5 DEF PlaceAfterDelete
    <3>2. QED
      BY <1>4, <1>5, <3>1
  <2>2. y[b].sink = x[b].sink /\ y[b].columns = x[b].columns /\ y[b].count = x[b].count
    BY <1>3, <1>5
  <2>3. QED
    BY ONLY <2>1, <2>2, SameText
<1>6. TargetsText(y, q, c) = RemoveAt(TargetsText(x, p, c), i)
  <2> DEFINE offset == x[c].offset
             count == x[c].count
             P(j) == Public(p[offset + j], MarkerAt(x[c], j))
             Q(j) == Public(q[offset + j], MarkerAt(y[c], j))
             old == TargetsText(x, p, c)
             new == RemoveAt(old, i)
  <2>1. old = [j \in 1..count |-> P(j)]
    BY DEF TargetsText
  <2>2. count \in Nat /\ i \in 1..count
    BY <1>1
  <2>3. TargetsText(y, q, c) = [j \in 1..count - 1 |-> Q(j)]
    <3>1. y[c].count = count - 1 /\ y[c].offset = offset
      BY <1>3, <2>2
    <3>2. QED
      BY <3>1 DEF TargetsText
  <2>4. old \in Seq(Target)
    <3>1. x[c].offset + x[c].count <= Len(p)
      BY <1>1, <1>2, ChannelsInOrder
    <3>2. QED
      BY <3>1, TargetsTextTyped
  <2>5. ASSUME NEW j \in 1..count, j < i PROVE Q(j) = P(j)
    <3>1. PlaceAfterDelete(c, j, c, i) = j /\ j # i
      BY <2>2, <2>5 DEF PlaceAfterDelete
    <3>2. q[y[c].offset + j] = p[x[c].offset + j] /\ MarkerAt(y[c], j) = MarkerAt(x[c], j)
      BY <1>4, <3>1
    <3>3. y[c].offset = x[c].offset
      BY <1>3
    <3>4. QED
      BY <3>2, <3>3
  <2>6. ASSUME NEW j \in 1..count, j > i PROVE Q(j - 1) = P(j)
    <3>1. PlaceAfterDelete(c, j, c, i) = j - 1 /\ j # i
      BY <2>2, <2>6 DEF PlaceAfterDelete
    <3>2. q[y[c].offset + (j - 1)] = p[x[c].offset + j] /\ MarkerAt(y[c], j - 1) = MarkerAt(x[c], j)
      BY <1>4, <3>1
    <3>3. y[c].offset = x[c].offset
      BY <1>3
    <3>4. QED
      BY <3>2, <3>3
  <2> HIDE DEF P, Q, count, offset, old
  <2>7. Len(old) = count /\ \A j \in 1..count : old[j] = P(j)
    BY <2>1, <2>2
  <2>8. /\ DOMAIN new = 1..(count - 1) /\ new \in Seq(Target)
        /\ \A j \in 1..(count - 1) : new[j] = IF j < i THEN old[j] ELSE old[j + 1]
    <3>1. i \in 1..Len(old)
      BY <2>2, <2>7
    <3>2. /\ RemoveAt(old, i) \in Seq(Target)
          /\ DOMAIN RemoveAt(old, i) = 1..(Len(old) - 1)
          /\ \A j \in 1..(Len(old) - 1) :
                 RemoveAt(old, i)[j] = IF j < i THEN old[j] ELSE old[j + 1]
      BY ONLY <2>4, <3>1, RemoveAtFacts
    <3>3. QED
      BY <2>7, <3>2
  <2> HIDE DEF new
  <2>9. ASSUME NEW j \in 1..count - 1 PROVE new[j] = Q(j)
    <3>1. CASE j < i
      <4>1. j \in 1..count
        BY <2>2, <3>1
      <4>2. QED
        BY <2>5, <2>7, <2>8, <3>1, <4>1
    <3>2. CASE j >= i
      <4> DEFINE m == j + 1
      <4>1. m \in 1..count /\ m > i /\ m - 1 = j /\ ~(j < i)
        BY <2>2, <3>2
      <4>2. new[j] = old[m]
        BY <2>8, <4>1
      <4> HIDE DEF m
      <4>3. Q(m - 1) = P(m)
        BY <2>6, <4>1
      <4>4. QED
        BY <2>7, <4>1, <4>2, <4>3
    <3>3. QED
      BY <2>2, <3>1, <3>2
  <2>10. new = [j \in 1..count - 1 |-> new[j]]
    BY <2>8
  <2>11. new = [j \in 1..count - 1 |-> Q(j)]
    BY <2>9, <2>10
  <2>12. QED
    BY <2>3, <2>11 DEF new, old
<1>7. y[c].sink = x[c].sink /\ y[c].columns = x[c].columns
  BY <1>3
<1>8. QED
  BY <1>5, <1>6, <1>7 DEF ChannelText, OthersStay

\* sqlparser_dml_result_mutate_sink
LEMMA ResunkText ==
    ASSUME NEW x \in Seq(Channel), NEW p, NEW c \in DOMAIN x, NEW channel,
           channel.offset = x[c].offset, channel.count = x[c].count,
           channel.actions = x[c].actions,
           NEW y, y = [x EXCEPT ![c] = channel]
    PROVE  /\ OthersStay(x, y, p, p, c)
           /\ ChannelText(y, p, c)
                  = PublicChannel(channel.sink, channel.columns, TargetsText(x, p, c))
<1>1. y[c] = channel /\ \A b \in DOMAIN x : b # c => y[b] = x[b]
  OBVIOUS
<1>2. OthersStay(x, y, p, p, c)
  BY <1>1 DEF ChannelText, TargetsText, OthersStay
<1>3. TargetsText(y, p, c) = TargetsText(x, p, c)
  BY <1>1 DEF TargetsText, MarkerAt
<1>4. QED
  BY <1>1, <1>2, <1>3 DEF ChannelText

-----------------------------------------------------------------------------
(* The edits that OutputChannels allows.                                   *)

\* OutputChannels has the operators on sequences by instance.
LEMMA SameOperators ==
    /\ \A s, i, e : Written!InsertAt(s, i, e) = InsertAt(s, i, e)
    /\ \A s, i : Written!RemoveAt(s, i) = RemoveAt(s, i)
    /\ \A s, i, e : Written!ReplaceAt(s, i, e) = ReplaceAt(s, i, e)
BY DEF Written!InsertAt, InsertAt, Written!RemoveAt, RemoveAt, Written!ReplaceAt, ReplaceAt

LEMMA ReplacedIsEdit ==
    ASSUME NEW sink, NEW columns, NEW targets, NEW i \in DOMAIN targets, NEW t \in Fragments
    PROVE  PublicChannel(sink, columns, [targets EXCEPT ![i] = t])
               \in Written!Edited(PublicChannel(sink, columns, targets))
<1> DEFINE channel == PublicChannel(sink, columns, targets)
           new == PublicChannel(sink, columns, [targets EXCEPT ![i] = t])
<1>1. new = [channel EXCEPT !.targets[i] = t] /\ i \in DOMAIN channel.targets
  BY DEF PublicChannel
<1> HIDE DEF channel, new
<1> DEFINE F(j, u) == [channel EXCEPT !.targets[j] = u]
<1>2. new \in Written!Replaced(channel)
  <2>1. Written!Replaced(channel) = {F(j, u) : j \in DOMAIN channel.targets, u \in Fragments}
    BY DEF Written!Replaced
  <2>2. new = F(i, t)
    BY <1>1
  <2> HIDE DEF F
  <2>3. QED
    BY <1>1, <2>1, <2>2
<1>3. QED
  BY <1>2 DEF Written!Edited, channel, new

LEMMA InsertedIsEdit ==
    ASSUME NEW sink, NEW columns, NEW targets, NEW i \in 1..(Len(targets) + 1),
           NEW t \in Fragments
    PROVE  PublicChannel(sink, columns, InsertAt(targets, i, t))
               \in Written!Edited(PublicChannel(sink, columns, targets))
<1> DEFINE channel == PublicChannel(sink, columns, targets)
           new == PublicChannel(sink, columns, InsertAt(targets, i, t))
<1>1. /\ new = [channel EXCEPT !.targets = InsertAt(channel.targets, i, t)]
      /\ i \in 1..(Len(channel.targets) + 1)
  BY DEF PublicChannel
<1> HIDE DEF channel, new
<1> DEFINE F(j, u) == [channel EXCEPT !.targets = InsertAt(channel.targets, j, u)]
<1>2. new \in Written!Inserted(channel)
  <2>1. Written!Inserted(channel)
            = {F(j, u) : j \in 1..Len(channel.targets) + 1, u \in Fragments}
    BY SameOperators DEF Written!Inserted
  <2>2. new = F(i, t)
    BY <1>1
  <2> HIDE DEF F
  <2>3. QED
    BY <1>1, <2>1, <2>2
<1>3. QED
  BY <1>2 DEF Written!Edited, channel, new

LEMMA InsertedPairIsEdit ==
    ASSUME NEW sink, NEW columns, NEW targets, Len(targets) = Len(columns),
           NEW i \in 1..(Len(targets) + 1), NEW t \in Fragments, NEW r \in Receivers
    PROVE  PublicChannel(sink, InsertAt(columns, i, r), InsertAt(targets, i, t))
               \in Written!Edited(PublicChannel(sink, columns, targets))
<1> DEFINE channel == PublicChannel(sink, columns, targets)
           new == PublicChannel(sink, InsertAt(columns, i, r), InsertAt(targets, i, t))
<1>1. /\ new = [channel EXCEPT !.targets = InsertAt(channel.targets, i, t),
                               !.columns = InsertAt(channel.columns, i, r)]
      /\ i \in 1..(Len(channel.targets) + 1) /\ Len(channel.targets) = Len(channel.columns)
  <2>1. channel.targets = targets /\ channel.columns = columns
    BY DEF PublicChannel
  <2> DEFINE more == InsertAt(targets, i, t)
             wider == InsertAt(columns, i, r)
  <2> HIDE DEF more, wider
  <2>2. PublicChannel(sink, wider, more) = [channel EXCEPT !.targets = more, !.columns = wider]
    <3> DEFINE half == PublicChannel(sink, columns, more)
    <3>1. [channel EXCEPT !.targets = more] = half
      BY DEF PublicChannel
    <3>2. [half EXCEPT !.columns = wider] = PublicChannel(sink, wider, more)
      BY DEF PublicChannel
    <3> HIDE DEF half, channel
    <3>3. QED
      BY <3>1, <3>2
  <2>3. QED
    BY <2>1, <2>2 DEF more, wider
<1> HIDE DEF channel, new
<1> DEFINE F(j, u, v) == [channel EXCEPT !.targets = Written!InsertAt(channel.targets, j, u),
                                        !.columns = Written!InsertAt(channel.columns, j, v)]
<1>2. new \in Written!InsertedPair(channel)
  <2>1. Written!InsertedPair(channel)
            = {F(j, u, v) : j \in 1..Len(channel.targets) + 1, u \in Fragments, v \in Receivers}
    BY <1>1 DEF Written!InsertedPair
  <2>2. new = F(i, t, r)
    BY <1>1, SameOperators
  <2> HIDE DEF F
  <2>3. QED
    BY <1>1, <2>1, <2>2
<1>3. QED
  BY <1>2 DEF Written!Edited, channel, new

LEMMA DeletedIsEdit ==
    ASSUME NEW sink, NEW columns, NEW targets, NEW i \in DOMAIN targets, Len(targets) # 1
    PROVE  PublicChannel(sink, columns, RemoveAt(targets, i))
               \in Written!Edited(PublicChannel(sink, columns, targets))
<1> DEFINE channel == PublicChannel(sink, columns, targets)
           new == PublicChannel(sink, columns, RemoveAt(targets, i))
<1>1. /\ new = [channel EXCEPT !.targets = RemoveAt(channel.targets, i)]
      /\ i \in DOMAIN channel.targets /\ Len(channel.targets) # 1
  BY DEF PublicChannel
<1> HIDE DEF channel, new
<1> DEFINE F(j) == [channel EXCEPT !.targets = RemoveAt(channel.targets, j)]
<1>2. new \in Written!Deleted(channel)
  <2>1. Written!Deleted(channel) = {F(j) : j \in DOMAIN channel.targets}
    BY <1>1, SameOperators DEF Written!Deleted
  <2>2. new = F(i)
    BY <1>1
  <2> HIDE DEF F
  <2>3. QED
    BY <1>1, <2>1, <2>2
<1>3. QED
  BY <1>2 DEF Written!Edited, channel, new

LEMMA SinkIsEdit ==
    ASSUME NEW sink, sink # None, NEW columns, NEW targets, NEW other \in Sinks
    PROVE  PublicChannel(other, columns, targets)
               \in Written!Edited(PublicChannel(sink, columns, targets))
<1> DEFINE channel == PublicChannel(sink, columns, targets)
           new == PublicChannel(other, columns, targets)
<1>1. new = [channel EXCEPT !.sink = other] /\ channel.sink # None
  BY DEF PublicChannel
<1> HIDE DEF channel, new
<1>2. new \in Written!SinkChanged(channel)
  BY <1>1 DEF Written!SinkChanged
<1>3. QED
  BY <1>2 DEF Written!Edited, channel, new

\* What a patch of the columns of a sink makes of them.
ColumnsAfter(columns) ==
    {InsertAt(columns, i, r) : i \in 1..Len(columns) + 1, r \in Receivers}
        \cup {RemoveAt(columns, i) : i \in DOMAIN columns}
        \cup {ReplaceAt(columns, i, r) : i \in DOMAIN columns, r \in Receivers}

LEMMA ColumnsAreEdit ==
    ASSUME NEW sink, sink # None, NEW columns, NEW targets, NEW new \in ColumnsAfter(columns)
    PROVE  PublicChannel(sink, new, targets)
               \in Written!Edited(PublicChannel(sink, columns, targets))
<1> DEFINE channel == PublicChannel(sink, columns, targets)
           after == PublicChannel(sink, new, targets)
<1>1. after = [channel EXCEPT !.columns = new] /\ channel.sink # None /\ channel.columns = columns
  BY DEF PublicChannel
<1> HIDE DEF channel, after
<1> DEFINE F(n) == [channel EXCEPT !.columns = n]
<1>2. after \in Written!SinkChanged(channel)
  <2>1. Written!SinkChanged(channel)
            = {[channel EXCEPT !.sink = other] : other \in Sinks}
                  \cup {F(n) : n \in ColumnsAfter(channel.columns)}
    <3> DEFINE old == channel.columns
               A == {Written!InsertAt(old, i, r) : i \in 1..Len(old) + 1, r \in Receivers}
               B == {Written!RemoveAt(old, i) : i \in DOMAIN old}
               C == {Written!ReplaceAt(old, i, r) : i \in DOMAIN old, r \in Receivers}
    <3>1. Written!SinkChanged(channel)
              = {[channel EXCEPT !.sink = other] : other \in Sinks}
                    \cup {F(n) : n \in A \cup B \cup C}
      BY <1>1 DEF Written!SinkChanged
    <3> HIDE DEF old
    <3>2. A = {InsertAt(old, i, r) : i \in 1..Len(old) + 1, r \in Receivers}
      BY SameOperators
    <3>3. B = {RemoveAt(old, i) : i \in DOMAIN old}
      BY SameOperators
    <3>4. C = {ReplaceAt(old, i, r) : i \in DOMAIN old, r \in Receivers}
      BY SameOperators
    <3>5. ColumnsAfter(old)
              = {InsertAt(old, i, r) : i \in 1..Len(old) + 1, r \in Receivers}
                    \cup {RemoveAt(old, i) : i \in DOMAIN old}
                    \cup {ReplaceAt(old, i, r) : i \in DOMAIN old, r \in Receivers}
      BY DEF ColumnsAfter
    <3> HIDE DEF A, B, C
    <3>6. A \cup B \cup C = ColumnsAfter(old)
      BY <3>2, <3>3, <3>4, <3>5
    <3>7. QED
      BY <3>1, <3>6 DEF old
  <2>2. after = F(new)
    BY <1>1
  <2> HIDE DEF F
  <2>3. after \in {F(n) : n \in ColumnsAfter(channel.columns)}
    BY <1>1, <2>2
  <2>4. QED
    BY <2>1, <2>3
<1>3. QED
  BY <1>2 DEF Written!Edited, channel, after

-----------------------------------------------------------------------------
(* Patches of SQL Server, as edits of OutputChannels.                      *)

LEMMA SqlServerStep ==
    ASSUME DmlInvariant, dialect = "sqlserver", UNCHANGED <<dialect, pairs>>,
           NEW s \in DOMAIN tree, NEW d \in 1..DmlCount(s), NEW c \in DOMAIN ChannelsOf(s, d),
           NEW x, x = ChannelsOf(s, d), NEW p, p = ListOf(s, d),
           NEW y \in Seq(Channel), NEW q \in Seq(Target),
           Len(y) = Len(x), Tiles(y, Len(q)),
           SetList(s, d, q) \/ (tree' = tree /\ q = p), SetChannels(dmls, s, d, y),
           OthersStay(x, y, p, q, c),
           ChannelText(y, q, c) \in Written!Edited(ChannelText(x, p, c))
    PROVE  Written!Edit
<1>1. /\ x \in Seq(Channel) /\ p \in Seq(Target) /\ Len(x) <= 2 /\ Tiles(x, Len(p))
      /\ c \in DOMAIN x /\ Len(y) <= 2
  BY SqlServerSelector
<1>2. /\ Differs(s, d, PublicClause(y, q)) /\ d \in DOMAIN tree[s]
      /\ ClauseOf(s, d) = PublicClause(x, p)
  <2>1. SetList(s, d, q) \/ (tree' = tree /\ q = ListOf(s, d))
    OBVIOUS
  <2>2. Len(y) <= 2
    BY <1>1
  <2>3. /\ Differs(s, d, PublicClause(y, q)) /\ d \in DOMAIN tree[s]
        /\ ClauseOf(s, d) = PublicClause(ChannelsOf(s, d), ListOf(s, d))
    BY <2>1, <2>2, SqlServerDiffers
  <2>4. QED
    BY <2>3
<1> DEFINE clause == PublicClause(x, p)
           new == ChannelText(y, q, c)
<1>3. PublicClause(y, q) = [clause EXCEPT ![c] = new] /\ c \in DOMAIN clause
      /\ clause[c] = ChannelText(x, p, c)
  <2>1. x \in Seq(Channel) /\ p \in Seq(Target) /\ Len(x) <= 2 /\ Tiles(x, Len(p)) /\ c \in DOMAIN x
    BY <1>1
  <2>2. y \in Seq(Channel) /\ q \in Seq(Target) /\ Len(y) = Len(x) /\ Tiles(y, Len(q))
    OBVIOUS
  <2>3. OthersStay(x, y, p, q, c)
    OBVIOUS
  <2>4. /\ EditedAt(PublicClause(x, p), PublicClause(y, q), c, ChannelText(y, q, c))
        /\ PublicClause(x, p)[c] = ChannelText(x, p, c)
    BY ONLY <2>1, <2>2, <2>3, ClauseEdited
  <2>5. QED
    BY <2>4 DEF EditedAt
<1>4. Live /\ Live'
  BY NoneAssumption DEF Live, Dialects
<1>5. new \in Written!Edited(clause[c])
  BY <1>3
<1>6. Differs(s, d, [ClauseOf(s, d) EXCEPT ![c] = new]) /\ c \in DOMAIN ClauseOf(s, d)
      /\ new \in Written!Edited(ClauseOf(s, d)[c])
  BY <1>2, <1>3, <1>5
<1> HIDE DEF new, clause
<1>7. QED
  BY <1>2, <1>4, <1>6, EditIsWritten

LEMMA TextLength ==
    ASSUME NEW x \in Seq(Channel), NEW p, NEW c \in DOMAIN x
    PROVE  /\ DOMAIN TargetsText(x, p, c) = 1..x[c].count
           /\ Len(TargetsText(x, p, c)) = x[c].count /\ x[c].count \in Nat
<1>1. x[c].count \in Nat
  BY SeqChannelFacts DEF IsChannel
<1> DEFINE n == x[c].count
           P(i) == Public(p[x[c].offset + i], MarkerAt(x[c], i))
<1>2. TargetsText(x, p, c) = [i \in 1..n |-> P(i)]
  BY DEF TargetsText
<1> HIDE DEF P, n
<1>3. n \in Nat
  BY <1>1 DEF n
<1>4. DOMAIN TargetsText(x, p, c) = 1..n /\ Len(TargetsText(x, p, c)) = n
  BY <1>2, <1>3
<1>5. QED
  BY <1>3, <1>4 DEF n

\* The place in the list of an index in a channel of n targets.
LEMMA PlaceInList ==
    ASSUME NEW o \in Nat, NEW n \in Nat, NEW m \in Nat, o + n <= m, NEW i \in 1..(n + 1)
    PROVE  o + i \in 1..(m + 1) /\ (i <= n => o + i \in 1..m)
OBVIOUS

LEMMA EndIndex ==
    ASSUME NEW index \in Nat, index >= 1, NEW n \in Nat
    PROVE  (IF index > n THEN n + 1 ELSE index) \in 1..(n + 1)
OBVIOUS

LEMMA ReplaceWrites ==
    ASSUME DmlInvariant, dialect = "sqlserver", NEW s, NEW d, NEW c, NEW i \in Indices,
           NEW t \in Fragments, ReplaceTarget(s, d, c, i, t)
    PROVE  Written!Edit
<1> DEFINE x == ChannelsOf(s, d)
           p == ListOf(s, d)
           y == Marked(x, c, i, Marker(t))
           q == [p EXCEPT ![x[c].offset + i] = Parsed(t)]
<1>1. /\ HasChannel(s, d, c) /\ i <= x[c].count /\ SetList(s, d, q)
      /\ UNCHANGED <<dialect, pairs>> /\ SetChannels(dmls, s, d, y)
  BY DEF ReplaceTarget
<1>2. /\ s \in DOMAIN tree /\ d \in 1..DmlCount(s) /\ c \in DOMAIN x
      /\ p \in Seq(Target) /\ x \in Seq(Channel) /\ Len(x) <= 2 /\ Tiles(x, Len(p))
      /\ Len(p) \in Nat /\ \A b \in DOMAIN x : IsChannel(x[b])
  BY <1>1, SqlServerChannels
<1>3. x = ChannelsOf(s, d) /\ p = ListOf(s, d)
  OBVIOUS
<1>4. Parsed(t) \in Target /\ Marker(t) \in ToSet(Markers) \cup {None}
  BY FragmentFacts
<1> HIDE DEF x, p
<1>5. i \in Nat /\ i \in 1..x[c].count
  <2>1. i \in Nat /\ i >= 1
    BY BoundAssumption DEF Indices
  <2>2. x[c].count \in Nat
    BY <1>2 DEF IsChannel
  <2>3. QED
    BY <1>1, <2>1, <2>2
<1>6. q \in Seq(Target) /\ Len(q) = Len(p)
  <2> DEFINE place == x[c].offset + i
             r == Parsed(t)
  <2>1. r \in Target
    BY <1>4
  <2> HIDE DEF place, r
  <2>2. [p EXCEPT ![place] = r] \in Seq(Target) /\ Len([p EXCEPT ![place] = r]) = Len(p)
    BY <1>2, <2>1, ReplacedFacts
  <2>3. QED
    BY <2>2 DEF place, r
<1>7. Tiles(y, Len(p))
  BY <1>2, <1>5, MarkedTiles
<1>8. y \in Seq(Channel) /\ Len(y) = Len(x)
  BY <1>2, <1>4, <1>5, MarkedTyped
<1> DEFINE targets == TargetsText(x, p, c)
<1>9. /\ OthersStay(x, y, p, q, c)
      /\ ChannelText(y, q, c)
             = PublicChannel(x[c].sink, x[c].columns, [targets EXCEPT ![i] = t])
  BY <1>2, <1>5, ReplacedText
<1>10. ChannelText(y, q, c) \in Written!Edited(ChannelText(x, p, c))
  <2>1. i \in DOMAIN targets
    BY <1>2, <1>5, TextLength
  <2>2. ChannelText(x, p, c) = PublicChannel(x[c].sink, x[c].columns, targets)
    BY DEF ChannelText
  <2> HIDE DEF targets
  <2>3. QED
    BY <1>9, <2>1, <2>2, ReplacedIsEdit
<1> HIDE DEF y, q
<1>11. Tiles(y, Len(q))
  BY <1>6, <1>7
<1>12. QED
  BY <1>1, <1>2, <1>3, <1>6, <1>8, <1>9, <1>10, <1>11, SqlServerStep

LEMMA InsertWrites ==
    ASSUME DmlInvariant, dialect = "sqlserver", NEW s, NEW d, NEW c, NEW index \in Indices,
           NEW t \in Fragments, InsertTarget(s, d, c, index, t)
    PROVE  Written!Edit
<1> DEFINE x == ChannelsOf(s, d)
           p == ListOf(s, d)
           i == IF index > x[c].count THEN x[c].count + 1 ELSE index
           y == Marked(Grown(x, c, i), c, i, Marker(t))
           q == InsertAt(p, x[c].offset + i, Parsed(t))
<1>1. /\ HasChannel(s, d, c) /\ SetList(s, d, q)
      /\ UNCHANGED <<dialect, pairs>> /\ SetChannels(dmls, s, d, y)
  BY DEF InsertTarget
<1>2. /\ s \in DOMAIN tree /\ d \in 1..DmlCount(s) /\ c \in DOMAIN x
      /\ p \in Seq(Target) /\ x \in Seq(Channel) /\ Len(x) <= 2 /\ Tiles(x, Len(p))
      /\ Len(p) \in Nat
  BY <1>1, SqlServerChannels
<1>3. x = ChannelsOf(s, d) /\ p = ListOf(s, d)
  OBVIOUS
<1>4. x[c].offset \in Nat /\ x[c].count \in Nat /\ x[c].offset + x[c].count <= Len(p)
  BY <1>1, ChannelSelector
<1>5. Parsed(t) \in Target /\ Marker(t) \in ToSet(Markers) \cup {None}
  BY FragmentFacts
<1> HIDE DEF x, p
<1>6. i \in 1..(x[c].count + 1) /\ x[c].offset + i \in 1..(Len(p) + 1)
  <2>1. index \in Nat /\ index >= 1
    BY BoundAssumption DEF Indices
  <2>2. i \in 1..(x[c].count + 1)
    BY <1>4, <2>1, EndIndex
  <2> HIDE DEF i
  <2>3. QED
    BY <1>2, <1>4, <2>2, PlaceInList
<1> HIDE DEF i
<1>7. y \in Seq(Channel) /\ Len(y) = Len(x) /\ Tiles(y, Len(p) + 1)
  BY <1>2, <1>5, <1>6, InsertedChannels
<1>8. q \in Seq(Target) /\ Len(q) = Len(p) + 1
  BY <1>2, <1>5, <1>6, InsertAtFacts
<1> DEFINE targets == TargetsText(x, p, c)
<1>9. /\ OthersStay(x, y, p, q, c)
      /\ ChannelText(y, q, c) = PublicChannel(x[c].sink, x[c].columns, InsertAt(targets, i, t))
  BY <1>2, <1>6, InsertedText
<1>10. ChannelText(y, q, c) \in Written!Edited(ChannelText(x, p, c))
  <2>1. i \in 1..(Len(targets) + 1)
    BY <1>2, <1>6, TextLength
  <2>2. ChannelText(x, p, c) = PublicChannel(x[c].sink, x[c].columns, targets)
    BY DEF ChannelText
  <2> HIDE DEF targets
  <2>3. QED
    BY <1>9, <2>1, <2>2, InsertedIsEdit
<1> HIDE DEF y, q
<1>11. Tiles(y, Len(q))
  BY <1>7, <1>8
<1>12. QED
  BY <1>1, <1>2, <1>3, <1>7, <1>8, <1>9, <1>10, <1>11, SqlServerStep

LEMMA DeleteWrites ==
    ASSUME DmlInvariant, dialect = "sqlserver", NEW s, NEW d, NEW c, NEW i \in Indices,
           DeleteTarget(s, d, c, i)
    PROVE  Written!Edit
<1> DEFINE x == ChannelsOf(s, d)
           p == ListOf(s, d)
           y == Shrunk(x, c, i)
           q == RemoveAt(p, x[c].offset + i)
<1>1. /\ HasChannel(s, d, c) /\ i <= x[c].count /\ SetList(s, d, q)
      /\ UNCHANGED <<dialect, pairs>>
  BY DEF DeleteTarget
<1>2. /\ s \in DOMAIN tree /\ d \in 1..DmlCount(s) /\ c \in DOMAIN x
      /\ p \in Seq(Target) /\ x \in Seq(Channel) /\ Len(x) <= 2 /\ Tiles(x, Len(p))
      /\ Len(p) \in Nat
  BY <1>1, SqlServerChannels
<1>3. \A b \in DOMAIN x : IsChannel(x[b])
  BY <1>1, SqlServerChannels
<1>4. x[c].offset \in Nat /\ x[c].count \in Nat /\ x[c].offset + x[c].count <= Len(p)
  BY <1>1, ChannelSelector
<1>5. SetChannels(dmls, s, d, y) /\ x[c].count # 1
  <2>1. Cloned(dmls) = dmls
    BY ClonedState
  <2>2. x = dmls[DmlAt(s, d)].channels
    BY <1>2, SqlServerSelector
  <2>3. /\ SetChannels(Cloned(dmls), s, d, Shrunk(Cloned(dmls)[DmlAt(s, d)].channels, c, i))
        /\ x[c].count # 1
    BY DEF DeleteTarget
  <2>4. QED
    BY <2>1, <2>2, <2>3
<1>6. x = ChannelsOf(s, d) /\ p = ListOf(s, d)
  OBVIOUS
<1> HIDE DEF x, p
<1>7. i \in 1..x[c].count /\ i \in Nat \ {0}
  <2>1. i \in Nat /\ i >= 1
    BY BoundAssumption DEF Indices
  <2>2. QED
    BY <1>1, <1>4, <2>1
<1>8. x[c].offset + i \in 1..Len(p)
  <2>1. i \in 1..(x[c].count + 1) /\ i <= x[c].count
    BY <1>1, <1>4, <1>7
  <2>2. QED
    BY <1>2, <1>4, <2>1, PlaceInList
<1>9. y \in Seq(Channel) /\ Len(y) = Len(x)
  <2> DEFINE moved == ActionsAfterDelete(x[c].actions, i)
  <2>1. moved \in Marks
    <3>1. x[c] \in Channel
      BY <1>2
    <3>2. x[c].actions \in Marks
      BY <3>1, ChannelFacts
    <3>3. QED
      BY <1>7, <3>2, ActionsStayMarks
  <2>2. x[c].count + (-1) >= 0 /\ -1 \in {1, -1}
    BY <1>4, <1>7
  <2>3. y = Adjusted(x, c, moved, -1)
    BY DEF Shrunk
  <2> HIDE DEF moved
  <2>4. Adjusted(x, c, moved, -1) \in Seq(Channel) /\ Len(Adjusted(x, c, moved, -1)) = Len(x)
    BY <1>2, <2>1, <2>2, AdjustedTyped
  <2>5. QED
    BY <2>3, <2>4
<1>10. Tiles(y, Len(p) - 1)
  BY <1>2, <1>3, <1>5, <1>7, ShrunkTiles
<1>11. q \in Seq(Target) /\ Len(q) = Len(p) - 1
  BY <1>2, <1>8, RemoveAtFacts
<1> DEFINE targets == TargetsText(x, p, c)
<1>12. /\ OthersStay(x, y, p, q, c)
       /\ ChannelText(y, q, c) = PublicChannel(x[c].sink, x[c].columns, RemoveAt(targets, i))
  BY <1>2, <1>5, <1>7, DeletedText
<1>13. ChannelText(y, q, c) \in Written!Edited(ChannelText(x, p, c))
  <2>1. i \in DOMAIN targets /\ Len(targets) # 1
    BY <1>2, <1>5, <1>7, TextLength
  <2>2. ChannelText(x, p, c) = PublicChannel(x[c].sink, x[c].columns, targets)
    BY DEF ChannelText
  <2> HIDE DEF targets
  <2>3. QED
    BY <1>12, <2>1, <2>2, DeletedIsEdit
<1> HIDE DEF y, q
<1>14. Tiles(y, Len(q))
  BY <1>10, <1>11
<1>15. QED
  BY <1>1, <1>2, <1>5, <1>6, <1>9, <1>11, <1>12, <1>13, <1>14, SqlServerStep

LEMMA InsertSinkTargetWrites ==
    ASSUME DmlInvariant, NEW s, NEW d, NEW c, NEW i \in Indices,
           NEW t \in Fragments, NEW column \in Receivers,
           InsertTargetSinkColumn(s, d, c, i, t, column)
    PROVE  Written!Edit
<1> DEFINE x == ChannelsOf(s, d)
           p == ListOf(s, d)
           narrow == x[c].columns
           columns == InsertAt(narrow, i, column)
           wider == [x[c] EXCEPT !.columns = columns]
           w == [x EXCEPT ![c] = wider]
           y == Marked(Grown(w, c, i), c, i, Marker(t))
           q == InsertAt(p, x[c].offset + i, Parsed(t))
<1>1. /\ dialect = "sqlserver" /\ HasChannel(s, d, c) /\ i <= x[c].count + 1
      /\ Len(narrow) = x[c].count
      /\ SetList(s, d, q) /\ UNCHANGED <<dialect, pairs>>
  BY DEF InsertTargetSinkColumn
<1>2. SetChannels(dmls, s, d, y)
  <2>1. w = [ChannelsOf(s, d) EXCEPT ![c].columns = InsertAt(@, i, column)]
    OBVIOUS
  <2>2. QED
    BY <2>1 DEF InsertTargetSinkColumn
<1>3. /\ s \in DOMAIN tree /\ d \in 1..DmlCount(s) /\ c \in DOMAIN x
      /\ p \in Seq(Target) /\ x \in Seq(Channel) /\ Len(x) <= 2 /\ Tiles(x, Len(p))
      /\ Len(p) \in Nat
  BY <1>1, SqlServerChannels
<1>4. x[c].offset \in Nat /\ x[c].count \in Nat /\ x[c].offset + x[c].count <= Len(p)
  BY <1>1, ChannelSelector
<1>5. i \in Nat /\ i >= 1 /\ column \in STRING
  BY BoundAssumption, TextAssumption DEF Indices
<1>6. Parsed(t) \in Target /\ Marker(t) \in ToSet(Markers) \cup {None}
  BY FragmentFacts
<1>7. x = ChannelsOf(s, d) /\ p = ListOf(s, d)
  OBVIOUS
<1> HIDE DEF x, p
<1>8. i \in 1..(x[c].count + 1) /\ x[c].offset + i \in 1..(Len(p) + 1)
  <2>1. i \in 1..(x[c].count + 1)
    BY <1>1, <1>4, <1>5
  <2>2. QED
    BY <1>3, <1>4, <2>1, PlaceInList
<1>9. x[c] \in Channel /\ narrow \in Seq(STRING)
  <2>1. x[c] \in Channel
    BY <1>3
  <2>2. QED
    BY <2>1, ChannelFacts
<1> HIDE DEF narrow
<1>10. columns \in Seq(STRING)
  <2>1. i \in 1..(Len(narrow) + 1)
    BY <1>1, <1>8
  <2>2. QED
    BY <1>5, <1>9, <2>1, InsertAtFacts
<1> HIDE DEF columns
<1>11. /\ wider \in Channel /\ wider.offset = x[c].offset /\ wider.count = x[c].count
       /\ wider.actions = x[c].actions /\ wider.sink = x[c].sink /\ wider.columns = columns
  BY <1>9, <1>10 DEF Channel
<1> HIDE DEF wider
<1>12. w \in Seq(Channel) /\ Len(w) = Len(x) /\ Tiles(w, Len(p))
  BY <1>3, <1>11, ResunkTiles
<1>13. c \in DOMAIN w /\ w[c] = wider /\ DOMAIN w = DOMAIN x
  BY <1>3
<1> DEFINE targets == TargetsText(x, p, c)
<1>14. OthersStay(x, w, p, p, c) /\ ChannelText(w, p, c) = PublicChannel(x[c].sink, columns, targets)
  <2>1. /\ OthersStay(x, w, p, p, c)
        /\ ChannelText(w, p, c) = PublicChannel(wider.sink, wider.columns, targets)
    BY <1>3, <1>11, ResunkText
  <2>2. QED
    BY <1>11, <2>1
<1>15. TargetsText(w, p, c) = targets
  BY <1>11, <1>13 DEF TargetsText, MarkerAt
<1> HIDE DEF w
<1>16. i \in 1..(w[c].count + 1) /\ w[c].offset = x[c].offset /\ Len(w) <= 2
  BY <1>3, <1>8, <1>11, <1>12, <1>13
<1>17. y \in Seq(Channel) /\ Len(y) = Len(w) /\ Tiles(y, Len(p) + 1)
  BY <1>3, <1>6, <1>12, <1>13, <1>16, InsertedChannels
<1>18. q \in Seq(Target) /\ Len(q) = Len(p) + 1
  BY <1>3, <1>6, <1>8, InsertAtFacts
<1>19. /\ OthersStay(w, y, p, q, c)
       /\ ChannelText(y, q, c) = PublicChannel(x[c].sink, columns, InsertAt(targets, i, t))
  <2>1. q = InsertAt(p, w[c].offset + i, Parsed(t))
    BY <1>16
  <2> HIDE DEF q
  <2>2. /\ OthersStay(w, y, p, q, c)
        /\ ChannelText(y, q, c)
               = PublicChannel(w[c].sink, w[c].columns, InsertAt(TargetsText(w, p, c), i, t))
    BY <1>3, <1>12, <1>13, <1>16, <2>1, InsertedText
  <2>3. QED
    BY <1>11, <1>13, <1>15, <2>2
<1>20. OthersStay(x, y, p, q, c)
  BY <1>13, <1>14, <1>19 DEF OthersStay
<1>21. ChannelText(y, q, c) \in Written!Edited(ChannelText(x, p, c))
  <2>1. i \in 1..(Len(targets) + 1) /\ Len(targets) = Len(narrow)
    BY <1>1, <1>3, <1>8, TextLength
  <2>2. ChannelText(x, p, c) = PublicChannel(x[c].sink, narrow, targets)
    BY DEF ChannelText, narrow
  <2> HIDE DEF targets
  <2>3. PublicChannel(x[c].sink, InsertAt(narrow, i, column), InsertAt(targets, i, t))
            \in Written!Edited(PublicChannel(x[c].sink, narrow, targets))
    BY <2>1, InsertedPairIsEdit
  <2>4. QED
    BY <1>19, <2>2, <2>3 DEF columns
<1> HIDE DEF y, q
<1>22. Len(y) = Len(x) /\ Tiles(y, Len(q))
  BY <1>12, <1>17, <1>18
<1>23. QED
  BY <1>1, <1>2, <1>3, <1>7, <1>17, <1>18, <1>20, <1>21, <1>22, SqlServerStep

LEMMA SinkWrites ==
    ASSUME DmlInvariant, NEW s, NEW d, NEW c, HasSink(s, d, c),
           NEW channel, ChangeSink(s, d, c, channel), channel \in Channel,
           channel.offset = ChannelsOf(s, d)[c].offset, channel.count = ChannelsOf(s, d)[c].count,
           channel.actions = ChannelsOf(s, d)[c].actions,
           \A targets : PublicChannel(channel.sink, channel.columns, targets)
               \in Written!Edited(PublicChannel(ChannelsOf(s, d)[c].sink,
                                                ChannelsOf(s, d)[c].columns, targets))
    PROVE  Written!Edit
<1> DEFINE x == ChannelsOf(s, d)
           p == ListOf(s, d)
           y == [x EXCEPT ![c] = channel]
<1>1. /\ dialect = "sqlserver" /\ s \in DOMAIN tree /\ d \in 1..DmlCount(s) /\ c \in DOMAIN x
  BY DEF HasSink
<1>2. SetChannels(dmls, s, d, y) /\ tree' = tree /\ UNCHANGED <<dialect, pairs>>
  BY DEF ChangeSink
<1>3. p \in Seq(Target) /\ x \in Seq(Channel) /\ Len(x) <= 2 /\ Tiles(x, Len(p))
  BY <1>1, SqlServerSelector
<1>4. Len(p) \in Nat
  BY <1>3
<1>5. x = ChannelsOf(s, d) /\ p = ListOf(s, d)
  OBVIOUS
<1>6. /\ channel.offset = x[c].offset /\ channel.count = x[c].count
      /\ channel.actions = x[c].actions
      /\ \A targets : PublicChannel(channel.sink, channel.columns, targets)
             \in Written!Edited(PublicChannel(x[c].sink, x[c].columns, targets))
  OBVIOUS
<1> HIDE DEF x, p
<1>7. y \in Seq(Channel) /\ Len(y) = Len(x) /\ Tiles(y, Len(p))
  BY <1>1, <1>3, <1>4, <1>6, ResunkTiles
<1>8. /\ OthersStay(x, y, p, p, c)
      /\ ChannelText(y, p, c)
             = PublicChannel(channel.sink, channel.columns, TargetsText(x, p, c))
  BY <1>1, <1>3, <1>6, ResunkText
<1>9. ChannelText(y, p, c) \in Written!Edited(ChannelText(x, p, c))
  BY <1>6, <1>8 DEF ChannelText
<1> HIDE DEF y
<1>10. QED
  BY <1>1, <1>2, <1>3, <1>5, <1>7, <1>8, <1>9, SqlServerStep

LEMMA SinkPatchesWrite ==
    ASSUME DmlInvariant, NEW s, NEW d, NEW c, NEW i \in Indices,
           \/ DeleteSinkColumn(s, d, c, i)
           \/ \E r \in Receivers : SetSinkColumn(s, d, c, i, r) \/ InsertSinkColumn(s, d, c, i, r)
           \/ \E sink \in Sinks : SetSink(s, d, c, sink)
    PROVE  Written!Edit
<1> DEFINE channel == ChannelsOf(s, d)[c]
           columns == channel.columns
<1>1. HasSink(s, d, c) /\ channel.sink # None
  BY DEF DeleteSinkColumn, SetSinkColumn, InsertSinkColumn, SetSink, HasSink
<1>2. channel \in Channel /\ i \in Nat \ {0}
  BY <1>1, SinkChannel, BoundAssumption DEF Indices
<1>3. columns \in Seq(STRING) /\ Len(columns) \in Nat /\ DOMAIN columns = 1..Len(columns)
  <2>1. columns \in Seq(STRING)
    BY <1>2, ChannelFacts
  <2> HIDE DEF columns
  <2>2. QED
    BY <2>1
<1>4. ASSUME NEW new \in Seq(STRING), new \in ColumnsAfter(columns),
             ChangeSink(s, d, c, [ChannelsOf(s, d)[c] EXCEPT !.columns = new])
      PROVE  Written!Edit
  <2> DEFINE other == [channel EXCEPT !.columns = new]
  <2>1. /\ other \in Channel /\ other.offset = channel.offset /\ other.count = channel.count
        /\ other.actions = channel.actions /\ other.sink = channel.sink /\ other.columns = new
    BY <1>2 DEF Channel
  <2>2. ChangeSink(s, d, c, other)
    BY <1>4
  <2> HIDE DEF other
  <2>3. ASSUME NEW targets
        PROVE  PublicChannel(other.sink, other.columns, targets)
                   \in Written!Edited(PublicChannel(channel.sink, columns, targets))
    <3>1. PublicChannel(channel.sink, new, targets)
              \in Written!Edited(PublicChannel(channel.sink, columns, targets))
      BY <1>1, <1>4, ColumnsAreEdit
    <3>2. QED
      BY <2>1, <3>1
  <2>4. QED
    BY <1>1, <2>1, <2>2, <2>3, SinkWrites
<1>5. CASE DeleteSinkColumn(s, d, c, i)
  <2>1. ChangeSink(s, d, c, [ChannelsOf(s, d)[c] EXCEPT !.columns = RemoveAt(columns, i)])
        /\ i <= Len(columns)
    BY <1>5 DEF DeleteSinkColumn
  <2> HIDE DEF columns
  <2>2. i \in DOMAIN columns
    BY <1>2, <1>3, <2>1
  <2>3. RemoveAt(columns, i) \in Seq(STRING)
    BY <1>3, <2>2, RemoveAtFacts
  <2>4. RemoveAt(columns, i) \in ColumnsAfter(columns)
    BY <2>2 DEF ColumnsAfter
  <2>5. QED
    BY <1>4, <2>1, <2>3, <2>4
<1>6. ASSUME NEW r \in Receivers, SetSinkColumn(s, d, c, i, r)
      PROVE  Written!Edit
  <2>1. ChangeSink(s, d, c, [ChannelsOf(s, d)[c] EXCEPT !.columns = [columns EXCEPT ![i] = r]])
        /\ i <= Len(columns)
    BY <1>6 DEF SetSinkColumn
  <2>2. r \in STRING
    BY TextAssumption
  <2> HIDE DEF columns
  <2>3. i \in DOMAIN columns
    BY <1>2, <1>3, <2>1
  <2>4. [columns EXCEPT ![i] = r] \in Seq(STRING)
    BY <1>3, <2>2, ReplacedFacts
  <2>5. ReplaceAt(columns, i, r) = [columns EXCEPT ![i] = r]
    BY DEF ReplaceAt
  <2>6. ReplaceAt(columns, i, r) \in ColumnsAfter(columns)
    BY <2>3 DEF ColumnsAfter
  <2>7. QED
    BY <1>4, <2>1, <2>4, <2>5, <2>6
<1>7. ASSUME NEW r \in Receivers, InsertSinkColumn(s, d, c, i, r)
      PROVE  Written!Edit
  <2> DEFINE at == IF i > Len(columns) THEN Len(columns) + 1 ELSE i
  <2>1. ChangeSink(s, d, c, [ChannelsOf(s, d)[c] EXCEPT !.columns = InsertAt(columns, at, r)])
    BY <1>7 DEF InsertSinkColumn
  <2>2. r \in STRING
    BY TextAssumption
  <2> HIDE DEF columns
  <2>3. at \in 1..(Len(columns) + 1)
    BY <1>2, <1>3, EndIndex
  <2> HIDE DEF at
  <2>4. InsertAt(columns, at, r) \in Seq(STRING)
    BY <1>3, <2>2, <2>3, InsertAtFacts
  <2>5. InsertAt(columns, at, r) \in ColumnsAfter(columns)
    BY <2>3 DEF ColumnsAfter
  <2>6. QED
    BY <1>4, <2>1, <2>4, <2>5
<1>8. ASSUME NEW sink \in Sinks, SetSink(s, d, c, sink)
      PROVE  Written!Edit
  <2> DEFINE other == [channel EXCEPT !.sink = sink]
  <2>1. sink \in Sink
    BY TextAssumption DEF Sink
  <2>2. /\ other \in Channel /\ other.offset = channel.offset /\ other.count = channel.count
        /\ other.actions = channel.actions /\ other.sink = sink /\ other.columns = columns
    BY <1>2, <2>1 DEF Channel
  <2>3. ChangeSink(s, d, c, other)
    BY <1>8 DEF SetSink
  <2> HIDE DEF other
  <2>4. ASSUME NEW targets
        PROVE  PublicChannel(other.sink, other.columns, targets)
                   \in Written!Edited(PublicChannel(channel.sink, columns, targets))
    <3>1. PublicChannel(sink, columns, targets)
              \in Written!Edited(PublicChannel(channel.sink, columns, targets))
      BY <1>1, SinkIsEdit
    <3>2. QED
      BY <2>2, <3>1
  <2>5. QED
    BY <1>1, <2>2, <2>3, <2>4, SinkWrites
<1>9. QED
  BY <1>5, <1>6, <1>7, <1>8

-----------------------------------------------------------------------------
(* Patches where there is no OUTPUT state.                                 *)

\* A list as it is written without a state.
ListClause(n, list) == IF n > 0 THEN PairedClause(n, list) ELSE Plain(list)

LEMMA ClauseIsList ==
    ASSUME dialect # "sqlserver", NEW s, NEW k
    PROVE  ClauseOf(s, k) = ListClause(pairs[s], tree[s][k].returning)
<1>1. CASE pairs[s] > 0
  <2>1. ClauseOf(s, k) = PairedClause(pairs[s], tree[s][k].returning)
    BY <1>1, Zenon DEF ClauseOf
  <2>2. QED
    BY <1>1, <2>1 DEF ListClause
<1>2. CASE ~(pairs[s] > 0)
  <2>1. ClauseOf(s, k) = Plain(tree[s][k].returning)
    BY <1>2, Zenon DEF ClauseOf, Plain
  <2>2. QED
    BY <1>2, <2>1 DEF ListClause
<1>3. QED
  BY <1>1, <1>2

LEMMA NextClauseIsList ==
    ASSUME dialect' # "sqlserver", NEW s, NEW k
    PROVE  ClauseOf(s, k)' = ListClause(pairs'[s], tree'[s][k].returning)
<1>1. CASE pairs'[s] > 0
  <2>1. ClauseOf(s, k)' = PairedClause(pairs'[s], tree'[s][k].returning)
    BY <1>1, Zenon DEF ClauseOf
  <2>2. QED
    BY <1>1, <2>1 DEF ListClause
<1>2. CASE ~(pairs'[s] > 0)
  <2>1. ClauseOf(s, k)' = Plain(tree'[s][k].returning)
    BY <1>2, Zenon DEF ClauseOf, Plain
  <2>2. QED
    BY <1>2, <2>1 DEF ListClause
<1>3. QED
  BY <1>1, <1>2

\* The edit of ListEdit, in the SQL.
LEMMA ListDiffers ==
    ASSUME DmlInvariant, dialect # "sqlserver", dialect' = dialect,
           NEW s \in DOMAIN tree, NEW d \in DOMAIN tree[s], NodeOf(s, d) = d,
           NEW list \in Seq(Target), SetList(s, d, list),
           \A r \in DOMAIN tree : r # s => pairs'[r] = pairs[r],
           pairs' = pairs \/ DOMAIN tree[s] = {d}
    PROVE  Differs(s, d, ListClause(pairs'[s], list)) /\ Live /\ Live'
<1>1. tree \in Seq(Seq(NodeRecord))
  BY DEF DmlInvariant
<1>2. tree' = [tree EXCEPT ![s][d].returning = list]
  BY DEF SetList
<1>3. ListIsSet(tree, tree', s, d, list)
  BY <1>1, <1>2, SetReturning
<1>4. DOMAIN tree' = DOMAIN tree /\ \A r \in DOMAIN tree : DOMAIN tree'[r] = DOMAIN tree[r]
  BY <1>3 DEF ListIsSet
<1>5. \A r, k : /\ ClauseOf(r, k) = ListClause(pairs[r], tree[r][k].returning)
                /\ ClauseOf(r, k)' = ListClause(pairs'[r], tree'[r][k].returning)
  BY ClauseIsList, NextClauseIsList
<1>6. ClauseOf(s, d)' = ListClause(pairs'[s], list)
  BY <1>3, <1>5 DEF ListIsSet
<1>7. ASSUME NEW r \in DOMAIN tree, NEW k \in DOMAIN tree[r], ~(r = s /\ k = d)
      PROVE  ClauseOf(r, k)' = ClauseOf(r, k)
  <2>1. pairs'[r] = pairs[r]
    BY <1>7
  <2>2. tree'[r][k] = tree[r][k]
    BY <1>3, <1>7 DEF ListIsSet
  <2>3. QED
    BY <1>5, <2>1, <2>2
<1>8. Live /\ Live'
  <2>1. dialect # None
    BY <1>1 DEF DmlInvariant
  <2>2. QED
    BY <2>1 DEF Live
<1>9. QED
  BY <1>4, <1>6, <1>7, <1>8 DEF Differs

\* An edit of the one channel of a list.
LEMMA ListStep ==
    ASSUME DmlInvariant, dialect # "sqlserver", dialect' = dialect,
           NEW s \in DOMAIN tree, NEW d \in DOMAIN tree[s], NodeOf(s, d) = d,
           NEW list \in Seq(Target), SetList(s, d, list),
           \A r \in DOMAIN tree : r # s => pairs'[r] = pairs[r],
           pairs' = pairs \/ DOMAIN tree[s] = {d},
           NEW old, ListClause(pairs[s], tree[s][d].returning) = <<old>>,
           NEW new \in Written!Edited(old), ListClause(pairs'[s], list) = <<new>>
    PROVE  Written!Edit
<1>1. Differs(s, d, <<new>>) /\ Live /\ Live'
  <2> DEFINE clause == ListClause(pairs'[s], list)
  <2>1. Differs(s, d, clause) /\ Live /\ Live'
    BY ListDiffers
  <2>2. QED
    BY <2>1
<1>2. ClauseOf(s, d) = <<old>>
  BY ClauseIsList
<1> DEFINE clause == ClauseOf(s, d)
<1>3. <<new>> = [clause EXCEPT ![1] = new] /\ 1 \in DOMAIN clause /\ clause[1] = old
  BY <1>2
<1>4. Differs(s, d, [clause EXCEPT ![1] = new])
  BY <1>1, <1>3
<1>5. new \in Written!Edited(clause[1])
  BY <1>3
<1>6. QED
  BY <1>1, <1>3, <1>4, <1>5, EditIsWritten

\* Without pairs and OUTPUT state only PostgreSQL has channels: one.
LEMMA PlainSelector ==
    ASSUME DmlInvariant, dialect # "sqlserver", NEW s, NEW d, NEW c, HasChannel(s, d, c),
           pairs[s] = 0
    PROVE  /\ s \in DOMAIN tree /\ d \in DOMAIN tree[s] /\ NodeOf(s, d) = d
           /\ ListOf(s, d) = tree[s][d].returning /\ ListOf(s, d) \in Seq(Target)
           /\ ListOf(s, d) # <<>> /\ c = 1
           /\ ChannelsOf(s, d)[c].offset = 0 /\ ChannelsOf(s, d)[c].count = Len(ListOf(s, d))
           /\ ListClause(pairs[s], ListOf(s, d)) = <<PublicChannel(None, <<>>, ListOf(s, d))>>
<1>1. s \in DOMAIN tree /\ d \in 1..DmlCount(s) /\ c \in DOMAIN ChannelsOf(s, d)
  BY DEF HasChannel
<1>2. ~(pairs[s] > 0)
  OBVIOUS
<1>3. dialect = "postgresql"
  <2>1. CASE dialect # "postgresql"
    <3>1. DmlsOf(s) = {}
      BY DEF DmlInvariant, DmlsOf
    <3>2. Cardinality(DmlsOf(s)) = 0
      BY <3>1, FS_EmptySet
    <3>3. DmlCount(s) = 0
      BY <1>2, <2>1, <3>2 DEF DmlCount
    <3>4. QED
      BY <1>1, <3>3
  <2>2. QED
    BY <2>1
<1>4. d \in DOMAIN tree[s]
  BY <1>1, <1>3, PostgresAgrees
<1> DEFINE list == tree[s][d].returning
<1>5. NodeOf(s, d) = d /\ ListOf(s, d) = list
  BY DEF NodeOf, ListOf
<1>6. list \in Seq(Target)
  <2>1. tree \in Seq(Seq(NodeRecord))
    BY DEF DmlInvariant
  <2>2. tree[s] \in Seq(NodeRecord)
    BY <1>1, <2>1
  <2>3. tree[s][d] \in NodeRecord
    BY <1>4, <2>2
  <2>4. QED
    BY <2>3 DEF NodeRecord
<1>7. ChannelsOf(s, d) = IF list = <<>> THEN <<>> ELSE <<Unnamed(None, <<>>, Len(list))>>
  BY <1>2, <1>3 DEF ChannelsOf
<1> HIDE DEF list
<1>8. list # <<>>
  <2>1. DOMAIN <<>> = {}
    OBVIOUS
  <2>2. QED
    BY <1>1, <1>7, <2>1
<1>9. c = 1 /\ ChannelsOf(s, d)[c].offset = 0 /\ ChannelsOf(s, d)[c].count = Len(list)
  <2> DEFINE channel == Unnamed(None, <<>>, Len(list))
  <2>1. channel.offset = 0 /\ channel.count = Len(list)
    BY DEF Unnamed
  <2>2. ChannelsOf(s, d) = <<channel>>
    BY <1>7, <1>8
  <2> HIDE DEF channel
  <2>3. c = 1 /\ ChannelsOf(s, d)[c] = channel
    BY <1>1, <2>2
  <2>4. QED
    BY <2>1, <2>3
<1>10. ListClause(pairs[s], list) = <<PublicChannel(None, <<>>, list)>>
  BY <1>2, <1>8 DEF ListClause, Plain
<1> DEFINE of == ListOf(s, d)
<1>11. of = list
  BY <1>5
<1> HIDE DEF of
<1>12. /\ of = tree[s][d].returning /\ of \in Seq(Target) /\ of # <<>>
       /\ ChannelsOf(s, d)[c].count = Len(of)
       /\ ListClause(pairs[s], of) = <<PublicChannel(None, <<>>, of)>>
  BY <1>6, <1>8, <1>9, <1>10, <1>11 DEF list
<1>13. QED
  BY <1>1, <1>4, <1>5, <1>9, <1>12 DEF of

LEMMA PlainIsOne ==
    ASSUME NEW list, list # <<>>
    PROVE  ListClause(0, list) = <<PublicChannel(None, <<>>, list)>>
BY DEF ListClause, Plain

\* Replacing and inserting, where the list is the channel of the client.
LEMMA PlainPatchWrites ==
    ASSUME DmlInvariant, dialect # "sqlserver", UNCHANGED <<dialect, pairs>>,
           NEW s, NEW d, NEW c, HasChannel(s, d, c), pairs[s] = 0,
           NEW list \in Seq(Target), list # <<>>, SetList(s, d, list),
           PublicChannel(None, <<>>, list)
               \in Written!Edited(PublicChannel(None, <<>>, ListOf(s, d)))
    PROVE  Written!Edit
<1> DEFINE p == ListOf(s, d)
           old == PublicChannel(None, <<>>, p)
           new == PublicChannel(None, <<>>, list)
<1>1. /\ s \in DOMAIN tree /\ d \in DOMAIN tree[s] /\ NodeOf(s, d) = d
      /\ p = tree[s][d].returning /\ ListClause(pairs[s], p) = <<old>>
  BY PlainSelector
<1>2. ListClause(pairs[s], tree[s][d].returning) = <<old>>
  BY <1>1
<1>3. ListClause(0, list) = <<new>>
  BY PlainIsOne
<1>4. pairs' = pairs /\ ListClause(pairs'[s], list) = <<new>>
  BY <1>3
<1>5. new \in Written!Edited(old)
  OBVIOUS
<1> HIDE DEF old, new, p
<1>6. QED
  BY <1>1, <1>2, <1>4, <1>5, ListStep

LEMMA PlainReplaceWrites ==
    ASSUME DmlInvariant, dialect # "sqlserver", NEW s, NEW d, NEW c, NEW i \in Indices,
           NEW t \in Fragments, ReplaceTarget(s, d, c, i, t), pairs[s] = 0
    PROVE  Written!Edit
<1> DEFINE p == ListOf(s, d)
           list == [p EXCEPT ![i] = t]
<1>1. /\ HasChannel(s, d, c) /\ i <= ChannelsOf(s, d)[c].count /\ FragmentOk(s, d, t)
      /\ SetList(s, d, [p EXCEPT ![ChannelsOf(s, d)[c].offset + i] = Parsed(t)])
      /\ UNCHANGED <<dialect, pairs>>
  BY DEF ReplaceTarget
<1>2. /\ p \in Seq(Target) /\ p # <<>>
      /\ ChannelsOf(s, d)[c].offset = 0 /\ ChannelsOf(s, d)[c].count = Len(p)
  BY <1>1, PlainSelector
<1>3. Parsed(t) = t /\ t \in Target
  BY <1>1, ParsedFragment
<1>4. i \in Nat /\ i >= 1
  BY BoundAssumption DEF Indices
<1>5. SetList(s, d, list)
  <2>1. ChannelsOf(s, d)[c].offset + i = i
    BY <1>2, <1>4
  <2>2. QED
    BY <1>1, <1>3, <2>1
<1>6. i \in DOMAIN p
  <2>1. i <= Len(p)
    BY <1>1, <1>2
  <2> HIDE DEF p
  <2>2. QED
    BY <1>2, <1>4, <2>1
<1>7. PublicChannel(None, <<>>, list) \in Written!Edited(PublicChannel(None, <<>>, p))
  <2> DEFINE columns == <<>>
  <2> HIDE DEF p, columns
  <2>1. PublicChannel(None, columns, [p EXCEPT ![i] = t])
            \in Written!Edited(PublicChannel(None, columns, p))
    BY <1>6, ReplacedIsEdit
  <2>2. QED
    BY <2>1 DEF columns
<1>8. list \in Seq(Target) /\ list # <<>>
  <2> HIDE DEF p
  <2>1. [p EXCEPT ![i] = t] \in Seq(Target) /\ Len([p EXCEPT ![i] = t]) = Len(p)
    BY <1>2, <1>3, ReplacedFacts
  <2>2. Len(p) # 0
    BY <1>2
  <2>3. QED
    BY <2>1, <2>2
<1>9. QED
  <2> HIDE DEF list
  <2>1. QED
    BY <1>1, <1>5, <1>7, <1>8, PlainPatchWrites

LEMMA PlainInsertWrites ==
    ASSUME DmlInvariant, dialect # "sqlserver", NEW s, NEW d, NEW c, NEW index \in Indices,
           NEW t \in Fragments, InsertTarget(s, d, c, index, t)
    PROVE  Written!Edit
<1> DEFINE p == ListOf(s, d)
           channel == ChannelsOf(s, d)[c]
           i == IF index > channel.count THEN channel.count + 1 ELSE index
           list == InsertAt(p, i, t)
<1>1. /\ HasChannel(s, d, c) /\ FragmentOk(s, d, t) /\ pairs[s] = 0
      /\ SetList(s, d, InsertAt(p, channel.offset + i, Parsed(t)))
      /\ UNCHANGED <<dialect, pairs>>
  BY DEF InsertTarget
<1>2. p \in Seq(Target) /\ p # <<>> /\ channel.offset = 0 /\ channel.count = Len(p)
  BY <1>1, PlainSelector
<1>3. Parsed(t) = t /\ t \in Target
  BY <1>1, ParsedFragment
<1> HIDE DEF p, channel
<1>4. i \in 1..(Len(p) + 1)
  <2>1. index \in Nat /\ index >= 1
    BY BoundAssumption DEF Indices
  <2>2. Len(p) \in Nat
    BY <1>2
  <2>3. QED
    BY <1>2, <2>1, <2>2, EndIndex
<1> HIDE DEF i
<1>5. SetList(s, d, list)
  <2>1. channel.offset + i = i
    BY <1>2, <1>4
  <2>2. QED
    BY <1>1, <1>3, <2>1
<1>6. PublicChannel(None, <<>>, list) \in Written!Edited(PublicChannel(None, <<>>, p))
  <2> DEFINE columns == <<>>
  <2> HIDE DEF columns
  <2>1. PublicChannel(None, columns, InsertAt(p, i, t))
            \in Written!Edited(PublicChannel(None, columns, p))
    BY <1>4, InsertedIsEdit
  <2>2. QED
    BY <2>1 DEF columns
<1>7. list \in Seq(Target) /\ list # <<>>
  <2>1. InsertAt(p, i, t) \in Seq(Target) /\ Len(InsertAt(p, i, t)) = Len(p) + 1
    BY <1>2, <1>3, <1>4, InsertAtFacts
  <2>2. Len(p) + 1 # 0
    BY <1>2
  <2>3. QED
    BY <2>1, <2>2
<1>8. QED
  <2> HIDE DEF list
  <2>1. PublicChannel(None, <<>>, list) \in Written!Edited(PublicChannel(None, <<>>, ListOf(s, d)))
    BY <1>6 DEF p
  <2>2. QED
    BY <1>1, <1>5, <1>7, <2>1, PlainPatchWrites

\* A clause goes with the last target of its only channel.
LEMMA EmptyingIsWritten ==
    ASSUME DmlInvariant, Live, Live', NEW s \in DOMAIN tree, NEW d \in DOMAIN tree[s],
           NEW targets, Len(targets) = 1,
           ClauseOf(s, d) = <<PublicChannel(None, <<>>, targets)>>, Differs(s, d, <<>>)
    PROVE  Written!Edit
<1> DEFINE now == Deparsed
           clause == ClauseOf(s, d)
           empty == <<>>
<1>1. Deparsed' = [now EXCEPT ![s][d] = empty]
  <2>1. Differs(s, d, empty)
    OBVIOUS
  <2> HIDE DEF empty
  <2>2. Deparsed' = [Deparsed EXCEPT ![s][d] = empty]
    BY <2>1, DeparsedDiffers
  <2>3. QED
    BY <2>2
<1>2. now # None /\ DOMAIN now = DOMAIN tree /\ DOMAIN now[s] = DOMAIN tree[s] /\ now[s][d] = clause
  BY DeparsedTyped
<1>3. empty \in Written!Emptied(clause, 1) /\ 1 \in DOMAIN clause
  <2> DEFINE channel == PublicChannel(None, <<>>, targets)
  <2>1. channel.sink = None /\ channel.targets = targets
    BY DEF PublicChannel
  <2> HIDE DEF channel
  <2>2. clause = <<channel>>
    BY DEF channel
  <2> HIDE DEF clause
  <2>3. clause[1] = channel /\ 1 \in DOMAIN clause /\ Len(clause) = 1
    BY <2>2
  <2>4. RemoveAt(clause, 1) = empty
    <3>1. RemoveAt(<<channel>>, 1) = <<>>
      BY DEF RemoveAt
    <3>2. QED
      BY <2>2, <3>1
  <2>5. Written!RemoveAt(clause, 1) = empty
    BY <2>4, SameOperators
  <2>6. Len(clause[1].targets) = 1 /\ clause[1].sink = None
    BY <2>1, <2>3
  <2>7. Written!Emptied(clause, 1) = {Written!RemoveAt(clause, 1)}
    BY <2>6 DEF Written!Emptied
  <2>8. QED
    BY <2>3, <2>5, <2>7
<1> HIDE DEF now, clause, empty
<1>4. s \in DOMAIN now /\ d \in DOMAIN now[s] /\ 1 \in DOMAIN now[s][d]
      /\ empty \in Written!Emptied(now[s][d], 1)
  BY <1>2, <1>3
<1>5. \E q \in {Deparsed} : \E r \in DOMAIN q : \E k \in DOMAIN q[r] : \E b \in DOMAIN q[r][k] :
          Deparsed' \in {[q EXCEPT ![r][k][b] = x] : x \in Written!Edited(q[r][k][b])}
                          \cup {[q EXCEPT ![r][k] = x] : x \in Written!Emptied(q[r][k], b)}
  <2>1. Deparsed' \in {[now EXCEPT ![s][d] = x] : x \in Written!Emptied(now[s][d], 1)}
    BY <1>1, <1>4
  <2>2. now \in {Deparsed}
    BY DEF now
  <2>3. QED
    BY <1>4, <2>1, <2>2
<1>6. QED
  BY <1>2, <1>5 DEF Written!Edit, now

LEMMA PlainDeleteWrites ==
    ASSUME DmlInvariant, dialect # "sqlserver", NEW s, NEW d, NEW c, NEW i \in Indices,
           DeleteTarget(s, d, c, i)
    PROVE  Written!Edit
<1> DEFINE p == ListOf(s, d)
           list == RemoveAt(p, i)
<1>1. /\ HasChannel(s, d, c) /\ i <= ChannelsOf(s, d)[c].count /\ pairs[s] = 0
      /\ SetList(s, d, RemoveAt(p, ChannelsOf(s, d)[c].offset + i))
      /\ UNCHANGED <<dialect, pairs>>
  BY DEF DeleteTarget
<1>2. /\ s \in DOMAIN tree /\ d \in DOMAIN tree[s] /\ NodeOf(s, d) = d
      /\ p = tree[s][d].returning /\ p \in Seq(Target) /\ p # <<>>
      /\ ChannelsOf(s, d)[c].offset = 0 /\ ChannelsOf(s, d)[c].count = Len(p)
      /\ ListClause(pairs[s], p) = <<PublicChannel(None, <<>>, p)>>
  BY <1>1, PlainSelector
<1>3. i \in Nat /\ i >= 1 /\ i <= Len(p)
  BY <1>1, <1>2, BoundAssumption DEF Indices
<1>4. SetList(s, d, list)
  <2>1. ChannelsOf(s, d)[c].offset + i = i
    BY <1>2, <1>3
  <2>2. QED
    BY <1>1, <2>1
<1>5. ListOf(s, d) = p
  OBVIOUS
<1> HIDE DEF p
<1>6. i \in DOMAIN p /\ i \in 1..Len(p) /\ Len(p) \in Nat
  BY <1>2, <1>3
<1>7. list \in Seq(Target) /\ Len(list) = Len(p) - 1
  <2>1. p \in Seq(Target) /\ i \in 1..Len(p)
    BY <1>2, <1>6
  <2>2. RemoveAt(p, i) \in Seq(Target) /\ Len(RemoveAt(p, i)) = Len(p) - 1
    BY ONLY <2>1, RemoveAtFacts
  <2>3. QED
    BY <2>2
<1>8. CASE Len(p) # 1
  <2>1. PublicChannel(None, <<>>, list) \in Written!Edited(PublicChannel(None, <<>>, p))
    <3> DEFINE columns == <<>>
    <3> HIDE DEF columns
    <3>1. PublicChannel(None, columns, RemoveAt(p, i))
              \in Written!Edited(PublicChannel(None, columns, p))
      BY <1>6, <1>8, DeletedIsEdit
    <3>2. QED
      BY <3>1 DEF columns
  <2> HIDE DEF list
  <2>2. list # <<>>
    BY <1>6, <1>7, <1>8
  <2>3. PublicChannel(None, <<>>, list) \in Written!Edited(PublicChannel(None, <<>>, ListOf(s, d)))
    BY <1>5, <2>1
  <2>4. QED
    BY <1>1, <1>4, <1>7, <2>2, <2>3, PlainPatchWrites
<1>9. CASE Len(p) = 1
  <2> HIDE DEF list
  <2>1. list = <<>>
    BY <1>7, <1>9
  <2>2. ListClause(0, list) = <<>>
    BY <2>1 DEF ListClause, Plain
  <2>3. Differs(s, d, ListClause(pairs'[s], list)) /\ Live /\ Live'
    <3>1. pairs' = pairs /\ dialect' = dialect
      BY <1>1
    <3>2. QED
      BY <1>2, <1>4, <1>7, <3>1, ListDiffers
  <2>4. Differs(s, d, <<>>)
    <3>1. pairs'[s] = 0
      BY <1>1
    <3>2. QED
      BY <2>2, <2>3, <3>1
  <2>5. ClauseOf(s, d) = <<PublicChannel(None, <<>>, p)>>
    BY <1>2, ClauseIsList
  <2>6. QED
    BY <1>2, <1>9, <2>3, <2>4, <2>5, EmptyingIsWritten
<1>10. QED
  BY <1>8, <1>9

\* The columns and the targets of a list of pairs.
PairedChannel(n, list) == PublicChannel(Into, Second(list, n), Firsts(list, n))

\* Pairs are the one channel of their statement.
LEMMA PairsAreOne ==
    ASSUME DmlInvariant, NEW s, NEW d, NEW c, HasChannel(s, d, c), pairs[s] > 0
    PROVE  /\ dialect = "oracle" /\ s \in DOMAIN tree /\ DOMAIN tree[s] = {d} /\ NodeOf(s, d) = d
           /\ ListOf(s, d) = tree[s][d].returning /\ ListOf(s, d) \in Seq(Target)
           /\ pairs[s] \in Nat /\ Len(ListOf(s, d)) = 2 * pairs[s]
           /\ HasReceivers(ListOf(s, d), pairs[s])
           /\ ChannelsOf(s, d)[c].offset = 0 /\ ChannelsOf(s, d)[c].count = pairs[s]
           /\ ListClause(pairs[s], ListOf(s, d)) = <<PairedChannel(pairs[s], ListOf(s, d))>>
<1> DEFINE n == pairs[s]
           p == ListOf(s, d)
<1>1. s \in DOMAIN tree /\ d \in 1..DmlCount(s) /\ PairsInvariant
  BY DEF HasChannel, DmlInvariant
<1>2. PairedStatement(s) /\ n \in Nat
  BY <1>1 DEF PairsInvariant
<1>3. d = 1 /\ DOMAIN tree[s] = {1}
  BY <1>1, <1>2, PairsAgree, PairedTree
<1>4. /\ NodeOf(s, d) = 1 /\ p = tree[s][1].returning
      /\ ChannelsOf(s, d)[c].offset = 0 /\ ChannelsOf(s, d)[c].count = n
  BY <1>1, PairedSelector
<1>5. dialect = "oracle" /\ p \in Seq(Target) /\ Len(p) = 2 * n /\ HasReceivers(p, n)
  BY <1>2, <1>4 DEF PairedStatement
<1>6. ListClause(n, p) = PairedClause(n, p)
  BY DEF ListClause
<1> HIDE DEF n, p
<1>7. PairedClause(n, p) = <<PairedChannel(n, p)>>
  BY <1>2, <1>5, PairedClauseFacts DEF PairedChannel
<1>8. QED
  BY <1>1, <1>2, <1>3, <1>4, <1>5, <1>6, <1>7 DEF n, p

\* A patch of a list of pairs.
LEMMA PairStep ==
    ASSUME DmlInvariant, DmlInvariant', dialect' = dialect,
           NEW s, NEW d, NEW c, HasChannel(s, d, c), pairs[s] > 0,
           NEW n \in Nat, n > 0, pairs'[s] = n,
           \A r \in DOMAIN tree : r # s => pairs'[r] = pairs[r],
           NEW list \in Seq(Target), SetList(s, d, list),
           PairedChannel(n, list) \in Written!Edited(PairedChannel(pairs[s], ListOf(s, d)))
    PROVE  Written!Edit
<1> DEFINE old == PairedChannel(pairs[s], ListOf(s, d))
           new == PairedChannel(n, list)
<1>1. /\ dialect # "sqlserver" /\ s \in DOMAIN tree /\ DOMAIN tree[s] = {d} /\ NodeOf(s, d) = d
      /\ ListClause(pairs[s], tree[s][d].returning) = <<old>>
  BY PairsAreOne
<1>2. pairs'[s] = n /\ \A r \in DOMAIN tree : r # s => pairs'[r] = pairs[r]
  OBVIOUS
<1>3. tree' = [tree EXCEPT ![s][d].returning = list]
  BY <1>1 DEF SetList
<1>4. ListIsSet(tree, tree', s, d, list)
  <2>1. tree \in Seq(Seq(NodeRecord))
    BY DEF DmlInvariant
  <2>2. QED
    BY <1>1, <1>3, <2>1, SetReturning
<1>5. s \in DOMAIN tree' /\ tree'[s][d].returning = list
  BY <1>1, <1>4 DEF ListIsSet
<1>6. d = 1
  <2>1. PairedStatement(s)
    BY <1>1 DEF DmlInvariant, PairsInvariant
  <2>2. QED
    BY <1>1, <2>1, PairedTree
<1>7. Len(list) = 2 * n /\ HasReceivers(list, n)
  <2>1. PairedStatement(s)'
    BY <1>2, <1>5 DEF DmlInvariant, PairsInvariant
  <2>2. QED
    BY <1>2, <1>5, <1>6, <2>1 DEF PairedStatement, HasReceivers
<1>8. ListClause(n, list) = <<new>>
  BY <1>7, PairedClauseFacts DEF PairedChannel, ListClause
<1>9. new \in Written!Edited(old) /\ d \in DOMAIN tree[s] /\ ListClause(pairs'[s], list) = <<new>>
  BY <1>1, <1>2, <1>8
<1> HIDE DEF old, new
<1>10. QED
  BY <1>1, <1>2, <1>9, ListStep

LEMMA PairReplaceWrites ==
    ASSUME DmlInvariant, DmlInvariant', NEW s, NEW d, NEW c, NEW i \in Indices,
           NEW t \in Fragments, ReplaceTarget(s, d, c, i, t), pairs[s] > 0
    PROVE  Written!Edit
<1> DEFINE p == ListOf(s, d)
           n == pairs[s]
           list == [p EXCEPT ![i] = t]
<1>1. /\ HasChannel(s, d, c) /\ i <= ChannelsOf(s, d)[c].count /\ FragmentOk(s, d, t)
      /\ SetList(s, d, [p EXCEPT ![ChannelsOf(s, d)[c].offset + i] = Parsed(t)])
      /\ UNCHANGED <<dialect, pairs>>
  BY DEF ReplaceTarget
<1>2. /\ dialect # "sqlserver" /\ p \in Seq(Target) /\ n \in Nat /\ Len(p) = 2 * n
      /\ ChannelsOf(s, d)[c].offset = 0 /\ ChannelsOf(s, d)[c].count = n
      /\ s \in DOMAIN tree
  BY <1>1, PairsAreOne
<1>3. Parsed(t) = t /\ t \in Target
  BY <1>1, <1>2, ParsedFragment
<1>4. i \in Nat /\ i >= 1 /\ i <= n
  BY <1>1, <1>2, BoundAssumption DEF Indices
<1>5. SetList(s, d, list)
  <2>1. ChannelsOf(s, d)[c].offset + i = i
    BY <1>2, <1>4
  <2>2. QED
    BY <1>1, <1>3, <2>1
<1>6. list \in Seq(Target)
  <2> HIDE DEF p
  <2>1. [p EXCEPT ![i] = t] \in Seq(Target) /\ Len([p EXCEPT ![i] = t]) = Len(p)
    BY <1>2, <1>3, ReplacedFacts
  <2>2. QED
    BY <2>1
<1>7. pairs'[s] = n /\ n > 0 /\ \A r \in DOMAIN tree : r # s => pairs'[r] = pairs[r]
  BY <1>1
<1>8. PairedChannel(n, list) \in Written!Edited(PairedChannel(n, p))
  <2> DEFINE columns == Second(p, n)
             targets == Firsts(p, n)
  <2>1. DOMAIN p = 1..2 * n
    BY <1>2
  <2>2. Second(list, n) = columns
    <3>1. \A j \in 1..n : list[n + j] = p[n + j]
      BY <1>2, <1>4, <2>1
    <3> HIDE DEF list
    <3>2. QED
      BY <3>1 DEF Second
  <2>3. Firsts(list, n) = [targets EXCEPT ![i] = t]
    <3>1. \A j \in 1..n : list[j] = IF j = i THEN t ELSE p[j]
      BY <1>2, <2>1
    <3> HIDE DEF list
    <3>2. QED
      BY <3>1 DEF Firsts
  <2>4. i \in DOMAIN targets
    BY <1>2, <1>4 DEF Firsts
  <2> HIDE DEF columns, targets, list
  <2>5. PublicChannel(Into, columns, [targets EXCEPT ![i] = t])
            \in Written!Edited(PublicChannel(Into, columns, targets))
    BY <2>4, ReplacedIsEdit
  <2>6. QED
    BY <2>2, <2>3, <2>5 DEF PairedChannel, columns, targets
<1>9. QED
  <2> HIDE DEF list
  <2>1. QED
    BY <1>1, <1>2, <1>5, <1>6, <1>7, <1>8, PairStep

\* Where a target and its receiver go in a list of n pairs.
PairIn(p, n, i, t, r, list) ==
    /\ list \in Seq(Target) /\ Len(list) = 2 * n + 2
    /\ \A j \in 1..n + 1 :
           /\ list[j] = IF j < i THEN p[j] ELSE IF j = i THEN t ELSE p[j - 1]
           /\ list[n + 1 + j] = IF j < i THEN p[n + j]
                                ELSE IF j = i THEN r ELSE p[n + (j - 1)]

LEMMA PairInserted ==
    ASSUME NEW n \in Nat, NEW p \in Seq(Target), Len(p) = 2 * n, NEW i \in 1..(n + 1),
           NEW t \in Target, NEW r \in Target,
           NEW list, list = InsertAt(InsertAt(p, i, t), n + i + 1, r)
    PROVE  PairIn(p, n, i, t, r, list)
<1> DEFINE half == InsertAt(p, i, t)
           place == n + i + 1
<1>1. i \in 1..(Len(p) + 1) /\ Len(p) \in Nat
  OBVIOUS
<1>2. /\ half \in Seq(Target) /\ Len(half) = Len(p) + 1
      /\ \A j \in 1..(Len(p) + 1) :
             half[j] = IF j < i THEN p[j] ELSE IF j = i THEN t ELSE p[j - 1]
  <2>1. p \in Seq(Target) /\ i \in 1..(Len(p) + 1) /\ t \in Target
    BY <1>1
  <2>2. /\ InsertAt(p, i, t) \in Seq(Target) /\ Len(InsertAt(p, i, t)) = Len(p) + 1
        /\ DOMAIN InsertAt(p, i, t) = 1..(Len(p) + 1)
        /\ \A j \in 1..(Len(p) + 1) :
               InsertAt(p, i, t)[j] = IF j < i THEN p[j] ELSE IF j = i THEN t ELSE p[j - 1]
    <3>1. InsertAt(p, i, t) \in Seq(Target)
          /\ IsInsertion(InsertAt(p, i, t), p, i, t)
      BY ONLY <2>1, InsertionIs
    <3>2. QED
      BY ONLY <3>1 DEF IsInsertion
  <2>3. QED
    BY <2>2
<1> HIDE DEF half
<1>3. Len(half) = 2 * n + 1 /\ place \in 1..(Len(half) + 1) /\ place \in Nat
  <2>1. Len(half) = 2 * n + 1
    BY <1>1, <1>2
  <2>2. place \in Nat /\ place >= 1 /\ place <= 2 * n + 2
    OBVIOUS
  <2> HIDE DEF place
  <2>3. QED
    BY <2>1, <2>2
<1> HIDE DEF place
<1>4. /\ list \in Seq(Target) /\ Len(list) = Len(half) + 1
      /\ \A j \in 1..(Len(half) + 1) :
             list[j] = IF j < place THEN half[j] ELSE IF j = place THEN r ELSE half[j - 1]
  <2>1. list = InsertAt(half, place, r)
    BY DEF half, place
  <2>2. half \in Seq(Target) /\ place \in 1..(Len(half) + 1) /\ r \in Target
    BY <1>2, <1>3
  <2>3. /\ InsertAt(half, place, r) \in Seq(Target) /\ Len(InsertAt(half, place, r)) = Len(half) + 1
        /\ DOMAIN InsertAt(half, place, r) = 1..(Len(half) + 1)
        /\ \A j \in 1..(Len(half) + 1) :
               InsertAt(half, place, r)[j]
                   = IF j < place THEN half[j] ELSE IF j = place THEN r ELSE half[j - 1]
    <3>1. InsertAt(half, place, r) \in Seq(Target)
          /\ IsInsertion(InsertAt(half, place, r), half, place, r)
      BY ONLY <2>2, InsertionIs
    <3>2. QED
      BY ONLY <3>1 DEF IsInsertion
  <2>4. QED
    BY <2>1, <2>3
<1>5. ASSUME NEW j \in 1..n + 1
      PROVE  /\ list[j] = IF j < i THEN p[j] ELSE IF j = i THEN t ELSE p[j - 1]
             /\ list[n + 1 + j] = IF j < i THEN p[n + j]
                                  ELSE IF j = i THEN r ELSE p[n + (j - 1)]
  <2>1. list[j] = half[j]
    <3>1. j \in 1..(Len(half) + 1) /\ j < place
      BY <1>3 DEF place
    <3>2. QED
      BY <1>4, <3>1
  <2>2. half[j] = IF j < i THEN p[j] ELSE IF j = i THEN t ELSE p[j - 1]
    BY <1>2
  <2>3. CASE j < i
    <3>1. n + 1 + j \in 1..(Len(half) + 1) /\ n + 1 + j < place
      BY <1>3, <2>3 DEF place
    <3>2. list[n + 1 + j] = half[n + 1 + j]
      BY <1>4, <3>1
    <3>3. n + 1 + j \in 1..(Len(p) + 1) /\ n + 1 + j > i /\ (n + 1 + j) - 1 = n + j
      BY <2>3
    <3>4. half[n + 1 + j] = p[(n + 1 + j) - 1]
      <4> DEFINE m == n + 1 + j
      <4>1. m \in 1..(Len(p) + 1) /\ ~(m < i) /\ m # i
        BY <3>3
      <4> HIDE DEF m
      <4>2. half[m] = p[m - 1]
        BY <1>2, <4>1
      <4>3. QED
        BY <4>2 DEF m
    <3>5. list[n + 1 + j] = p[n + j]
      BY <3>2, <3>3, <3>4
    <3>6. QED
      BY <2>1, <2>2, <2>3, <3>5
  <2>4. CASE j = i
    <3>1. n + 1 + j \in 1..(Len(half) + 1) /\ n + 1 + j = place
      BY <1>3, <2>4 DEF place
    <3>2. list[n + 1 + j] = r
      BY <1>3, <1>4, <3>1
    <3>3. QED
      BY <2>1, <2>2, <2>4, <3>2
  <2>5. CASE j > i
    <3>1. n + 1 + j \in 1..(Len(half) + 1) /\ n + 1 + j > place /\ (n + 1 + j) - 1 = n + j
      BY <1>3, <2>5 DEF place
    <3>2. list[n + 1 + j] = half[n + j]
      BY <1>3, <1>4, <3>1
    <3>3. n + j \in 1..(Len(p) + 1) /\ n + j > i /\ (n + j) - 1 = n + (j - 1)
      BY <2>5
    <3>4. half[n + j] = p[(n + j) - 1]
      <4> DEFINE m == n + j
      <4>1. m \in 1..(Len(p) + 1) /\ ~(m < i) /\ m # i
        BY <3>3
      <4> HIDE DEF m
      <4>2. half[m] = p[m - 1]
        BY <1>2, <4>1
      <4>3. QED
        BY <4>2 DEF m
    <3>5. list[n + 1 + j] = p[n + (j - 1)]
      BY <3>2, <3>3, <3>4
    <3>6. QED
      BY <2>1, <2>2, <2>5, <3>5
  <2>6. QED
    BY <2>3, <2>4, <2>5
<1>6. Len(list) = 2 * n + 2
  BY <1>3, <1>4
<1>7. QED
  BY <1>4, <1>5, <1>6 DEF PairIn

LEMMA PairInsertWrites ==
    ASSUME DmlInvariant, DmlInvariant', NEW s, NEW d, NEW c, NEW i \in Indices,
           NEW t \in Fragments, NEW bind \in Receivers, InsertPair(s, d, c, i, t, bind)
    PROVE  Written!Edit
<1> DEFINE p == ListOf(s, d)
           n == pairs[s]
           r == Receiver(bind)
           list == InsertAt(InsertAt(p, i, t), n + i + 1, r)
<1>1. /\ HasChannel(s, d, c) /\ i <= ChannelsOf(s, d)[c].count + 1 /\ FragmentOk(s, d, t)
      /\ n > 0 /\ SetList(s, d, list) /\ dialect' = dialect
      /\ pairs' = [pairs EXCEPT ![s] = n + 1]
  BY DEF InsertPair
<1>2. /\ p \in Seq(Target) /\ n \in Nat /\ Len(p) = 2 * n /\ HasReceivers(p, n)
      /\ ChannelsOf(s, d)[c].count = n /\ s \in DOMAIN tree
  BY <1>1, PairsAreOne
<1>3. t \in Target /\ r \in Target /\ bind \in STRING /\ r[1] = bind
  BY TextAssumption DEF Target, Word, Receiver
<1>4. i \in 1..(n + 1)
  BY <1>1, <1>2, BoundAssumption DEF Indices
<1>5. n + 1 \in Nat /\ n + 1 > 0 /\ pairs'[s] = n + 1
      /\ \A q \in DOMAIN tree : q # s => pairs'[q] = pairs[q]
  BY <1>1, <1>2 DEF DmlInvariant, PairsInvariant
<1> HIDE DEF p, n, r
<1>6. PairIn(p, n, i, t, r, list)
  <2>1. n \in Nat /\ p \in Seq(Target) /\ Len(p) = 2 * n
    BY <1>2
  <2>2. i \in 1..(n + 1) /\ t \in Target /\ r \in Target
    BY <1>3, <1>4
  <2>3. list = InsertAt(InsertAt(p, i, t), n + i + 1, r)
    OBVIOUS
  <2> HIDE DEF list
  <2>4. QED
    BY ONLY <2>1, <2>2, <2>3, PairInserted
<1> HIDE DEF list
<1>7. /\ list \in Seq(Target)
       /\ \A j \in 1..n + 1 :
              /\ list[j] = IF j < i THEN p[j] ELSE IF j = i THEN t ELSE p[j - 1]
              /\ list[n + 1 + j] = IF j < i THEN p[n + j]
                                   ELSE IF j = i THEN r ELSE p[n + (j - 1)]
  BY <1>6 DEF PairIn
<1> DEFINE columns == Second(p, n)
           targets == Firsts(p, n)
<1>8. columns \in Seq(STRING) /\ targets \in Seq(Target) /\ Len(columns) = n /\ Len(targets) = n
      /\ \A j \in 1..n : columns[j] = p[n + j][1] /\ targets[j] = p[j]
  <2>1. columns \in Seq(STRING) /\ targets \in Seq(Target)
    BY <1>2, PairedClauseFacts
  <2>2. Len(columns) = n /\ Len(targets) = n
    BY <1>2 DEF Second, Firsts
  <2>3. QED
    BY <2>1, <2>2 DEF Second, Firsts
<1> HIDE DEF columns, targets
<1>9. Firsts(list, n + 1) = InsertAt(targets, i, t)
  <2>1. targets \in Seq(Target) /\ i \in 1..(Len(targets) + 1) /\ t \in Target
    BY <1>3, <1>4, <1>8
  <2>2. /\ InsertAt(targets, i, t) \in Seq(Target)
        /\ Len(InsertAt(targets, i, t)) = Len(targets) + 1
        /\ DOMAIN InsertAt(targets, i, t) = 1..(Len(targets) + 1)
        /\ \A j \in 1..(Len(targets) + 1) :
               InsertAt(targets, i, t)[j]
                   = IF j < i THEN targets[j] ELSE IF j = i THEN t ELSE targets[j - 1]
    <3>1. InsertAt(targets, i, t) \in Seq(Target)
          /\ IsInsertion(InsertAt(targets, i, t), targets, i, t)
      BY ONLY <2>1, InsertionIs
    <3>2. QED
      BY ONLY <3>1 DEF IsInsertion
  <2> DEFINE new == InsertAt(targets, i, t)
  <2> HIDE DEF new
  <2>3. new = [j \in 1..n + 1 |-> new[j]]
    BY <1>8, <2>2 DEF new
  <2>4. ASSUME NEW j \in 1..n + 1 PROVE new[j] = list[j]
    <3>1. new[j] = IF j < i THEN targets[j] ELSE IF j = i THEN t ELSE targets[j - 1]
      BY <1>8, <2>2 DEF new
    <3>2. CASE j < i
      <4>1. j \in 1..n
        BY <1>2, <1>4, <3>2
      <4>2. QED
        BY <1>7, <1>8, <3>1, <3>2, <4>1
    <3>3. CASE j = i
      BY <1>7, <3>1, <3>3
    <3>4. CASE j > i
      <4>1. j - 1 \in 1..n /\ ~(j < i) /\ j # i
        BY <1>2, <1>4, <3>4
      <4>2. QED
        BY <1>7, <1>8, <3>1, <4>1
    <3>5. QED
      BY <1>4, <3>2, <3>3, <3>4
  <2>5. QED
    BY <2>3, <2>4 DEF Firsts, new
<1>10. Second(list, n + 1) = InsertAt(columns, i, bind)
  <2> DEFINE T == STRING
  <2>1. columns \in Seq(T) /\ i \in 1..(Len(columns) + 1) /\ bind \in T
    BY <1>3, <1>4, <1>8
  <2> HIDE DEF T
  <2>2. /\ InsertAt(columns, i, bind) \in Seq(T)
        /\ Len(InsertAt(columns, i, bind)) = Len(columns) + 1
        /\ DOMAIN InsertAt(columns, i, bind) = 1..(Len(columns) + 1)
        /\ \A j \in 1..(Len(columns) + 1) :
               InsertAt(columns, i, bind)[j]
                   = IF j < i THEN columns[j] ELSE IF j = i THEN bind ELSE columns[j - 1]
    <3>1. InsertAt(columns, i, bind) \in Seq(T)
          /\ IsInsertion(InsertAt(columns, i, bind), columns, i, bind)
      BY ONLY <2>1, InsertionIs
    <3>2. QED
      BY ONLY <3>1 DEF IsInsertion
  <2> DEFINE new == InsertAt(columns, i, bind)
  <2> HIDE DEF new
  <2>3. new = [j \in 1..n + 1 |-> new[j]]
    BY <1>8, <2>2 DEF new
  <2>4. ASSUME NEW j \in 1..n + 1 PROVE new[j] = list[n + 1 + j][1]
    <3>1. new[j] = IF j < i THEN columns[j] ELSE IF j = i THEN bind ELSE columns[j - 1]
      BY <1>8, <2>2 DEF new
    <3>2. CASE j < i
      <4>1. j \in 1..n
        BY <1>2, <1>4, <3>2
      <4>2. list[n + 1 + j] = p[n + j]
        BY <1>7, <3>2
      <4>3. QED
        BY <1>8, <3>1, <3>2, <4>1, <4>2
    <3>3. CASE j = i
      <4>1. ~(j < i)
        BY <1>4, <3>3
      <4>2. list[n + 1 + j] = r
        BY <1>7, <3>3, <4>1
      <4>3. QED
        BY <1>3, <3>1, <3>3, <4>1, <4>2
    <3>4. CASE j > i
      <4>1. j - 1 \in 1..n /\ ~(j < i) /\ j # i
        BY <1>2, <1>4, <3>4
      <4>2. list[n + 1 + j] = p[n + (j - 1)]
        BY <1>7, <4>1
      <4>3. QED
        BY <1>8, <3>1, <4>1, <4>2
    <3>5. QED
      BY <1>4, <3>2, <3>3, <3>4
  <2> DEFINE P(j) == list[n + 1 + j][1]
  <2>5. Second(list, n + 1) = [j \in 1..n + 1 |-> P(j)]
    BY DEF Second
  <2>6. \A j \in 1..n + 1 : new[j] = P(j)
    BY <2>4
  <2> HIDE DEF P
  <2>7. QED
    BY <2>3, <2>5, <2>6 DEF new
<1>11. PairedChannel(n + 1, list) \in Written!Edited(PairedChannel(n, p))
  <2>1. Len(targets) = Len(columns) /\ i \in 1..(Len(targets) + 1)
    BY <1>4, <1>8
  <2>2. PublicChannel(Into, InsertAt(columns, i, bind), InsertAt(targets, i, t))
            \in Written!Edited(PublicChannel(Into, columns, targets))
    BY <2>1, InsertedPairIsEdit
  <2>3. QED
    BY <1>9, <1>10, <2>2 DEF PairedChannel, columns, targets
<1> DEFINE m == n + 1
<1>12. /\ m \in Nat /\ m > 0 /\ pairs'[s] = m
       /\ PairedChannel(m, list) \in Written!Edited(PairedChannel(pairs[s], ListOf(s, d)))
       /\ pairs[s] > 0
  BY <1>1, <1>5, <1>11 DEF n, p
<1> HIDE DEF m
<1>13. QED
  BY <1>1, <1>5, <1>7, <1>12, PairStep

\* Every patch is one edit of what is written.
LEMMA PatchWrites ==
    ASSUME DmlInvariant, DmlInvariant', Patch
    PROVE  Written!Edit
<1>1. PICK p \in Selectors, i \in Indices :
        \/ DeleteTarget(p[1], p[2], p[3], i)
        \/ DeleteSinkColumn(p[1], p[2], p[3], i)
        \/ \E t \in Fragments :
               \/ ReplaceTarget(p[1], p[2], p[3], i, t)
               \/ InsertTarget(p[1], p[2], p[3], i, t)
               \/ \E r \in Receivers : \/ InsertPair(p[1], p[2], p[3], i, t, r)
                                       \/ InsertTargetSinkColumn(p[1], p[2], p[3], i, t, r)
        \/ \E r \in Receivers : \/ SetSinkColumn(p[1], p[2], p[3], i, r)
                                \/ InsertSinkColumn(p[1], p[2], p[3], i, r)
        \/ i = 1 /\ \E sink \in Sinks : SetSink(p[1], p[2], p[3], sink)
  BY DEF Patch
<1> DEFINE s == p[1]
           d == p[2]
           c == p[3]
<1> HIDE DEF s, d, c
<1>2. CASE DeleteTarget(s, d, c, i)
  BY <1>2, DeleteWrites, PlainDeleteWrites
<1>3. ASSUME NEW t \in Fragments, ReplaceTarget(s, d, c, i, t)
      PROVE  Written!Edit
  <2>1. CASE dialect = "sqlserver"
    BY <1>3, <2>1, ReplaceWrites
  <2>2. CASE dialect # "sqlserver" /\ pairs[s] = 0
    BY <1>3, <2>2, PlainReplaceWrites
  <2>3. CASE pairs[s] > 0
    BY <1>3, <2>3, PairReplaceWrites
  <2>4. pairs[s] = 0 \/ pairs[s] > 0
    <3>1. s \in DOMAIN tree
      BY <1>3 DEF ReplaceTarget, HasChannel
    <3>2. pairs[s] \in Nat
      BY <3>1 DEF DmlInvariant, PairsInvariant
    <3>3. QED
      BY <3>2
  <2>5. QED
    BY <2>1, <2>2, <2>3, <2>4
<1>4. ASSUME NEW t \in Fragments, InsertTarget(s, d, c, i, t)
      PROVE  Written!Edit
  <2>1. CASE dialect = "sqlserver"
    BY <1>4, <2>1, InsertWrites
  <2>2. CASE dialect # "sqlserver"
    BY <1>4, <2>2, PlainInsertWrites
  <2>3. QED
    BY <2>1, <2>2
<1>5. ASSUME NEW t \in Fragments, NEW r \in Receivers, InsertPair(s, d, c, i, t, r)
      PROVE  Written!Edit
  BY <1>5, PairInsertWrites
<1>6. ASSUME NEW t \in Fragments, NEW r \in Receivers, InsertTargetSinkColumn(s, d, c, i, t, r)
      PROVE  Written!Edit
  BY <1>6, InsertSinkTargetWrites
<1>7. CASE \/ DeleteSinkColumn(s, d, c, i)
           \/ \E r \in Receivers : SetSinkColumn(s, d, c, i, r) \/ InsertSinkColumn(s, d, c, i, r)
           \/ \E sink \in Sinks : SetSink(s, d, c, sink)
  BY <1>7, SinkPatchesWrite
<1>8. QED
  BY <1>1, <1>2, <1>3, <1>4, <1>5, <1>6, <1>7 DEF s, d, c

-----------------------------------------------------------------------------
(* What is parsed is what is written.                                      *)

\* A channel of the state has the parts of the written one, a place apart.
HasParts(channel, written) ==
    /\ channel.sink = written.sink /\ channel.columns = written.columns
    /\ channel.count = Len(written.targets) /\ channel.actions = ActionsOf(written.targets)

LEMMA MovedChannel ==
    ASSUME NEW written, NEW offset
    PROVE  HasParts([NewChannel(written) EXCEPT !.offset = offset], written)
BY DEF HasParts, NewChannel

LEMMA ChannelsHaveParts ==
    ASSUME NEW clause \in Clause, IsWritten(clause), Len(clause) <= 2, NEW c \in DOMAIN clause
    PROVE  HasParts(Channels(clause)[c], clause[c])
<1>1. DOMAIN clause = 1..Len(clause) /\ Len(clause) \in Nat
  BY DEF Clause
<1> DEFINE x == NewChannel(clause[1])
           y == NewChannel(clause[2])
           first == [x EXCEPT !.offset = 0]
           second == [y EXCEPT !.offset = first.offset + first.count]
<1>2. HasParts(first, clause[1]) /\ HasParts(second, clause[2])
  BY MovedChannel
<1>3. AddChannel(<<>>, x) = <<first>>
  BY DEF AddChannel
<1>4. AddChannel(<<first>>, y) = <<first, second>>
  <2> DEFINE one == <<first>>
  <2>1. one # <<>> /\ Len(one) = 1 /\ one[1] = first
    OBVIOUS
  <2> HIDE DEF first, second
  <2>2. Append(one, second) = <<first, second>>
    BY AppendToOne
  <2> HIDE DEF one
  <2> USE DEF second
  <2>3. AddChannel(one, y) = Append(one, second)
    BY <2>1 DEF AddChannel
  <2>4. QED
    BY <2>2, <2>3 DEF one
<1>5. CASE Len(clause) = 1
  <2>1. Channels(clause) = <<first>> /\ c = 1
    BY <1>1, <1>3, <1>5 DEF Channels
  <2> HIDE DEF first
  <2>2. QED
    BY <1>2, <2>1
<1>6. CASE Len(clause) = 2
  <2>1. Channels(clause) = <<first, second>> /\ c \in {1, 2}
    BY <1>1, <1>3, <1>4, <1>6 DEF Channels
  <2> HIDE DEF first, second
  <2>2. QED
    BY <1>2, <2>1
<1>7. QED
  BY <1>1, <1>5, <1>6

\* Both parts of a concatenation are in it.
LEMMA ConcatParts ==
    ASSUME NEW T, NEW p \in Seq(T), NEW q \in Seq(T)
    PROVE  /\ \A i \in 1..Len(p) : (p \o q)[i] = p[i]
           /\ \A i \in 1..Len(q) : (p \o q)[Len(p) + i] = q[i]
OBVIOUS

\* The targets of a channel, where it says they are.
TargetsAt(list, offset, targets) ==
    \A i \in DOMAIN targets : list[offset + i] = ParserTargets(targets)[i]

LEMMA JoinedHasTargets ==
    ASSUME NEW clause \in Clause, IsWritten(clause), Len(clause) <= 2, NEW c \in DOMAIN clause
    PROVE  TargetsAt(Joined(clause), Channels(clause)[c].offset, clause[c].targets)
<1> DEFINE lists == [b \in DOMAIN clause |-> ParserTargets(clause[b].targets)]
           channels == Channels(clause)
<1>1. DOMAIN clause = 1..Len(clause) /\ Len(clause) \in Nat
  BY DEF Clause
<1>2. \A b \in DOMAIN clause :
          /\ lists[b] \in Seq(Target) /\ Len(lists[b]) = Len(clause[b].targets)
          /\ clause[b].targets \in Seq(Target)
  BY ClauseElement, ParserTargetsFacts
<1>3. lists \in Seq(Seq(Target)) /\ Len(lists) = Len(clause)
  <2> DEFINE T == Seq(Target)
  <2>1. \A b \in 1..Len(clause) : lists[b] \in T
    BY <1>1, <1>2
  <2> HIDE DEF T
  <2>2. lists \in Seq(T) /\ Len(lists) = Len(clause)
    BY <1>1, <2>1
  <2>3. QED
    BY <2>2 DEF T
<1>4. Joined(clause) = FlattenSeq(lists)
  BY DEF Joined
<1>5. \A b \in DOMAIN clause : lists[b] = ParserTargets(clause[b].targets)
  OBVIOUS
<1>6. Tiles(channels, Len(Joined(clause))) /\ Len(channels) = Len(clause)
      /\ DOMAIN channels = DOMAIN clause
  BY <1>1, ClauseFacts
<1>7. \A b \in DOMAIN clause : channels[b].count = Len(clause[b].targets)
  BY ChannelsHaveParts DEF HasParts
<1> HIDE DEF lists, channels
<1>8. lists # <<>>
  BY <1>1, <1>3
<1>9. PICK f : /\ f[1] = lists[1]
               /\ \A i \in 2..Len(lists) : f[i] = f[i - 1] \o lists[i]
               /\ FlattenSeq(lists) = f[Len(lists)]
  BY <1>3, <1>8, FlattenFacts
<1>10. CASE Len(clause) = 1
  <2>1. c = 1 /\ Joined(clause) = lists[1]
    BY <1>1, <1>3, <1>4, <1>9, <1>10
  <2>2. channels[c].offset = 0
    BY <1>6, <2>1 DEF Tiles
  <2>3. \A i \in DOMAIN clause[c].targets : 0 + i = i
    BY <1>2
  <2>4. QED
    BY <1>5, <2>1, <2>2, <2>3 DEF TargetsAt, channels
<1>11. CASE Len(clause) = 2
  <2> DEFINE p == lists[1]
             q == lists[2]
  <2>1. Joined(clause) = p \o q
    <3>1. 2 \in 2..Len(lists) /\ 2 - 1 = 1
      BY <1>3, <1>11
    <3>2. f[2] = f[2 - 1] \o lists[2]
      BY <1>9, <3>1
    <3>3. QED
      BY <1>3, <1>4, <1>9, <1>11, <3>1, <3>2
  <2>2. 1 \in DOMAIN clause /\ 2 \in DOMAIN clause /\ c \in {1, 2}
    BY <1>1, <1>11
  <2>3. /\ p \in Seq(Target) /\ q \in Seq(Target)
        /\ Len(p) = Len(clause[1].targets) /\ Len(q) = Len(clause[2].targets)
        /\ p = ParserTargets(clause[1].targets) /\ q = ParserTargets(clause[2].targets)
    BY <1>2, <1>5, <2>2
  <2>4. channels[1].offset = 0 /\ channels[2].offset = Len(p)
    <3>1. channels[1].offset = 0 /\ channels[2].offset = channels[1].offset + channels[1].count
      <4>1. 2 - 1 = 1 /\ 2 # 1
        OBVIOUS
      <4>2. QED
        BY <1>6, <2>2, <4>1 DEF Tiles
    <3>2. QED
      BY <1>7, <2>2, <2>3, <3>1
  <2> HIDE DEF p, q
  <2>5. /\ \A i \in 1..Len(p) : (p \o q)[i] = p[i]
        /\ \A i \in 1..Len(q) : (p \o q)[Len(p) + i] = q[i]
    <3>1. p \in Seq(Target) /\ q \in Seq(Target)
      BY <2>3
    <3>2. QED
      BY ONLY <3>1, ConcatParts
  <2>6. \A b \in {1, 2} : DOMAIN clause[b].targets = 1..Len(clause[b].targets)
                          /\ Len(clause[b].targets) \in Nat
    BY <1>2, <2>2
  <2>7. CASE c = 1
    <3>1. \A i \in DOMAIN clause[1].targets : 0 + i = i /\ i \in 1..Len(p)
      BY <2>3, <2>6
    <3>2. QED
      BY <2>1, <2>3, <2>4, <2>5, <2>7, <3>1 DEF TargetsAt, channels
  <2>8. CASE c = 2
    <3>1. \A i \in DOMAIN clause[2].targets : i \in 1..Len(q)
      BY <2>3, <2>6
    <3>2. QED
      BY <2>1, <2>3, <2>4, <2>5, <2>8, <3>1 DEF TargetsAt, channels
  <2>9. QED
    BY <2>2, <2>7, <2>8
<1>12. QED
  BY <1>1, <1>10, <1>11

\* The deparse undoes the preprocessing of a clause.
LEMMA ClauseComesBack ==
    ASSUME NEW clause \in Clause, IsWritten(clause), Len(clause) <= 2
    PROVE  PublicClause(Channels(clause), Joined(clause)) = clause
<1> DEFINE x == Channels(clause)
           list == Joined(clause)
<1>1. x \in Seq(Channel) /\ Len(x) = Len(clause) /\ list \in Seq(Target) /\ Tiles(x, Len(list))
  BY ClauseFacts
<1>2. clause = [c \in 1..Len(clause) |-> clause[c]] /\ DOMAIN clause = 1..Len(clause)
  BY DEF Clause
<1>3. ASSUME NEW c \in DOMAIN clause
      PROVE  ChannelText(x, list, c) = clause[c]
  <2> DEFINE targets == clause[c].targets
  <2>1. HasParts(x[c], clause[c]) /\ TargetsAt(list, x[c].offset, targets)
    BY ChannelsHaveParts, JoinedHasTargets
  <2>2. targets \in Seq(Target) /\ HasMarker(targets)
    BY ClauseElement
  <2>3. clause[c] = PublicChannel(clause[c].sink, clause[c].columns, targets)
    <3> DEFINE E == [sink : Sink, columns : Seq(STRING), targets : Seq(Target)]
    <3>1. clause \in Seq(E)
      BY DEF Clause
    <3> HIDE DEF E
    <3>2. clause[c] \in E
      BY <3>1
    <3>3. QED
      BY <3>2 DEF E, PublicChannel
  <2> HIDE DEF x, list, targets
  <2>4. DOMAIN targets = 1..Len(targets) /\ targets = [i \in 1..Len(targets) |-> targets[i]]
    BY <2>2
  <2>5. ASSUME NEW i \in DOMAIN targets
        PROVE  Public(list[x[c].offset + i], MarkerAt(x[c], i)) = targets[i]
    <3>1. list[x[c].offset + i] = ParserTargets(targets)[i]
      BY <2>1 DEF TargetsAt
    <3>2. MarkerAt(x[c], i) = IF Action \in ToSet(targets[i]) THEN MarkerFor(targets) ELSE None
      <4>1. x[c].actions = ActionsOf(targets)
        BY <2>1 DEF HasParts, targets
      <4>2. QED
        BY <4>1 DEF MarkerAt, ActionsOf
    <3>3. QED
      BY <2>2, <3>1, <3>2, TargetComesBack
  <2>6. x[c].sink = clause[c].sink /\ x[c].columns = clause[c].columns
        /\ x[c].count = Len(targets)
    BY <2>1 DEF HasParts, targets
  <2>7. TargetsText(x, list, c) = targets
    BY <2>4, <2>5, <2>6 DEF TargetsText
  <2>8. QED
    BY <2>3, <2>6, <2>7 DEF ChannelText
<1> HIDE DEF x, list
<1>4. PublicClause(x, list) = [c \in 1..Len(x) |-> ChannelText(x, list, c)]
  BY <1>1, PublicClauseFacts
<1>5. QED
  BY <1>1, <1>2, <1>3, <1>4 DEF x, list

Has(list, e) == \E g \in DOMAIN list : list[g] = e

LEMMA ConcatHas ==
    ASSUME NEW T, NEW p \in Seq(T), NEW q \in Seq(T), NEW e, Has(p, e) \/ Has(q, e)
    PROVE  Has(p \o q, e)
<1>1. /\ \A i \in 1..Len(p) : (p \o q)[i] = p[i]
      /\ \A i \in 1..Len(q) : (p \o q)[Len(p) + i] = q[i]
  BY ConcatParts
<1>2. p \o q \in Seq(T) /\ Len(p \o q) = Len(p) + Len(q) /\ Len(p) \in Nat /\ Len(q) \in Nat
  BY ConcatFacts
<1>3. DOMAIN p = 1..Len(p) /\ DOMAIN q = 1..Len(q) /\ DOMAIN (p \o q) = 1..Len(p) + Len(q)
  BY <1>2
<1> DEFINE all == p \o q
<1> HIDE DEF all
<1>4. CASE Has(p, e)
  <2>1. PICK g \in DOMAIN p : p[g] = e
    BY <1>4 DEF Has
  <2>2. g \in DOMAIN all /\ all[g] = e
    BY <1>1, <1>2, <1>3, <2>1 DEF all
  <2>3. QED
    BY <2>2 DEF Has, all
<1>5. CASE Has(q, e)
  <2>1. PICK g \in DOMAIN q : q[g] = e
    BY <1>5 DEF Has
  <2>2. Len(p) + g \in DOMAIN all /\ all[Len(p) + g] = e
    BY <1>1, <1>2, <1>3, <2>1 DEF all
  <2>3. QED
    BY <2>2 DEF Has, all
<1>6. QED
  BY <1>4, <1>5

\* What is in a list is in the concatenation of the lists.
LEMMA FlattenHas ==
    ASSUME NEW T, NEW lists \in Seq(Seq(T)), NEW i \in DOMAIN lists, NEW e, Has(lists[i], e)
    PROVE  Has(FlattenSeq(lists), e)
<1> DEFINE n == Len(lists)
           U == Seq(T)
<1>1. DOMAIN lists = 1..n /\ n \in Nat /\ i \in 1..n /\ lists # <<>>
      /\ \A j \in 1..n : lists[j] \in U
  <2>1. lists \in Seq(U)
    OBVIOUS
  <2> HIDE DEF U
  <2>2. QED
    BY <2>1
<1>2. PICK f : /\ \A j \in 1..n : f[j] \in Seq(T)
               /\ f[1] = lists[1]
               /\ \A j \in 2..n : f[j] = f[j - 1] \o lists[j]
               /\ FlattenSeq(lists) = f[n]
  BY <1>1, FlattenFacts
<1> HIDE DEF n
<1>3. \A j \in 1..n : lists[j] \in Seq(T)
  BY <1>1 DEF U
<1> HIDE DEF U
<1>4. ASSUME NEW j \in 2..n, Has(f[j - 1], e) \/ Has(lists[j], e)
      PROVE  Has(f[j], e)
  <2> DEFINE p == f[j - 1]
             q == lists[j]
  <2>1. j - 1 \in 1..n /\ j \in 1..n
    BY <1>1
  <2>2. f[j] = p \o q /\ p \in Seq(T) /\ q \in Seq(T) /\ (Has(p, e) \/ Has(q, e))
    BY <1>2, <1>3, <1>4, <2>1
  <2> HIDE DEF p, q
  <2>3. Has(p \o q, e)
    BY <2>2, ConcatHas
  <2>4. QED
    BY <2>2, <2>3
<1> DEFINE S == {j \in Nat : j >= i /\ Has(f[j], e)}
<1>5. i \in S
  <2>1. CASE i = 1
    BY <1>1, <1>2, <2>1
  <2>2. CASE i # 1
    <3>1. i \in 2..n
      BY <1>1, <2>2
    <3>2. Has(f[i], e)
      BY <1>4, <3>1
    <3>3. i \in Nat /\ i >= i
      BY <1>1
    <3>4. QED
      BY <3>2, <3>3
  <2>3. QED
    BY <2>1, <2>2
<1>6. ASSUME NEW j \in i..(n - 1), j \in S
      PROVE  j + 1 \in S
  <2>1. j + 1 \in 2..n /\ (j + 1) - 1 = j /\ j \in Nat /\ j + 1 >= i
    BY <1>1
  <2>2. Has(f[(j + 1) - 1], e)
    BY <1>6, <2>1
  <2>3. Has(f[j + 1], e)
    BY <1>4, <2>1, <2>2
  <2>4. QED
    BY <2>1, <2>3
<1>7. i \in Int /\ n \in Int /\ i <= n
  BY <1>1
<1> HIDE DEF S
<1>8. i..n \subseteq S
  BY <1>5, <1>6, <1>7, IntervalInduction
<1>9. n \in S
  BY <1>7, <1>8
<1>10. QED
  BY <1>2, <1>9 DEF S

\* A nested DML and its INSERT are found whole.
LEMMA BlockIsWhole ==
    ASSUME NEW statements, WellWritten(statements), NEW s \in DOMAIN statements,
           statements[s].inner # <<>>
    PROVE  DOMAIN Block(statements, s) = 1..Len(statements[s].inner) + 1
<1> DEFINE head == Dml(statements[s].kind, s, None, <<>>)
           inner == statements[s].inner
           n == Len(inner)
           rest == [j \in DOMAIN inner |->
                       Dml(inner[j].kind, s, NameOf(statements, s, j), Channels(inner[j].clause))]
           T == {head} \cup {rest[j] : j \in 1..n}
<1>1. n \in Nat /\ DOMAIN inner = 1..n
  BY StatementFacts
<1>2. Block(statements, s) = <<head>> \o rest
  BY DEF Block
<1>3. rest = [j \in 1..n |-> rest[j]] /\ head \in T /\ \A j \in 1..n : rest[j] \in T
  BY <1>1
<1> HIDE DEF head, rest, n, T
<1>4. DOMAIN (<<head>> \o rest) = 1..n + 1
  <2>1. /\ <<head>> \o rest \in Seq(T) /\ DOMAIN (<<head>> \o rest) = 1..n + 1
        /\ (<<head>> \o rest)[1] = head
        /\ \A j \in 1..n : (<<head>> \o rest)[j + 1] = rest[j]
    BY <1>1, <1>3, HeadAndRest
  <2>2. QED
    BY <2>1
<1>5. QED
  BY <1>2, <1>4 DEF n

LEMMA FoundDmlsAreNamed ==
    ASSUME NEW statements, WellWritten(statements), NEW s \in DOMAIN statements,
           NEW k \in 1..Len(statements[s].inner) + 1, NEW l \in 1..Len(statements[s].inner) + 1,
           FoundDml(statements, s, k).name = FoundDml(statements, s, l).name
    PROVE  k = l
<1>1. \A j \in 1..Len(statements[s].inner) + 1 :
          FullNode(statements, s, j).name = FoundDml(statements, s, j).name
  BY DEF FullNode, FoundDml, Node, Dml
<1>2. QED
  BY <1>1, NodesAreNamed

\* Every DML that the text has OUTPUT for has a state.
LEMMA StateIsComplete ==
    ASSUME NEW statements, WellWritten(statements), NEW s \in DOMAIN statements,
           NEW k \in 1..Len(statements[s].inner) + 1,
           statements[s].inner # <<>> \/ NeedsState(statements[s])
    PROVE  HasPlace(OutputState(statements), s, k)
<1> DEFINE found == NestedPass(statements)
           p == FilledOf(statements, found)
           q == AddedDmls(statements)
           all == OutputState(statements)
           S == AddedOf(statements)
<1>1. all = p \o q
  BY DEF OutputState, StatementPass, FilledOf, AddedDmls, AddedOf
<1>2. FoundTo(statements, found, Len(statements)) /\ FullTo(statements, all)
  BY NestedPassFinds, OutputStateIsFull
<1>3. /\ p \in Seq(DmlRecord) /\ DOMAIN p = DOMAIN found
      /\ \A g \in DOMAIN found :
             p[g] = FullDml(statements, found[g].statement, Ordinal(found, g))
  BY <1>2, FilledFacts
<1>4. q \in Seq(DmlRecord)
  BY AddedFacts
<1>5. /\ \A g \in 1..Len(p) : (p \o q)[g] = p[g]
      /\ \A g \in 1..Len(q) : (p \o q)[Len(p) + g] = q[g]
  <2> HIDE DEF p, q
  <2>1. QED
    BY ONLY <1>3, <1>4, ConcatParts
<1>6. DOMAIN all = 1..Len(p) + Len(q) /\ Len(p) \in Nat /\ Len(q) \in Nat
      /\ DOMAIN p = 1..Len(p) /\ DOMAIN q = 1..Len(q)
  <2> HIDE DEF p, q, all
  <2>1. p \o q \in Seq(DmlRecord) /\ Len(p \o q) = Len(p) + Len(q)
    BY <1>3, <1>4, ConcatFacts
  <2>2. QED
    BY <1>1, <1>3, <1>4, <2>1
<1>7. CASE statements[s].inner # <<>>
  <2> DEFINE blocks == [r \in DOMAIN statements |-> Block(statements, r)]
             e == FoundDml(statements, s, k)
  <2>1. found = FlattenSeq(blocks)
    BY DEF NestedPass, Block
  <2>2. blocks \in Seq(Seq(DmlRecord)) /\ s \in DOMAIN blocks /\ blocks[s] = Block(statements, s)
    <3> DEFINE T == Seq(DmlRecord)
               n == Len(statements)
    <3>1. DOMAIN statements = 1..n /\ n \in Nat
      BY DEF WellWritten
    <3>2. \A r \in 1..n : blocks[r] \in T
      BY <3>1, BlockFacts
    <3> HIDE DEF T
    <3>3. blocks \in Seq(T)
      BY <3>1, <3>2
    <3>4. QED
      BY <3>3 DEF T
  <2>3. Has(blocks[s], e)
    <3>1. k \in DOMAIN Block(statements, s)
      BY <1>7, BlockIsWhole
    <3>2. Block(statements, s)[k] = e
      BY <3>1, BlockFacts
    <3> HIDE DEF blocks, e
    <3>3. QED
      BY <2>2, <3>1, <3>2 DEF Has
  <2> HIDE DEF found, blocks, e
  <2>4. Has(found, e)
    BY <2>1, <2>2, <2>3, FlattenHas
  <2>5. PICK g \in DOMAIN found : found[g] = e
    BY <2>4 DEF Has
  <2>6. e.statement = s
    BY FoundDmlFacts DEF e
  <2>7. Ordinal(found, g) \in 1..Len(statements[s].inner) + 1
        /\ found[g] = FoundDml(statements, s, Ordinal(found, g))
    BY <1>2, <2>5, <2>6 DEF FoundTo
  <2>8. Ordinal(found, g) = k
    <3> DEFINE l == Ordinal(found, g)
    <3>1. l \in 1..Len(statements[s].inner) + 1
          /\ FoundDml(statements, s, l).name = FoundDml(statements, s, k).name
      BY <2>5, <2>7 DEF e
    <3> HIDE DEF l
    <3>2. l = k
      BY <3>1, FoundDmlsAreNamed
    <3>3. QED
      BY <3>2 DEF l
  <2>9. p[g] = FullDml(statements, s, k)
    BY <1>3, <2>5, <2>6, <2>8
  <2>10. g \in DOMAIN all /\ all[g] = FullDml(statements, s, k)
    <3> HIDE DEF p, q, all
    <3>1. g \in 1..Len(p)
      BY <1>3, <1>6, <2>5
    <3>2. g \in 1..Len(p) + Len(q)
      BY <1>6, <3>1
    <3>3. QED
      BY <1>1, <1>5, <1>6, <2>9, <3>1, <3>2
  <2>11. all[g].statement = s
    BY <2>10, FoundDmlFacts
  <2> HIDE DEF all
  <2>12. Ordinal(all, g) \in 1..Len(statements[s].inner) + 1
         /\ all[g] = FullDml(statements, s, Ordinal(all, g))
    BY <1>2, <2>10, <2>11 DEF FullTo
  <2>13. Ordinal(all, g) = k
    <3> DEFINE l == Ordinal(all, g)
    <3>1. l \in 1..Len(statements[s].inner) + 1
          /\ FullDml(statements, s, l) = FullDml(statements, s, k)
      BY <2>10, <2>12
    <3> HIDE DEF l
    <3>2. FullDml(statements, s, l).name = FoundDml(statements, s, l).name
          /\ FullDml(statements, s, k).name = FoundDml(statements, s, k).name
      BY DEF FullDml, FoundDml, Dml
    <3>3. l = k
      BY <3>1, <3>2, FoundDmlsAreNamed
    <3>4. QED
      BY <3>3 DEF l
  <2>14. QED
    BY <2>10, <2>11, <2>13 DEF HasPlace, all
<1>8. CASE statements[s].inner = <<>>
  <2>1. s \in S /\ k = 1
    BY <1>8 DEF AddedOf
  <2>2. S \in SUBSET Nat /\ IsFiniteSet(S)
    <3>1. DOMAIN statements = 1..Len(statements) /\ Len(statements) \in Nat
      BY DEF WellWritten
    <3>2. IsFiniteSet(1..Len(statements))
      <4>1. 1 \in Int /\ Len(statements) \in Int
        BY <3>1
      <4>2. QED
        BY <4>1, FS_Interval
    <3>3. S \in SUBSET (1..Len(statements))
      BY <3>1 DEF AddedOf
    <3> HIDE DEF S
    <3>4. IsFiniteSet(S)
      BY <3>2, <3>3, FS_Subset
    <3>5. QED
      BY <3>1, <3>3, <3>4
  <2> DEFINE n == Cardinality(UpTo(S, s))
  <2>3. Nth(S, n) = s /\ n \in 1..Cardinality(S)
    <3> HIDE DEF S
    <3>1. QED
      BY <2>1, <2>2, NthOf
  <2>4. n \in DOMAIN q /\ q[n].statement = s
    BY <2>3 DEF AddedDmls, Dml
  <2> HIDE DEF n, p, q
  <2> DEFINE g == Len(p) + n
  <2>5. g \in DOMAIN all /\ all[g] = q[n]
    <3> HIDE DEF all
    <3>1. n \in 1..Len(q)
      BY <1>6, <2>4
    <3>2. g \in 1..Len(p) + Len(q)
      BY <1>6, <3>1
    <3>3. QED
      BY <1>1, <1>5, <1>6, <3>1, <3>2
  <2> HIDE DEF g, all
  <2>6. Ordinal(all, g) \in 1..Len(statements[s].inner) + 1
    BY <1>2, <2>4, <2>5 DEF FullTo
  <2>7. Ordinal(all, g) = k
    <3>1. Len(statements[s].inner) = 0
      BY <1>8
    <3>2. QED
      BY <2>1, <2>6, <3>1
  <2>8. QED
    BY <2>4, <2>5, <2>7 DEF HasPlace, all
<1>9. QED
  BY <1>7, <1>8

\* The clause of the k-th DML that a statement is written with.
ClauseAt(statements, s, k) ==
    IF k = 1 THEN statements[s].clause ELSE statements[s].inner[k - 1].clause

\* The SQL that is written after SQL Server text was parsed is that text.
LEMMA SqlServerText ==
    ASSUME NEW statements, WellWritten(statements), NEW s \in DOMAIN statements,
           NEW k \in 1..Len(statements[s].inner) + 1,
           NEW t, t = SqlServerTree(statements), NEW ds, ds = OutputState(statements)
    PROVE  TextOf(t, ds, s, k) = ClauseAt(statements, s, k)
<1> DEFINE clause == ClauseAt(statements, s, k)
<1>1. clause \in Clause /\ IsWritten(clause) /\ Len(clause) <= 2
  <2>1. CASE k = 1
    BY <2>1, StatementFacts DEF ClauseAt
  <2>2. CASE k # 1
    <3>1. k - 1 \in DOMAIN statements[s].inner
      BY <2>2, StatementFacts
    <3>2. QED
      BY <2>2, <3>1, StatementFacts DEF ClauseAt
  <2>3. QED
    BY <2>1, <2>2
<1>2. /\ s \in DOMAIN t /\ k \in DOMAIN t[s]
      /\ t[s][k] = FullNode(statements, s, k)
  BY SqlServerTreeFacts
<1>3. t[s][k].returning = Joined(clause)
  BY <1>2 DEF FullNode, Node, ClauseAt
<1>4. Fits(t, ds)
  BY ParsedFits
<1>5. CASE HasPlace(ds, s, k)
  <2>1. PICK g \in DOMAIN ds : ds[g].statement = s /\ Ordinal(ds, g) = k
    BY <1>5 DEF HasPlace
  <2>2. ds[g] = FullDml(statements, s, k)
    BY <2>1, OutputStateIsFull DEF FullTo
  <2>3. ds[g].channels = Channels(clause)
    BY <2>2 DEF FullDml, FoundDml, Dml, ClauseAt
  <2>4. TextOf(t, ds, s, k) = PublicClause(ds[g].channels, t[s][k].returning)
    BY <1>4, <2>1, TextAtPlace
  <2> HIDE DEF clause
  <2>5. PublicClause(Channels(clause), Joined(clause)) = clause
    BY <1>1, ClauseComesBack
  <2>6. QED
    BY <1>3, <2>3, <2>4, <2>5 DEF clause
<1>6. CASE ~HasPlace(ds, s, k)
  <2>1. statements[s].inner = <<>> /\ ~NeedsState(statements[s])
    BY <1>6, StateIsComplete
  <2>2. k = 1
    <3>1. Len(statements[s].inner) = 0
      BY <2>1
    <3>2. QED
      BY <3>1
  <2>3. clause = <<>>
    BY <2>1, <2>2 DEF NeedsState, ClauseAt
  <2>4. t[s][k].returning = <<>>
    <3>1. Joined(<<>>) = <<>>
      <4>1. [c \in DOMAIN <<>> |-> ParserTargets(<<>>[c].targets)] = <<>>
        OBVIOUS
      <4>2. QED
        BY <4>1 DEF Joined, FlattenSeq
    <3>2. QED
      BY <1>3, <2>3, <3>1
  <2>5. TextOf(t, ds, s, k) = Plain(t[s][k].returning)
    BY <1>2, <1>4, <1>6, TextElsewhere
  <2>6. QED
    BY <2>3, <2>4, <2>5 DEF Plain
<1>7. QED
  BY <1>5, <1>6

LEMMA OneOf ==
    ASSUME NEW T, NEW list \in Seq(T), list # <<>>, Len(list) <= 1
    PROVE  Len(list) = 1 /\ DOMAIN list = {1} /\ list = <<list[1]>> /\ list[1] \in T
<1>1. Len(list) = 1
  <2>1. Len(list) \in Nat
    OBVIOUS
  <2>2. Len(list) # 0
    OBVIOUS
  <2>3. QED
    BY <2>1, <2>2
<1>2. DOMAIN list = {1} /\ list[1] \in T
  BY <1>1
<1>3. list = <<list[1]>>
  BY <1>1, <1>2
<1>4. QED
  BY <1>1, <1>2, <1>3

ClauseRecord == [sink : Sink, columns : Seq(STRING), targets : Seq(Target)]

LEMMA OneClause ==
    ASSUME NEW clause \in Clause, clause # <<>>, Len(clause) <= 1
    PROVE  /\ Len(clause) = 1 /\ DOMAIN clause = {1} /\ clause = <<clause[1]>>
           /\ clause[1] \in ClauseRecord
<1>1. clause \in Seq(ClauseRecord)
  BY DEF Clause, ClauseRecord
<1>2. QED
  BY <1>1, OneOf

\* RETURNING is written as it was parsed.
LEMMA PlainComesBack ==
    ASSUME NEW clause \in Clause, IsWritten(clause), PlainClause(clause)
    PROVE  Plain(PlainTargets(clause)) = clause
<1>1. CASE clause = <<>>
  BY <1>1 DEF PlainTargets, Plain
<1>2. CASE clause # <<>>
  <2>1. Len(clause) = 1 /\ DOMAIN clause = {1} /\ clause = <<clause[1]>>
        /\ clause[1] \in ClauseRecord
    BY <1>2, OneClause DEF PlainClause
  <2>2. clause[1] \in [sink : Sink, columns : Seq(STRING), targets : Seq(Target)]
    BY <2>1 DEF ClauseRecord
  <2>3. clause[1].sink = None /\ clause[1].columns = <<>> /\ clause[1].targets # <<>>
    BY <2>1 DEF PlainClause, IsWritten
  <2>4. clause[1] = PublicChannel(None, <<>>, clause[1].targets)
    BY <2>2, <2>3 DEF PublicChannel
  <2>5. Plain(PlainTargets(clause)) = <<PublicChannel(None, <<>>, clause[1].targets)>>
    BY <1>2, <2>3 DEF PlainTargets, Plain
  <2>6. QED
    BY <2>1, <2>4, <2>5
<1>3. QED
  BY <1>1, <1>2

\* RETURNING ... INTO is written as it was parsed.
LEMMA PairsComeBack ==
    ASSUME NEW clause \in Clause, IsWritten(clause), IntoClause(clause), PairsMatch(clause)
    PROVE  ListClause(Len(PlainTargets(clause)), OracleList(clause)) = clause
<1>1. CASE clause = <<>>
  <2>1. PlainTargets(clause) = <<>> /\ OracleList(clause) = <<>>
    BY <1>1 DEF PlainTargets, OracleList
  <2>2. Len(PlainTargets(clause)) = 0
    BY <2>1
  <2>3. QED
    BY <1>1, <2>1, <2>2 DEF ListClause, Plain
<1>2. CASE clause # <<>>
  <2> DEFINE targets == clause[1].targets
             columns == clause[1].columns
             list == WithReceivers(targets, columns)
             n == Len(targets)
  <2>1. Len(clause) = 1 /\ DOMAIN clause = {1} /\ clause = <<clause[1]>>
        /\ clause[1] \in ClauseRecord
    BY <1>2, OneClause DEF IntoClause
  <2>2. clause[1] \in [sink : Sink, columns : Seq(STRING), targets : Seq(Target)]
    BY <2>1 DEF ClauseRecord
  <2>3. clause[1].sink = Into /\ targets # <<>> /\ Len(columns) = n
    BY <1>2, <2>1 DEF IntoClause, IsWritten, PairsMatch
  <2>4. PlainTargets(clause) = targets /\ OracleList(clause) = list
    BY <1>2 DEF PlainTargets, OracleList
  <2>5. targets \in Seq(Target) /\ columns \in Seq(STRING)
    BY <2>2
  <2>6. clause[1] = PublicChannel(Into, columns, targets)
    BY <2>2, <2>3 DEF PublicChannel
  <2>7. list \in Seq(Target) /\ Len(list) = n + Len(columns)
        /\ \A i \in 1..Len(columns) : list[n + i][1] = columns[i]
    <3> HIDE DEF targets, columns
    <3>1. QED
      BY <2>5, WithReceiversFacts DEF n, list
  <2>8. n \in Nat /\ n > 0 /\ DOMAIN targets = 1..n /\ DOMAIN columns = 1..n
    BY <2>3, <2>5
  <2>9. \A i \in 1..n : list[i] = targets[i]
    <3> HIDE DEF targets, columns
    <3>1. list = targets \o [i \in DOMAIN columns |-> Receiver(columns[i])]
      BY DEF list, WithReceivers
    <3> HIDE DEF list, n
    <3>2. [i \in DOMAIN columns |-> Receiver(columns[i])] \in Seq(Target)
      <4>1. \A i \in 1..n : Receiver(columns[i]) \in Target
        <5>1. ASSUME NEW i \in 1..n
              PROVE  Receiver(columns[i]) \in Target
          <6>1. columns[i] \in STRING
            BY <2>5, <2>8
          <6>2. QED
            BY <6>1 DEF Receiver, Target, Word
        <5>2. QED
          BY <5>1
      <4>2. QED
        BY <2>8, <4>1
    <3>3. QED
      BY <2>5, <2>8, <3>1, <3>2 DEF n
  <2>10. HasReceivers(list, n)
    <3>1. \A i \in 1..n : columns[i] \in STRING
      BY <2>5, <2>8
    <3> HIDE DEF targets, columns, list, n
    <3>2. QED
      BY <2>3, <2>7, <3>1 DEF HasReceivers
  <2> HIDE DEF list
  <2>11. Second(list, n) = columns
    <3> HIDE DEF targets, n
    <3>1. Second(list, n) = [i \in 1..n |-> columns[i]]
      BY <2>3, <2>7 DEF Second
    <3>2. columns = [i \in 1..n |-> columns[i]]
      BY <2>5, <2>8
    <3>3. QED
      BY <3>1, <3>2
  <2>12. Firsts(list, n) = targets
    <3> HIDE DEF columns, n
    <3>1. Firsts(list, n) = [i \in 1..n |-> targets[i]]
      BY <2>9 DEF Firsts
    <3>2. targets = [i \in 1..n |-> targets[i]]
      BY <2>5, <2>8
    <3>3. QED
      BY <3>1, <3>2
  <2> HIDE DEF targets, columns, n
  <2>13. Len(list) = 2 * n
    BY <2>3, <2>7, <2>8
  <2>14. PairedClause(n, list) = <<PublicChannel(Into, columns, targets)>>
    BY <2>7, <2>8, <2>10, <2>11, <2>12, <2>13, PairedClauseFacts
  <2>15. QED
    BY <2>1, <2>4, <2>6, <2>8, <2>14 DEF ListClause, n
<1>3. QED
  BY <1>1, <1>2

\* What a parse must give for the SQL written next to be the text of the
\* document.
WritesBack(statements) ==
    /\ DOMAIN tree' = DOMAIN statements
    /\ \A s \in DOMAIN statements :
           /\ DOMAIN tree'[s] = 1..Len(statements[s].inner) + 1
           /\ \A k \in 1..Len(statements[s].inner) + 1 :
                  ClauseOf(s, k)' = ClauseAt(statements, s, k)

LEMMA TextAt ==
    ASSUME NEW doc \in Documents, NEW s \in DOMAIN doc.statements
    PROVE  <<doc.statements[s].clause>>
               \o [j \in DOMAIN doc.statements[s].inner |-> doc.statements[s].inner[j].clause]
           = [k \in 1..Len(doc.statements[s].inner) + 1 |-> ClauseAt(doc.statements, s, k)]
<1> DEFINE top == doc.statements[s]
           e == top.clause
           n == Len(top.inner)
           rest == [j \in DOMAIN top.inner |-> top.inner[j].clause]
           all == <<e>> \o rest
           text == [k \in 1..n + 1 |-> ClauseAt(doc.statements, s, k)]
<1>1. n \in Nat /\ e \in Clause /\ rest = [j \in 1..n |-> rest[j]]
      /\ \A j \in 1..n : rest[j] \in Clause
  BY DocumentFacts
<1>2. text[1] = e
  BY <1>1 DEF ClauseAt
<1>3. \A j \in 1..n : text[j + 1] = rest[j]
  <2>1. ASSUME NEW j \in 1..n
        PROVE  text[j + 1] = rest[j]
    <3>1. j + 1 \in 1..n + 1 /\ j + 1 # 1 /\ (j + 1) - 1 = j
      BY <1>1
    <3>2. text[j + 1] = top.inner[j].clause
      BY <3>1 DEF ClauseAt
    <3>3. j \in DOMAIN top.inner
      BY DocumentFacts
    <3>4. QED
      BY <3>2, <3>3
  <2>2. QED
    BY <2>1
<1>4. text = [k \in 1..n + 1 |-> text[k]]
  OBVIOUS
<1> HIDE DEF e, n, rest, text
<1>5. /\ all \in Seq(Clause) /\ DOMAIN all = 1..n + 1 /\ all[1] = e
      /\ \A j \in 1..n : all[j + 1] = rest[j]
  BY <1>1, HeadAndRest
<1>6. all = [k \in 1..n + 1 |-> all[k]]
  BY <1>1, <1>5
<1> HIDE DEF all
<1>7. \A k \in 1..n + 1 : all[k] = text[k]
  <2>1. ASSUME NEW k \in 1..n + 1
        PROVE  all[k] = text[k]
    <3>1. CASE k = 1
      BY <1>2, <1>5, <3>1
    <3>2. CASE k # 1
      <4>1. k - 1 \in 1..n /\ (k - 1) + 1 = k
        BY <1>1, <3>2
      <4>2. QED
        BY <1>3, <1>5, <4>1
    <3>3. QED
      BY <3>1, <3>2
  <2>2. QED
    BY <2>1
<1>8. all = text
  BY <1>4, <1>6, <1>7
<1>9. QED
  BY <1>8 DEF all, e, rest, text, n

LEMMA ParsedText ==
    ASSUME NEW doc \in Documents, Live', WritesBack(doc.statements)
    PROVE  Deparsed' = Written!Text(doc)
<1>1. Deparsed' = [s \in DOMAIN tree' |-> [k \in DOMAIN tree'[s] |-> ClauseOf(s, k)']]
  BY DEF Deparsed
<1>2. ASSUME NEW s \in DOMAIN doc.statements
      PROVE  [k \in DOMAIN tree'[s] |-> ClauseOf(s, k)']
                 = <<doc.statements[s].clause>>
                       \o [j \in DOMAIN doc.statements[s].inner |->
                              doc.statements[s].inner[j].clause]
  <2>1. [k \in DOMAIN tree'[s] |-> ClauseOf(s, k)']
            = [k \in 1..Len(doc.statements[s].inner) + 1 |-> ClauseAt(doc.statements, s, k)]
    BY Zenon DEF WritesBack
  <2>2. QED
    BY <2>1, TextAt
<1>3. DOMAIN tree' = DOMAIN doc.statements
  BY DEF WritesBack
<1>4. QED
  BY <1>1, <1>2, <1>3, Zenon DEF Written!Text

\* SQL Server: whatever was found in the text is written back to its place.
LEMMA SqlServerWritesBack ==
    ASSUME NEW doc \in Documents, ParseSqlServer(doc), dialect' = doc.dialect
    PROVE  WritesBack(doc.statements)
<1> DEFINE statements == doc.statements
<1>1. WellWritten(statements)
  BY AcceptedStatements DEF ParseSqlServer
<1>2. /\ dialect' = "sqlserver" /\ tree' = SqlServerTree(statements)
      /\ dmls' = OutputState(statements) /\ pairs' = [s \in DOMAIN statements |-> 0]
  BY DEF ParseSqlServer
<1> HIDE DEF statements
<1>3. /\ DOMAIN tree' = DOMAIN statements
      /\ \A s \in DOMAIN statements : DOMAIN tree'[s] = 1..Len(statements[s].inner) + 1
  BY <1>1, <1>2, SqlServerTreeFacts
<1>4. ASSUME NEW s \in DOMAIN statements, NEW k \in 1..Len(statements[s].inner) + 1
      PROVE  ClauseOf(s, k)' = ClauseAt(statements, s, k)
  <2>1. pairs'[s] = 0
    BY <1>2
  <2>2. ClauseOf(s, k)' = TextOf(tree', dmls', s, k)
    BY <1>2, <2>1, NextClauseIsText
  <2>3. TextOf(tree', dmls', s, k) = ClauseAt(statements, s, k)
    BY <1>1, <1>2, SqlServerText
  <2>4. QED
    BY <2>2, <2>3
<1>5. QED
  BY <1>3, <1>4 DEF WritesBack, statements

LEMMA OracleWritesBack ==
    ASSUME NEW doc \in Documents, ParseOracle(doc), dialect' = doc.dialect
    PROVE  WritesBack(doc.statements)
<1> DEFINE statements == doc.statements
<1>1. /\ dialect' = "oracle" /\ doc.dialect = "oracle" /\ tree' = OracleTree(statements)
      /\ \A s \in DOMAIN statements : PairsMatch(statements[s].clause)
      /\ pairs' = [s \in DOMAIN statements |-> Len(PlainTargets(statements[s].clause))]
  BY DEF ParseOracle
<1>2. ASSUME NEW s \in DOMAIN statements
      PROVE  /\ statements[s].clause \in Clause /\ IsWritten(statements[s].clause)
             /\ IntoClause(statements[s].clause) /\ Len(statements[s].inner) = 0
  <2>1. IntoClause(statements[s].clause) /\ statements[s].inner = <<>>
    BY <1>1, DocumentsAssumption DEF SqlOf
  <2>2. QED
    BY <2>1, DocumentFacts
<1> HIDE DEF statements
<1>3. DOMAIN tree' = DOMAIN statements
  BY <1>1 DEF OracleTree
<1>4. ASSUME NEW s \in DOMAIN statements
      PROVE  /\ DOMAIN tree'[s] = 1..Len(statements[s].inner) + 1
             /\ \A k \in 1..Len(statements[s].inner) + 1 :
                    ClauseOf(s, k)' = ClauseAt(statements, s, k)
  <2> DEFINE clause == statements[s].clause
             e == Node(statements[s].kind, None, OracleList(clause))
  <2>1. tree'[s] = <<e>>
    BY <1>1 DEF OracleTree
  <2>2. e.returning = OracleList(clause)
    BY DEF Node
  <2> HIDE DEF e
  <2>3. DOMAIN tree'[s] = {1} /\ tree'[s][1] = e
    BY <2>1, SingleNode
  <2>4. 1..Len(statements[s].inner) + 1 = {1}
    BY <1>2
  <2>5. ClauseOf(s, 1)' = ListClause(pairs'[s], tree'[s][1].returning)
    <3>1. dialect' # "sqlserver"
      BY <1>1
    <3>2. QED
      BY <3>1, NextClauseIsList
  <2>6. pairs'[s] = Len(PlainTargets(clause))
    BY <1>1
  <2>7. ClauseOf(s, 1)' = clause
    <3>1. clause \in Clause /\ IsWritten(clause) /\ IntoClause(clause) /\ PairsMatch(clause)
      BY <1>1, <1>2
    <3> HIDE DEF clause
    <3>2. ListClause(Len(PlainTargets(clause)), OracleList(clause)) = clause
      BY <3>1, PairsComeBack
    <3>3. QED
      BY <2>2, <2>3, <2>5, <2>6, <3>2
  <2>8. ClauseAt(statements, s, 1) = clause
    BY DEF ClauseAt
  <2>9. QED
    BY <2>3, <2>4, <2>7, <2>8
<1>5. QED
  BY <1>3, <1>4 DEF WritesBack, statements

LEMMA PostgresWritesBack ==
    ASSUME NEW doc \in Documents, ParsePostgres(doc), dialect' = doc.dialect
    PROVE  WritesBack(doc.statements)
<1> DEFINE statements == doc.statements
<1>1. /\ dialect' = "postgresql" /\ doc.dialect = "postgresql"
      /\ tree' = PostgresTree(statements)
      /\ pairs' = [s \in DOMAIN statements |-> 0]
  BY DEF ParsePostgres
<1>2. ASSUME NEW s \in DOMAIN statements, NEW k \in 1..Len(statements[s].inner) + 1
      PROVE  /\ ClauseAt(statements, s, k) \in Clause /\ IsWritten(ClauseAt(statements, s, k))
             /\ PlainClause(ClauseAt(statements, s, k))
  <2>1. /\ PlainClause(statements[s].clause)
        /\ \A j \in DOMAIN statements[s].inner : PlainClause(statements[s].inner[j].clause)
    BY <1>1, DocumentsAssumption DEF SqlOf
  <2>2. CASE k = 1
    BY <2>1, <2>2, DocumentFacts DEF ClauseAt
  <2>3. CASE k # 1
    <3>1. k - 1 \in DOMAIN statements[s].inner
      BY <2>3, DocumentFacts
    <3>2. QED
      BY <2>1, <2>3, <3>1, DocumentFacts DEF ClauseAt
  <2>4. QED
    BY <2>2, <2>3
<1>3. ASSUME NEW s \in DOMAIN statements
      PROVE  Len(statements[s].inner) \in Nat
             /\ DOMAIN statements[s].inner = 1..Len(statements[s].inner)
  BY DocumentFacts
<1> HIDE DEF statements
<1>4. DOMAIN tree' = DOMAIN statements
  BY <1>1 DEF PostgresTree
<1>5. ASSUME NEW s \in DOMAIN statements
      PROVE  /\ DOMAIN tree'[s] = 1..Len(statements[s].inner) + 1
             /\ \A k \in 1..Len(statements[s].inner) + 1 :
                    tree'[s][k].returning = PlainTargets(ClauseAt(statements, s, k))
  <2> DEFINE n == Len(statements[s].inner)
             e == Node(statements[s].kind, None, PlainTargets(statements[s].clause))
             rest == [j \in DOMAIN statements[s].inner |->
                         Node(statements[s].inner[j].kind, None,
                              PlainTargets(statements[s].inner[j].clause))]
             all == <<e>> \o rest
             T == {e} \cup {rest[j] : j \in 1..n}
  <2>1. tree'[s] = all
    BY <1>1 DEF PostgresTree
  <2>2. e \in T /\ n \in Nat /\ rest = [j \in 1..n |-> rest[j]] /\ \A j \in 1..n : rest[j] \in T
    BY <1>3
  <2>3. e.returning = PlainTargets(statements[s].clause)
        /\ \A j \in 1..n : rest[j].returning = PlainTargets(statements[s].inner[j].clause)
    BY <1>3 DEF Node
  <2> HIDE DEF e, rest, T, n
  <2>4. /\ all \in Seq(T) /\ DOMAIN all = 1..n + 1 /\ all[1] = e
        /\ \A j \in 1..n : all[j + 1] = rest[j]
    BY <2>2, HeadAndRest
  <2> HIDE DEF all
  <2>5. ASSUME NEW k \in 1..n + 1
        PROVE  all[k].returning = PlainTargets(ClauseAt(statements, s, k))
    <3>1. CASE k = 1
      BY <2>3, <2>4, <3>1 DEF ClauseAt
    <3>2. CASE k # 1
      <4>1. k - 1 \in 1..n /\ (k - 1) + 1 = k
        BY <2>2, <3>2
      <4>2. all[k] = rest[k - 1]
        BY <2>4, <4>1
      <4>3. rest[k - 1].returning = PlainTargets(statements[s].inner[k - 1].clause)
        BY <2>3, <4>1
      <4>4. QED
        BY <3>2, <4>2, <4>3 DEF ClauseAt
    <3>3. QED
      BY <3>1, <3>2
  <2>6. QED
    BY <2>1, <2>4, <2>5 DEF n
<1>6. ASSUME NEW s \in DOMAIN statements, NEW k \in 1..Len(statements[s].inner) + 1
      PROVE  ClauseOf(s, k)' = ClauseAt(statements, s, k)
  <2> DEFINE clause == ClauseAt(statements, s, k)
  <2>1. ClauseOf(s, k)' = ListClause(pairs'[s], tree'[s][k].returning)
    <3>1. dialect' # "sqlserver"
      BY <1>1
    <3>2. QED
      BY <3>1, NextClauseIsList
  <2>2. pairs'[s] = 0
    BY <1>1
  <2>3. ClauseOf(s, k)' = Plain(PlainTargets(clause))
    BY <1>5, <2>1, <2>2 DEF ListClause
  <2>4. clause \in Clause /\ IsWritten(clause) /\ PlainClause(clause)
    BY <1>2
  <2> HIDE DEF clause
  <2>5. Plain(PlainTargets(clause)) = clause
    BY <2>4, PlainComesBack
  <2>6. QED
    BY <2>3, <2>5 DEF clause
<1>7. QED
  BY <1>4, <1>5, <1>6 DEF WritesBack, statements

LEMMA ParseWrites ==
    ASSUME Parse
    PROVE  Written!Parse
<1>1. PICK doc \in Documents :
          /\ dialect' = doc.dialect
          /\ ParseSqlServer(doc) \/ ParseOracle(doc) \/ ParsePostgres(doc)
  BY DEF Parse
<1>2. WritesBack(doc.statements)
  BY <1>1, SqlServerWritesBack, OracleWritesBack, PostgresWritesBack
<1>3. Live'
  <2>1. dialect' \in Dialects
    BY <1>1 DEF ParseSqlServer, ParseOracle, ParsePostgres, Dialects
  <2>2. QED
    BY <2>1, NoneAssumption DEF Live
<1>4. Deparsed' = Written!Text(doc)
  BY <1>2, <1>3, ParsedText
<1>5. Deparsed = None
  BY DEF Parse, Deparsed
<1>6. QED
  BY <1>4, <1>5 DEF Written!Parse

LEMMA DestroyLoses ==
    ASSUME DmlInvariant, Destroy
    PROVE  Written!Lose
<1>1. Live /\ dialect' = None
  BY DEF Destroy
<1>2. Deparsed # None
  BY <1>1, DeparsedTyped
<1>3. Deparsed' = None
  <2>1. ~Live'
    BY <1>1 DEF Live
  <2>2. QED
    BY <2>1 DEF Deparsed
<1>4. QED
  BY <1>2, <1>3 DEF Written!Lose

LEMMA SameVarsSameText ==
    ASSUME UNCHANGED vars
    PROVE  Deparsed' = Deparsed
<1>1. dialect' = dialect /\ tree' = tree /\ dmls' = dmls /\ pairs' = pairs
  BY DEF vars
<1>2. QED
  BY <1>1 DEF Deparsed, Live, ClauseOf, StateOf

LEMMA CloneKeepsText ==
    ASSUME DmlInvariant, Clone
    PROVE  Deparsed' = Deparsed
<1>1. dmls' = dmls /\ UNCHANGED <<dialect, tree, pairs>>
  BY ClonedState DEF Clone
<1>2. QED
  BY <1>1, SameVarsSameText DEF vars

LEMMA StepWrites ==
    ASSUME DmlInvariant, DmlInvariant', [Next]_vars
    PROVE  [Written!Next]_Deparsed
<1>1. CASE Parse
  BY <1>1, ParseWrites DEF Written!Next
<1>2. CASE Live /\ Patch
  BY <1>2, PatchWrites DEF Written!Next
<1>3. CASE Clone
  BY <1>3, CloneKeepsText
<1>4. CASE Destroy
  BY <1>4, DestroyLoses DEF Written!Next
<1>5. CASE UNCHANGED vars
  BY <1>5, SameVarsSameText
<1>6. QED
  BY <1>1, <1>2, <1>3, <1>4, <1>5 DEF Next

LEMMA InitWrites == Init => Written!Init
  BY DEF Init, Written!Init, Deparsed, Live

\* The SQL written for a handle (sqlparser_sqlserver_output_postprocess and the
\* deparse of RETURNING) has the channels of the text that was parsed, and a
\* patch of a target, of a pair or of a sink changes the one channel it names
\* and nothing else; cloning the handle changes nothing.
THEOREM OutputIsWrittenBack == Spec => ImplementsOutputChannels
<1>1. Init => Written!Init
  BY InitWrites
<1>2. DmlInvariant /\ DmlInvariant' /\ [Next]_vars => [Written!Next]_Deparsed
  BY StepWrites
<1>3. Spec => []DmlInvariant
  BY FitIsInvariant
<1>4. Spec => Written!Spec
  BY <1>1, <1>2, <1>3, PTL DEF Spec, Written!Spec
<1>5. QED
  BY <1>4 DEF ImplementsOutputChannels
=============================================================================
