------------------------- MODULE SurfaceEditsProofs -------------------------
(***************************************************************************)
(* Proofs about the source-edit lists of SurfaceEdits: that they stay free *)
(* of conflicts, that searches and refusals are right, and what is computed*)
(* from them edit by edit: the length of the SQL to come, the running      *)
(* length of a batch, and the SQL that is rendered.                        *)
(***************************************************************************)
EXTENDS SurfaceEdits, RecursionFacts

-----------------------------------------------------------------------------
(* One insertion into a conflict-free list.                                *)

\* The insertion point splits the list by the start of the range, whichever
\* of the two searches of source_edits_insert_internal found it.
LEMMA InsertIndexSplits ==
  ASSUME NEW items \in Seq(Edit), ConflictFree(items), NEW r \in Ranges,
         NEW i \in 1..(Len(items) + 1), IsInsertIndex(items, r, i)
  PROVE  /\ \A j \in 1..(i - 1) : items[j].start < r.start
         /\ \A j \in i..Len(items) : r.start <= items[j].start
<1>1. \A j \in 1..Len(items) : items[j].start \in Int
  BY DEF Edit, Positions
<1>2. r.start \in Int /\ Len(items) \in Nat
  BY DEF Ranges, Positions
<1>3. \A j, k \in 1..Len(items) : j < k => items[j].start < items[k].start
  BY DEF ConflictFree
<1>4. CASE items # <<>> /\ items[Len(items)].start < r.start
  <2>1. i = Len(items) + 1
    BY <1>4 DEF IsInsertIndex
  <2>2. Len(items) \in 1..Len(items)
    BY <1>4
  <2>3. QED
    BY <2>1, <2>2, <1>1, <1>2, <1>3, <1>4
<1>5. CASE ~(items # <<>> /\ items[Len(items)].start < r.start)
  <2>1. /\ \A j \in 1..(i - 1) : items[j].start < r.start
        /\ i <= Len(items) => items[i].start >= r.start
    BY <1>5 DEF IsInsertIndex
  <2>2. QED
    BY <2>1, <1>1, <1>2, <1>3
<1>6. QED
  BY <1>4, <1>5

\* Looking at the two neighbours is enough: an accepted range conflicts with
\* no edit of the list.
LEMMA NeighbourCheckSuffices ==
  ASSUME NEW items \in Seq(Edit), ConflictFree(items), NEW r \in Ranges,
         NEW i \in 1..(Len(items) + 1), Accepts(items, i, r)
  PROVE  Available(items, r)
<1>1. /\ \A j \in 1..(i - 1) : items[j].start < r.start
      /\ \A j \in i..Len(items) : r.start <= items[j].start
  BY InsertIndexSplits DEF Accepts
<1>2. /\ i > 1 => ~Overlap(items[i - 1], r)
      /\ i <= Len(items) => ~Overlap(items[i], r)
  BY DEF Accepts, NeighbourConflict
<1>3. \A j \in 1..Len(items) :
        items[j].start \in Int /\ items[j].end \in Int /\ items[j].start <= items[j].end
  BY DEF Edit, Positions
<1>4. r.start \in Int /\ r.end \in Int /\ r.start <= r.end /\ Len(items) \in Nat
  BY DEF Ranges, Positions
<1>5. \A j, k \in 1..Len(items) : j < k =>
        items[j].start < items[k].start /\ ~Overlap(items[j], items[k])
  BY DEF ConflictFree
<1>6. SUFFICES ASSUME NEW j \in 1..Len(items) PROVE ~Overlap(items[j], r)
  BY DEF Available
<1>7. CASE j < i - 1
  <2>1. i - 1 \in 1..Len(items) /\ items[i - 1].start < r.start
    BY <1>1, <1>7
  <2>2. ~Overlap(items[j], items[i - 1]) /\ items[j].start < items[i - 1].start
    BY <1>5, <1>7, <2>1
  <2>3. items[j].end <= items[i - 1].start
    BY <1>3, <2>1, <2>2 DEF Overlap
  <2>4. items[j].start < r.start /\ items[j].end < r.start
    BY <1>3, <1>4, <2>1, <2>2, <2>3
  <2>5. QED
    BY <1>3, <1>4, <2>4 DEF Overlap
<1>8. CASE j > i
  <2>1. i \in 1..Len(items) /\ r.start <= items[i].start /\ ~Overlap(items[i], r)
    BY <1>1, <1>2, <1>8
  <2>2. ~Overlap(items[i], items[j]) /\ items[i].start < items[j].start
    BY <1>5, <1>8, <2>1
  <2>3. r.end <= items[i].start
    BY <1>3, <1>4, <2>1 DEF Overlap
  <2>4. r.start < items[j].start /\ r.end < items[j].start
    BY <1>3, <1>4, <2>1, <2>2, <2>3
  <2>5. QED
    BY <1>3, <1>4, <2>4 DEF Overlap
<1>9. CASE j = i - 1 \/ j = i
  BY <1>2, <1>9
<1>10. QED
  BY <1>7, <1>8, <1>9

\* An insertion keeps the list in source order and free of conflicts.
LEMMA InsertionKeepsConflictFree ==
  ASSUME NEW items \in Seq(Edit), ConflictFree(items), NEW r \in Ranges,
         NEW b \in Buffers,
         NEW i \in 1..(Len(items) + 1), Accepts(items, i, r)
  PROVE  ConflictFree(InsertAt(items, i, EditOf(r, b)))
<1> DEFINE new == InsertAt(items, i, EditOf(r, b))
<1>1. EditOf(r, b) \in Edit /\ EditOf(r, b).start = r.start /\ EditOf(r, b).end = r.end
  BY DEF EditOf, Edit, Ranges
<1>2. /\ DOMAIN new = 1..(Len(items) + 1)
      /\ \A j \in 1..(Len(items) + 1) : new[j] =
           IF j < i THEN items[j] ELSE IF j = i THEN EditOf(r, b) ELSE items[j - 1]
  <2> DEFINE e == EditOf(r, b)
  <2>1. items \in Seq(Edit) /\ i \in 1..(Len(items) + 1) /\ e \in Edit
    BY <1>1
  <2> HIDE DEF e
  <2>2. /\ DOMAIN InsertAt(items, i, e) = 1..(Len(items) + 1)
        /\ \A j \in 1..(Len(items) + 1) : InsertAt(items, i, e)[j] =
             IF j < i THEN items[j] ELSE IF j = i THEN e ELSE items[j - 1]
    BY <2>1, InsertAtFacts
  <2>3. QED
    BY <2>2 DEF e
<1>3. /\ \A j \in 1..(i - 1) : items[j].start < r.start
      /\ \A j \in i..Len(items) : r.start <= items[j].start
  BY InsertIndexSplits DEF Accepts
<1>4. \A j \in 1..Len(items) : ~Overlap(items[j], r)
  BY NeighbourCheckSuffices DEF Available
<1>5. \A j \in 1..Len(items) :
        items[j].start \in Int /\ items[j].end \in Int /\ items[j].start <= items[j].end
  BY DEF Edit, Positions
<1>6. r.start \in Int /\ r.end \in Int /\ r.start <= r.end /\ Len(items) \in Nat
  BY DEF Ranges, Positions
<1>7. \A j \in i..Len(items) : r.start < items[j].start /\ ~Overlap(r, items[j])
  <2>1. TAKE j \in i..Len(items)
  <2>2. j \in 1..Len(items) /\ r.start <= items[j].start
    BY <1>3
  <2>3. /\ ~Overlap(items[j], r)
        /\ items[j].start \in Int /\ items[j].end \in Int /\ items[j].start <= items[j].end
    BY <1>4, <1>5, <2>2
  <2>4. QED
    BY ONLY <1>6, <2>2, <2>3 DEF Overlap
<1>8. \A j, k \in 1..Len(items) : j < k =>
        items[j].start < items[k].start /\ ~Overlap(items[j], items[k])
  BY DEF ConflictFree
<1> HIDE DEF new
<1>9. SUFFICES ASSUME NEW j \in 1..(Len(items) + 1), NEW k \in 1..(Len(items) + 1), j < k
               PROVE  new[j].start < new[k].start /\ ~Overlap(new[j], new[k])
  BY <1>2 DEF ConflictFree, new
<1>10. CASE k < i
  BY <1>2, <1>8, <1>9, <1>10
<1>11. CASE k = i
  <2>1. new[k] = EditOf(r, b) /\ new[j] = items[j] /\ j \in 1..(i - 1) /\ j \in 1..Len(items)
    BY <1>2, <1>9, <1>11
  <2>2. QED
    BY <2>1, <1>1, <1>3, <1>4, <1>5 DEF Overlap
<1>12. CASE k > i
  <2>1. new[k] = items[k - 1] /\ k - 1 \in i..Len(items) /\ k - 1 \in 1..Len(items)
    BY <1>2, <1>12
  <2>2. CASE j < i
    BY <1>2, <1>8, <2>1, <2>2
  <2>3. CASE j = i
    <3>1. new[j] = EditOf(r, b)
      BY <1>2, <2>3
    <3>2. QED
      BY <1>1, <1>7, <2>1, <3>1 DEF Overlap
  <2>4. CASE j > i
    BY <1>2, <1>8, <1>9, <2>1, <2>4
  <2>5. QED
    BY <2>2, <2>3, <2>4
<1>13. QED
  BY <1>10, <1>11, <1>12

-----------------------------------------------------------------------------
(* One insertion into the list of a handle.                                *)

Lists == [Handles -> [items : Seq(Edit), capacity : Nat]]
DistinctTexts ==
  \A g, h \in Handles : \A i \in DOMAIN Items(g), j \in DOMAIN Items(h) :
    Items(g)[i].text = Items(h)[j].text => g = h /\ i = j

\* An edit put at the place the neighbour check has found keeps the lists sound.
LEMMA PlaceFacts ==
  ASSUME TypeOK, NoTwoEditsConflict, DistinctTexts,
         NEW h \in Handles, NEW r \in Ranges, NEW b \in Buffers, Place(h, r, b),
         \A g \in Handles : b \notin TextsOf(Items(g))
  PROVE  /\ list' \in Lists
         /\ \A g \in Handles : Len(Items(g)') <= list'[g].capacity
         /\ NoTwoEditsConflict'
         /\ DistinctTexts'
         /\ \A g \in Handles : g # h => Items(g)' = Items(g)
         /\ TextsOf(Items(h)') = TextsOf(Items(h)) \cup {b}
         /\ \A q \in Ranges : Available(Items(h), q) /\ ~Overlap(r, q) => Available(Items(h)', q)
<1>1. PICK i \in 1..(Len(Items(h)) + 1) :
        /\ Accepts(Items(h), i, r)
        /\ list' = [list EXCEPT ![h] =
                      [items |-> InsertAt(@.items, i, EditOf(r, b)), capacity |-> Grown(@)]]
  BY DEF Place
<1> DEFINE old == Items(h)
           e == EditOf(r, b)
           new == InsertAt(old, i, e)
<1>2. old \in Seq(Edit) /\ ConflictFree(old) /\ Len(old) <= list[h].capacity
      /\ list[h].capacity \in Nat
  BY DEF TypeOK, Items, NoTwoEditsConflict
<1>3. EditOf(r, b) \in Edit /\ EditOf(r, b).text = b
      /\ EditOf(r, b).start = r.start /\ EditOf(r, b).end = r.end
  BY DEF EditOf, Edit, Ranges
<1>4. i \in 1..(Len(old) + 1)
  OBVIOUS
<1> HIDE DEF old
<1>5. /\ new \in Seq(Edit) /\ Len(new) = Len(old) + 1
      /\ DOMAIN new = 1..(Len(old) + 1)
      /\ \A j \in 1..(Len(old) + 1) : new[j] =
           IF j < i THEN old[j] ELSE IF j = i THEN EditOf(r, b) ELSE old[j - 1]
  <2>1. old \in Seq(Edit) /\ e \in Edit /\ i \in 1..(Len(old) + 1)
    BY <1>4, <1>2, <1>3
  <2> HIDE DEF e
  <2>2. /\ new \in Seq(Edit) /\ Len(new) = Len(old) + 1
        /\ DOMAIN new = 1..(Len(old) + 1)
        /\ \A j \in 1..(Len(old) + 1) :
             new[j] = IF j < i THEN old[j] ELSE IF j = i THEN e ELSE old[j - 1]
    BY <2>1, InsertAtFacts
  <2> HIDE DEF new
  <2>3. e = EditOf(r, b)
    BY DEF e
  <2>4. QED
    BY <2>2, <2>3
<1>6. ConflictFree(new)
  <2>1. Accepts(old, i, r)
    BY <1>1 DEF old
  <2>2. QED
    BY <1>4, <1>2, <2>1, InsertionKeepsConflictFree
<1>7. /\ Items(h)' = new /\ list'[h].capacity = Grown(list[h])
      /\ list'[h] = [items |-> new, capacity |-> Grown(list[h])]
      /\ \A g \in Handles : g # h => list'[g] = list[g] /\ Items(g)' = Items(g)
  BY <1>1 DEF TypeOK, Items, old
<1>8. Grown(list[h]) \in Nat /\ Len(new) <= Grown(list[h])
  BY <1>2, <1>5, CapacityAssumption DEF Grown, Items, old
<1> HIDE DEF new
<1>9. list' \in Lists
  BY <1>1, <1>5, <1>7, <1>8 DEF Lists, TypeOK
<1>10. \A g \in Handles : Len(Items(g)') <= list'[g].capacity
  BY <1>7, <1>8 DEF TypeOK
<1>11. NoTwoEditsConflict'
  BY <1>6, <1>7 DEF NoTwoEditsConflict
<1>12. Len(old) \in Nat /\ DOMAIN old = 1..Len(old)
  BY <1>2
<1>13. \A j \in DOMAIN new :
         \/ j < i /\ j \in DOMAIN old /\ new[j] = old[j]
         \/ j = i /\ new[j] = EditOf(r, b)
         \/ j > i /\ j - 1 \in DOMAIN old /\ new[j] = old[j - 1]
  BY <1>4, <1>5, <1>12
<1>14. \A j \in DOMAIN new : new[j].text # b => \E k \in DOMAIN old : new[j] = old[k]
  BY <1>3, <1>13
<1>15. new[i].text = b /\ i \in DOMAIN new
  BY <1>4, <1>3, <1>5
<1>16. \A k \in DOMAIN old : \E j \in DOMAIN new : new[j] = old[k]
  <2>1. TAKE k \in DOMAIN old
  <2>2. CASE k < i
    <3>1. k \in DOMAIN new /\ new[k] = old[k]
      BY <2>2, <1>5, <1>12
    <3>2. QED
      BY <3>1
  <2>3. CASE k >= i
    <3>1. k + 1 \in DOMAIN new /\ new[k + 1] = old[k]
      BY <2>3, <1>5, <1>12
    <3>2. QED
      BY <3>1
  <2>4. QED
    BY <2>2, <2>3, <1>12
<1>17. TextsOf(new) = TextsOf(old) \cup {b}
  BY <1>14, <1>15, <1>16 DEF TextsOf
<1>18. \A j, k \in DOMAIN new : new[j].text = new[k].text => j = k
  <2>1. \A j, k \in DOMAIN old : old[j].text = old[k].text => j = k
    BY DEF DistinctTexts, old
  <2>2. \A k \in DOMAIN old : old[k].text # b
    BY DEF TextsOf, old
  <2>3. SUFFICES ASSUME NEW j \in DOMAIN new, NEW k \in DOMAIN new, new[j].text = new[k].text
                 PROVE  j = k
    OBVIOUS
  <2>4. j \in 1..(Len(old) + 1) /\ k \in 1..(Len(old) + 1) /\ i \in 1..(Len(old) + 1)
    BY <1>4, <1>5
  <2>5. \A m \in DOMAIN new : m # i => new[m].text # b
    BY <1>13, <2>2
  <2>6. CASE j = i \/ k = i
    BY <1>15, <2>3, <2>4, <2>5, <2>6
  <2>7. CASE j # i /\ k # i
    <3> DEFINE a == IF j < i THEN j ELSE j - 1
               c == IF k < i THEN k ELSE k - 1
    <3>1. a \in DOMAIN old /\ new[j] = old[a] /\ c \in DOMAIN old /\ new[k] = old[c]
      BY <1>13, <2>4, <2>7
    <3>2. a = c
      BY <2>1, <2>3, <3>1
    <3>3. QED
      BY <2>4, <2>7, <3>2
  <2>8. QED
    BY <2>6, <2>7
<1>19. DistinctTexts'
  <2>1. \A g \in Handles : g # h => \A j \in DOMAIN new, k \in DOMAIN Items(g) :
          new[j].text # Items(g)[k].text
    <3>1. SUFFICES ASSUME NEW g \in Handles, g # h,
                          NEW j \in DOMAIN new, NEW k \in DOMAIN Items(g)
                   PROVE  new[j].text # Items(g)[k].text
      OBVIOUS
    <3>2. CASE new[j].text = b
      BY <3>2 DEF TextsOf
    <3>3. CASE new[j].text # b
      BY <3>1, <3>3, <1>14 DEF DistinctTexts, old
    <3>4. QED
      BY <3>2, <3>3
  <2>2. SUFFICES ASSUME NEW g1 \in Handles, NEW g2 \in Handles,
                        NEW j \in DOMAIN (Items(g1)'), NEW k \in DOMAIN (Items(g2)'),
                        Items(g1)'[j].text = Items(g2)'[k].text
                 PROVE  g1 = g2 /\ j = k
    BY DEF DistinctTexts
  <2>3. CASE g1 = h /\ g2 = h
    BY <2>2, <2>3, <1>7, <1>18
  <2>4. CASE g1 = h /\ g2 # h
    BY <2>1, <2>2, <2>4, <1>7
  <2>5. CASE g1 # h /\ g2 = h
    BY <2>1, <2>2, <2>5, <1>7
  <2>6. CASE g1 # h /\ g2 # h
    BY <2>2, <2>6, <1>7 DEF DistinctTexts
  <2>7. QED
    BY <2>3, <2>4, <2>5, <2>6
<1>20. ASSUME NEW q \in Ranges, Available(Items(h), q), ~Overlap(r, q)
       PROVE  Available(Items(h)', q)
  <2>1. \A j \in DOMAIN old : ~Overlap(old[j], q)
    BY <1>20 DEF Available, old
  <2>2. ~Overlap(EditOf(r, b), q)
    BY <1>3, <1>20 DEF Overlap
  <2>3. \A j \in DOMAIN new : ~Overlap(new[j], q)
    BY <1>13, <2>1, <2>2
  <2>4. QED
    BY <1>7, <2>3 DEF Available
<1>21. QED
  BY <1>7, <1>9, <1>10, <1>11, <1>17, <1>19, <1>20 DEF old

\* A stored replacement: its buffer is the list's, and only the list's.
LEMMA StoreFacts ==
  ASSUME TypeOK, NoTwoEditsConflict, EveryBufferHasOneOwner,
         NEW h \in Handles, NEW r \in Ranges, NEW t \in Texts, NEW b \in Buffers,
         Supply(t, b), Place(h, r, b), heap' = HeapWith(b, t)
  PROVE  /\ list' \in Lists
         /\ \A g \in Handles : Len(Items(g)') <= list'[g].capacity
         /\ NoTwoEditsConflict'
         /\ EveryBufferHasOneOwner'
         /\ DOMAIN heap' \subseteq Buffers /\ \A c \in DOMAIN heap' : heap'[c] \in Texts
         /\ owned' \in DOMAIN heap' \cup {NULL}
         /\ \A q \in Ranges : Available(Items(h), q) /\ ~Overlap(r, q) => Available(Items(h)', q)
<1>1. DistinctTexts
  BY DEF EveryBufferHasOneOwner, DistinctTexts
<1>2. b \notin AllTexts
  BY DEF Supply, Fresh, EveryBufferHasOneOwner, AllTexts
<1>3. \A g \in Handles : b \notin TextsOf(Items(g))
  BY <1>2 DEF AllTexts
<1>4. /\ list' \in Lists
      /\ \A g \in Handles : Len(Items(g)') <= list'[g].capacity
      /\ NoTwoEditsConflict'
      /\ DistinctTexts'
      /\ \A g \in Handles : g # h => Items(g)' = Items(g)
      /\ TextsOf(Items(h)') = TextsOf(Items(h)) \cup {b}
      /\ \A q \in Ranges : Available(Items(h), q) /\ ~Overlap(r, q) => Available(Items(h)', q)
  BY <1>1, <1>3, PlaceFacts
<1>5. \A g \in Handles : TextsOf(Items(g))' = IF g = h THEN TextsOf(Items(g)) \cup {b}
                                               ELSE TextsOf(Items(g))
  BY <1>4 DEF TextsOf
<1>6. AllTexts' = AllTexts \cup {b}
  BY <1>5 DEF AllTexts
<1>7. DOMAIN heap' = DOMAIN heap \cup {b} /\ \A c \in DOMAIN heap' : heap'[c] \in Texts
  BY DEF HeapWith, TypeOK
<1>8. NULL \notin Buffers
  BY NullAssumption
<1>9. DOMAIN heap = AllTexts \cup ({owned} \ {NULL})
  BY DEF EveryBufferHasOneOwner, AllTexts
<1>10. owned \notin AllTexts
  BY DEF EveryBufferHasOneOwner, AllTexts
<1>11. /\ DOMAIN heap' = AllTexts' \cup ({owned'} \ {NULL})
       /\ owned' \notin AllTexts'
       /\ owned' \in DOMAIN heap' \cup {NULL}
  <2>1. CASE b \in Fresh /\ owned' = owned
    <3>1. owned # b
      BY <2>1, <1>8 DEF Fresh, TypeOK
    <3>2. QED
      BY <2>1, <3>1, <1>6, <1>7, <1>9, <1>10 DEF TypeOK
  <2>2. CASE owned # NULL /\ b = owned /\ owned' = NULL
    <3>1. AllTexts \subseteq Buffers
      BY <1>9 DEF TypeOK
    <3>2. QED
      BY <2>2, <3>1, <1>6, <1>7, <1>8, <1>9
  <2>3. QED
    BY <2>1, <2>2 DEF Supply
<1>12. EveryBufferHasOneOwner'
  <2>1. \A g \in Handles : owned' \notin TextsOf(Items(g))'
    BY <1>11 DEF AllTexts
  <2>2. QED
    BY <1>4, <1>11, <2>1 DEF EveryBufferHasOneOwner, AllTexts, DistinctTexts
<1>13. QED
  BY <1>4, <1>7, <1>11, <1>12 DEF TypeOK

\* Replacing the text of a duplicate frees the old buffer, which nothing else
\* holds, and stores one that nothing else holds either.
LEMMA ReplaceFacts ==
  ASSUME TypeOK, NoTwoEditsConflict, EveryBufferHasOneOwner,
         NEW h \in Handles, NEW t \in Texts, NEW b \in Buffers,
         NEW i \in DOMAIN Items(h), Supply(t, b),
         heap' = [c \in (DOMAIN heap \cup {b}) \ {Items(h)[i].text} |->
                    IF c = b THEN t ELSE heap[c]],
         list' = [list EXCEPT ![h].items[i].text = b]
  PROVE  /\ list' \in Lists
         /\ \A g \in Handles : Len(Items(g)') <= list'[g].capacity
         /\ NoTwoEditsConflict'
         /\ EveryBufferHasOneOwner'
         /\ DOMAIN heap' \subseteq Buffers /\ \A c \in DOMAIN heap' : heap'[c] \in Texts
         /\ owned' \in DOMAIN heap' \cup {NULL}
<1> DEFINE items == Items(h)
           old == items[i].text
           new == [items EXCEPT ![i].text = b]
<1>1. /\ items \in Seq(Edit) /\ Len(items) \in Nat /\ DOMAIN items = 1..Len(items)
      /\ Len(items) <= list[h].capacity /\ list[h].capacity \in Nat
      /\ \A j \in DOMAIN items : items[j] \in Edit
  BY DEF TypeOK, Items
<1>2. i \in DOMAIN items
  OBVIOUS
<1> HIDE DEF items
<1>3. /\ DOMAIN new = DOMAIN items
      /\ \A j \in DOMAIN items : new[j] =
           IF j = i THEN [items[i] EXCEPT !.text = b] ELSE items[j]
  BY <1>1, <1>2
<1>4. \A j \in DOMAIN items : /\ new[j] \in Edit
                               /\ new[j].start = items[j].start
                               /\ new[j].end = items[j].end
                               /\ new[j].text = IF j = i THEN b ELSE items[j].text
  BY <1>1, <1>2, <1>3 DEF Edit
<1> HIDE DEF new
<1>5. new \in Seq(Edit) /\ Len(new) = Len(items)
  <2>1. new \in [1..Len(items) -> Edit]
    BY <1>1, <1>3, <1>4 DEF new
  <2>2. QED
    BY <2>1, <1>1
<1>6. /\ Items(h)' = new
      /\ \A g \in Handles : g # h => list'[g] = list[g] /\ Items(g)' = Items(g)
      /\ list'[h] = [items |-> new, capacity |-> list[h].capacity]
  BY DEF TypeOK, Items, items, new
<1>7. list' \in Lists
  BY <1>1, <1>5, <1>6 DEF Lists, TypeOK
<1>8. \A g \in Handles : Len(Items(g)') <= list'[g].capacity
  BY <1>1, <1>5, <1>6 DEF TypeOK
<1>9. NoTwoEditsConflict'
  <2>1. ConflictFree(new)
    BY <1>3, <1>4 DEF ConflictFree, Overlap, NoTwoEditsConflict, items
  <2>2. QED
    BY <2>1, <1>6 DEF NoTwoEditsConflict
<1>10. b \notin AllTexts /\ old \in AllTexts
  BY <1>2 DEF Supply, Fresh, EveryBufferHasOneOwner, AllTexts, TextsOf, items
<1>11. \A g \in Handles : b \notin TextsOf(Items(g))
  BY <1>10 DEF AllTexts
<1>12. DistinctTexts /\ \A g \in Handles : \A j \in DOMAIN Items(g) :
         Items(g)[j].text = old => g = h /\ j = i
  BY <1>2 DEF EveryBufferHasOneOwner, DistinctTexts, items
<1>13. DistinctTexts'
  <2>1. SUFFICES ASSUME NEW g1 \in Handles, NEW g2 \in Handles,
                        NEW j \in DOMAIN (Items(g1)'), NEW k \in DOMAIN (Items(g2)'),
                        Items(g1)'[j].text = Items(g2)'[k].text
                 PROVE  g1 = g2 /\ j = k
    BY DEF DistinctTexts
  <2>2. \A g \in Handles : \A m \in DOMAIN (Items(g)') :
          /\ m \in DOMAIN Items(g)
          /\ Items(g)'[m].text = IF g = h /\ m = i THEN b ELSE Items(g)[m].text
          /\ Items(g)[m].text # b
    BY <1>3, <1>4, <1>6, <1>11 DEF TextsOf, items
  <2>3. QED
    BY <2>1, <2>2, <1>12 DEF DistinctTexts
<1>14. \A g \in Handles : TextsOf(Items(g))' =
         IF g = h THEN (TextsOf(Items(g)) \ {old}) \cup {b} ELSE TextsOf(Items(g))
  <2>1. TextsOf(new) = (TextsOf(items) \ {old}) \cup {b}
    BY <1>2, <1>3, <1>4, <1>12 DEF TextsOf, items
  <2>2. QED
    BY <2>1, <1>6 DEF TextsOf, items
<1>15. \A g \in Handles : g # h => old \notin TextsOf(Items(g))
  BY <1>12 DEF TextsOf
<1>16. AllTexts' = (AllTexts \ {old}) \cup {b}
  BY <1>14, <1>15 DEF AllTexts
<1>17. /\ DOMAIN heap' = (DOMAIN heap \cup {b}) \ {old}
       /\ \A c \in DOMAIN heap' : heap'[c] \in Texts
  BY DEF TypeOK, items
<1>18. NULL \notin Buffers
  BY NullAssumption
<1>19. DOMAIN heap = AllTexts \cup ({owned} \ {NULL}) /\ owned \notin AllTexts
  BY DEF EveryBufferHasOneOwner, AllTexts
<1>20. old # b
  BY <1>10
<1> HIDE DEF old
<1>21. /\ DOMAIN heap' = AllTexts' \cup ({owned'} \ {NULL})
       /\ owned' \notin AllTexts'
       /\ owned' \in DOMAIN heap' \cup {NULL}
  <2>1. CASE b \in Fresh /\ owned' = owned
    <3>1. owned # b
      BY <2>1, <1>18 DEF Fresh, TypeOK
    <3>2. QED
      BY <2>1, <3>1, <1>10, <1>16, <1>17, <1>19, <1>20 DEF TypeOK
  <2>2. CASE owned # NULL /\ b = owned /\ owned' = NULL
    <3>1. AllTexts \subseteq Buffers
      BY <1>19 DEF TypeOK
    <3>2. QED
      BY <2>2, <3>1, <1>10, <1>16, <1>17, <1>18, <1>19, <1>20
  <2>3. QED
    BY <2>1, <2>2 DEF Supply
<1>22. EveryBufferHasOneOwner'
  <2>1. \A g \in Handles : owned' \notin TextsOf(Items(g))'
    BY <1>21 DEF AllTexts
  <2>2. QED
    BY <1>13, <1>21, <2>1 DEF EveryBufferHasOneOwner, DistinctTexts
<1>23. QED
  BY <1>7, <1>8, <1>9, <1>17, <1>21, <1>22 DEF TypeOK

\* Releasing a list frees exactly the buffers of its edits.
LEMMA ReleaseFacts ==
  ASSUME TypeOK, NoTwoEditsConflict, EveryBufferHasOneOwner, NEW h \in Handles,
         heap' = HeapWithout(TextsOf(Items(h))), list' = [list EXCEPT ![h] = EmptyList],
         owned' = owned
  PROVE  /\ list' \in Lists
         /\ \A g \in Handles : Len(Items(g)') <= list'[g].capacity
         /\ NoTwoEditsConflict'
         /\ EveryBufferHasOneOwner'
         /\ DOMAIN heap' \subseteq Buffers /\ \A c \in DOMAIN heap' : heap'[c] \in Texts
         /\ owned' \in DOMAIN heap' \cup {NULL}
<1>1. /\ list'[h] = EmptyList /\ Items(h)' = <<>>
      /\ \A g \in Handles : g # h => list'[g] = list[g] /\ Items(g)' = Items(g)
  BY DEF TypeOK, Items, EmptyList
<1>2. list' \in Lists /\ \A g \in Handles : Len(Items(g)') <= list'[g].capacity
  BY <1>1 DEF TypeOK, Lists, EmptyList
<1>3. NoTwoEditsConflict'
  BY <1>1 DEF NoTwoEditsConflict, ConflictFree
<1>4. \A g1, g2 \in Handles : g1 # g2 => \A x \in TextsOf(Items(g1)) : x \notin TextsOf(Items(g2))
  BY DEF EveryBufferHasOneOwner, TextsOf
<1>5. \A g \in Handles : TextsOf(Items(g))' = IF g = h THEN {} ELSE TextsOf(Items(g))
  BY <1>1 DEF TextsOf
<1>6. AllTexts' = AllTexts \ TextsOf(Items(h))
  BY <1>4, <1>5 DEF AllTexts
<1>7. DOMAIN heap' = DOMAIN heap \ TextsOf(Items(h)) /\ \A c \in DOMAIN heap' : heap'[c] \in Texts
  BY DEF HeapWithout, TypeOK
<1>8. DOMAIN heap = AllTexts \cup ({owned} \ {NULL}) /\ owned \notin AllTexts
  BY DEF EveryBufferHasOneOwner, AllTexts
<1>9. TextsOf(Items(h)) \subseteq AllTexts
  BY DEF AllTexts
<1>10. /\ DOMAIN heap' = AllTexts' \cup ({owned'} \ {NULL})
       /\ owned' \notin AllTexts'
       /\ owned' \in DOMAIN heap' \cup {NULL}
  BY <1>6, <1>7, <1>8, <1>9 DEF TypeOK
<1>11. \A g \in Handles : owned' \notin TextsOf(Items(g))'
  BY <1>10 DEF AllTexts
<1>12. \A g1, g2 \in Handles : \A j \in DOMAIN (Items(g1)'), k \in DOMAIN (Items(g2)') :
         Items(g1)'[j].text = Items(g2)'[k].text => g1 = g2 /\ j = k
  BY <1>1 DEF EveryBufferHasOneOwner
<1>13. QED
  BY <1>2, <1>3, <1>7, <1>10, <1>11, <1>12 DEF EveryBufferHasOneOwner, TypeOK

\* A clone's list describes the same edits with buffers of its own.
LEMMA CloneFacts ==
  ASSUME TypeOK, NoTwoEditsConflict, EveryBufferHasOneOwner,
         NEW g \in Handles, NEW h \in Handles, g # h, Items(h) = <<>>,
         NEW copy \in Injection(DOMAIN Items(g), Fresh),
         heap' = [b \in DOMAIN heap \cup Range(copy) |->
                    IF b \in DOMAIN heap THEN heap[b]
                    ELSE heap[Items(g)[CHOOSE i \in DOMAIN copy : copy[i] = b].text]],
         list' = [list EXCEPT ![h] =
                    [items |-> [i \in DOMAIN Items(g) |-> EditOf(Items(g)[i], copy[i])],
                     capacity |-> Len(Items(g))]],
         owned' = owned
  PROVE  /\ list' \in Lists
         /\ \A f \in Handles : Len(Items(f)') <= list'[f].capacity
         /\ NoTwoEditsConflict'
         /\ EveryBufferHasOneOwner'
         /\ DOMAIN heap' \subseteq Buffers /\ \A c \in DOMAIN heap' : heap'[c] \in Texts
         /\ owned' \in DOMAIN heap' \cup {NULL}
<1> DEFINE items == Items(g)
           new == [i \in DOMAIN items |-> EditOf(items[i], copy[i])]
<1>1. /\ items \in Seq(Edit) /\ Len(items) \in Nat /\ DOMAIN items = 1..Len(items)
      /\ \A j \in DOMAIN items : items[j] \in Edit /\ items[j].text \in DOMAIN heap
  <2>1. items \in Seq(Edit)
    BY DEF TypeOK, Items
  <2>2. \A j \in DOMAIN items : items[j].text \in TextsOf(items)
    BY DEF TextsOf
  <2>3. TextsOf(items) \subseteq DOMAIN heap
    BY DEF EveryBufferHasOneOwner, AllTexts
  <2> HIDE DEF items
  <2>4. QED
    BY <2>1, <2>2, <2>3
<1>2. /\ DOMAIN copy = DOMAIN items
      /\ \A j \in DOMAIN items : copy[j] \in Buffers /\ copy[j] \notin DOMAIN heap
      /\ \A j, k \in DOMAIN items : copy[j] = copy[k] => j = k
  BY DEF Injection, IsInjective, Fresh
<1> HIDE DEF items
<1>3. /\ DOMAIN new = DOMAIN items
      /\ \A j \in DOMAIN items : /\ new[j] \in Edit
                                 /\ new[j].start = items[j].start
                                 /\ new[j].end = items[j].end
                                 /\ new[j].text = copy[j]
  BY <1>1, <1>2 DEF EditOf, Edit
<1>4. new \in Seq(Edit) /\ Len(new) = Len(items)
  <2>1. new \in [1..Len(items) -> Edit]
    BY <1>1, <1>3
  <2>2. QED
    BY <2>1, <1>1
<1>5. /\ list'[h] = [items |-> new, capacity |-> Len(items)] /\ Items(h)' = new
      /\ \A f \in Handles : f # h => list'[f] = list[f] /\ Items(f)' = Items(f)
  BY DEF TypeOK, Items, items
<1> HIDE DEF new
<1>6. list' \in Lists /\ \A f \in Handles : Len(Items(f)') <= list'[f].capacity
  <2>1. [items |-> new, capacity |-> Len(items)] \in [items : Seq(Edit), capacity : Nat]
    BY <1>1, <1>4
  <2>2. list' = [list EXCEPT ![h] = [items |-> new, capacity |-> Len(items)]]
    BY DEF items, new
  <2>3. list' \in Lists
    BY <2>1, <2>2 DEF TypeOK, Lists
  <2>4. ASSUME NEW f \in Handles PROVE Len(Items(f)') <= list'[f].capacity
    BY <1>1, <1>4, <1>5 DEF TypeOK
  <2>5. QED
    BY <2>3, <2>4
<1>7. NoTwoEditsConflict'
  <2>1. ConflictFree(new)
    BY <1>3 DEF ConflictFree, Overlap, NoTwoEditsConflict, items
  <2>2. QED
    BY <2>1, <1>5 DEF NoTwoEditsConflict
<1>8. Range(copy) = {copy[j] : j \in DOMAIN items}
  BY <1>2 DEF Range
<1>9. /\ DOMAIN heap' = DOMAIN heap \cup Range(copy) /\ DOMAIN heap' \subseteq Buffers
      /\ \A c \in DOMAIN heap' : heap'[c] \in Texts
  <2>1. DOMAIN heap' = DOMAIN heap \cup Range(copy) /\ DOMAIN heap' \subseteq Buffers
    BY <1>2, <1>8 DEF TypeOK
  <2>2. ASSUME NEW c \in Range(copy), c \notin DOMAIN heap
        PROVE  heap'[c] \in Texts
    <3>1. (CHOOSE j \in DOMAIN copy : copy[j] = c) \in DOMAIN items
      BY <1>2, <1>8, <2>2
    <3>2. heap'[c] = heap[items[CHOOSE j \in DOMAIN copy : copy[j] = c].text]
      BY <2>1, <2>2 DEF items
    <3>3. QED
      BY <1>1, <3>1, <3>2 DEF TypeOK
  <2>3. QED
    BY <2>1, <2>2 DEF TypeOK
<1>10. \A f \in Handles : TextsOf(Items(f))' = IF f = h THEN Range(copy) ELSE TextsOf(Items(f))
  BY <1>3, <1>5, <1>8 DEF TextsOf
<1>11. TextsOf(Items(h)) = {}
  BY DEF TextsOf
<1>12. AllTexts' = AllTexts \cup Range(copy)
  BY <1>10, <1>11 DEF AllTexts
<1>13. DOMAIN heap = AllTexts \cup ({owned} \ {NULL}) /\ owned \notin AllTexts
  BY DEF EveryBufferHasOneOwner, AllTexts
<1>14. owned \notin Range(copy)
  BY <1>2, <1>8, NullAssumption DEF TypeOK
<1>15. /\ DOMAIN heap' = AllTexts' \cup ({owned'} \ {NULL})
       /\ owned' \notin AllTexts'
       /\ owned' \in DOMAIN heap' \cup {NULL}
  BY <1>9, <1>12, <1>13, <1>14 DEF TypeOK
<1>16. \A f \in Handles : owned' \notin TextsOf(Items(f))'
  BY <1>15 DEF AllTexts
<1>17. ASSUME NEW g1 \in Handles, NEW g2 \in Handles,
              NEW j \in DOMAIN (Items(g1)'), NEW k \in DOMAIN (Items(g2)'),
              Items(g1)'[j].text = Items(g2)'[k].text
       PROVE  g1 = g2 /\ j = k
  <2>1. \A f \in Handles : f # h => \A m \in DOMAIN (Items(f)') :
          m \in DOMAIN Items(f) /\ Items(f)'[m].text = Items(f)[m].text
            /\ Items(f)'[m].text \in DOMAIN heap
    BY <1>5 DEF EveryBufferHasOneOwner, AllTexts, TextsOf
  <2>2. \A m \in DOMAIN (Items(h)') :
          m \in DOMAIN items /\ Items(h)'[m].text = copy[m] /\ copy[m] \notin DOMAIN heap
    BY <1>2, <1>3, <1>5
  <2>3. CASE g1 = h /\ g2 = h
    BY <1>2, <1>17, <2>2, <2>3
  <2>4. CASE g1 = h /\ g2 # h
    BY <1>17, <2>1, <2>2, <2>4
  <2>5. CASE g1 # h /\ g2 = h
    BY <1>17, <2>1, <2>2, <2>5
  <2>6. CASE g1 # h /\ g2 # h
    BY <1>17, <2>1, <2>6 DEF EveryBufferHasOneOwner
  <2>7. QED
    BY <2>3, <2>4, <2>5, <2>6
<1>18. QED
  BY <1>6, <1>7, <1>9, <1>15, <1>16, <1>17 DEF EveryBufferHasOneOwner

-----------------------------------------------------------------------------
(* The inductive invariant, call by call.                                  *)

\* The part of the invariant that the insertions and the releases disturb.
ListsSound ==
  /\ list \in Lists
  /\ \A h \in Handles : Len(Items(h)) <= list[h].capacity
  /\ DOMAIN heap \subseteq Buffers /\ \A b \in DOMAIN heap : heap[b] \in Texts
  /\ owned \in DOMAIN heap \cup {NULL}
  /\ NoTwoEditsConflict
  /\ EveryBufferHasOneOwner

\* What of the invariant is about the lists alone.
LEMMA ListsSoundFromInvariant == ListInvariant => ListsSound
  BY DEF ListInvariant, ListsSound, TypeOK, Lists

\* And what is to be added to it.
LEMMA InvariantFromParts ==
  ASSUME ListsSound', running' \in [Handles -> Int \cup {NULL}],
         plan' = NoPlan \/ plan' \in [handle : Handles, kind : {"columns", "pair"},
                                      ranges : Seq(Ranges)],
         PlanStaysAvailable'
  PROVE  ListInvariant'
  BY DEF ListInvariant, ListsSound, TypeOK, Lists

\* A step that leaves lists and buffers alone keeps them sound.
LEMMA UnchangedLists ==
  ListsSound /\ UNCHANGED <<list, heap, owned>> => ListsSound'
  BY DEF ListsSound, Lists, NoTwoEditsConflict, ConflictFree, EveryBufferHasOneOwner,
         AllTexts, TextsOf, Items

\* An insertion, made or refused, keeps the lists sound.
LEMMA InsertKeepsLists ==
  ASSUME ListInvariant, NEW call, NEW h \in Handles, NEW r \in Ranges, NEW t \in Texts,
         Insert(call, h, r, t)
  PROVE  ListsSound'
<1>1. CASE \E b \in Buffers : Supply(t, b) /\ Place(h, r, b) /\ heap' = HeapWith(b, t)
  BY <1>1, StoreFacts DEF ListInvariant, ListsSound
<1>2. CASE UNCHANGED <<list, heap, owned>>
  BY <1>2, UnchangedLists, ListsSoundFromInvariant
<1>3. QED
  BY <1>1, <1>2 DEF Insert

\* So does an insertion that may replace the text of a duplicate.
LEMMA DeduplicatedInsertKeepsLists ==
  ASSUME ListInvariant, NEW call, NEW h \in Handles, NEW r \in Ranges, NEW t \in Texts,
         InsertDeduplicated(call, h, r, t)
  PROVE  ListsSound'
<1> DEFINE i == SearchIndex(Items(h), r)
<1>1. CASE IsDuplicate(Items(h), i, r)
  <2>1. ReplaceDuplicate(call, h, r, t) /\ i \in DOMAIN Items(h)
    BY <1>1 DEF InsertDeduplicated, IsDuplicate
  <2> HIDE DEF i
  <2>2. \/ UNCHANGED <<list, heap, owned>>
        \/ \E b \in Buffers :
              /\ Supply(t, b)
              /\ heap' = [c \in (DOMAIN heap \cup {b}) \ {Items(h)[i].text} |->
                            IF c = b THEN t ELSE heap[c]]
              /\ list' = [list EXCEPT ![h].items[i].text = b]
    BY <2>1 DEF ReplaceDuplicate, i
  <2>3. CASE UNCHANGED <<list, heap, owned>>
    BY <2>3, UnchangedLists, ListsSoundFromInvariant
  <2>4. CASE ~UNCHANGED <<list, heap, owned>>
    <3>1. PICK b \in Buffers :
              /\ Supply(t, b)
              /\ heap' = [c \in (DOMAIN heap \cup {b}) \ {Items(h)[i].text} |->
                            IF c = b THEN t ELSE heap[c]]
              /\ list' = [list EXCEPT ![h].items[i].text = b]
      BY <2>2, <2>4
    <3>2. QED
      BY <2>1, <3>1, ReplaceFacts DEF ListInvariant, ListsSound
  <2>5. QED
    BY <2>3, <2>4
<1>2. CASE ~IsDuplicate(Items(h), i, r)
  BY <1>2, InsertKeepsLists DEF InsertDeduplicated
<1>3. QED
  BY <1>1, <1>2

\* A range that conflicts with no edit is refused at no insertion point.
LEMMA AvailableIsNotRefused ==
  ASSUME NEW items \in Seq(Edit), NEW r \in Ranges, Available(items, r)
  PROVE  ~Refuses(items, r)
<1>1. \A j \in 1..Len(items) : ~Overlap(items[j], r)
  BY DEF Available
<1>2. SUFFICES ASSUME NEW i \in 1..(Len(items) + 1) PROVE ~NeighbourConflict(items, i, r)
  BY DEF Refuses
<1>3. QED
  BY <1>1 DEF NeighbourConflict

\* Empty lists, no buffer, no plan.
LEMMA InitInvariant == Init => ListInvariant
<1>1. SUFFICES ASSUME Init PROVE ListInvariant
  OBVIOUS
<1>2. \A h \in Handles : list[h] = EmptyList /\ Items(h) = <<>>
  BY <1>1 DEF Init, Items, EmptyList
<1>3. list \in Lists /\ \A h \in Handles : Len(Items(h)) <= list[h].capacity
  BY <1>1, <1>2 DEF Init, Lists, EmptyList
<1>4. NoTwoEditsConflict
  BY <1>2 DEF NoTwoEditsConflict, ConflictFree
<1>5. AllTexts = {}
  BY <1>2 DEF AllTexts, TextsOf
<1>6. EveryBufferHasOneOwner
  BY <1>1, <1>2, <1>5 DEF Init, EveryBufferHasOneOwner, TextsOf
<1>7. ListsSound
  BY <1>1, <1>3, <1>4, <1>6 DEF Init, ListsSound
<1>8. PlanStaysAvailable
  BY <1>1 DEF Init, PlanStaysAvailable, NoPlan
<1>9. QED
  BY <1>1, <1>7, <1>8 DEF Init, ListInvariant, ListsSound, TypeOK, Lists

\* One insertion of a plan: those still to come stay possible.
LEMMA PlanStepKeepsInvariant ==
  ASSUME ListInvariant, NEW t \in Texts, PlanStep(t)
  PROVE  ListInvariant'
<1>1. /\ plan \in [handle : Handles, kind : {"columns", "pair"}, ranges : Seq(Ranges)]
      /\ plan.ranges # <<>>
  BY DEF PlanStep, Idle, ListInvariant, TypeOK, NoPlan
<1>2. PICK h \in Handles, ranges \in Seq(Ranges), r \in Ranges :
        h = plan.handle /\ ranges = plan.ranges /\ r = Head(plan.ranges)
  BY <1>1
<1>3. /\ Tail(ranges) \in Seq(Ranges) /\ Len(Tail(ranges)) = Len(ranges) - 1
       /\ r = ranges[1] /\ 1 \in DOMAIN ranges
       /\ \A k \in DOMAIN Tail(ranges) :
            /\ k + 1 \in DOMAIN ranges /\ Tail(ranges)[k] = ranges[k + 1]
            /\ 1 < k + 1 /\ Tail(ranges)[k] \in Ranges /\ k \in Int
  BY <1>1, <1>2
<1>4. running' \in [Handles -> Int \cup {NULL}]
  BY DEF PlanStep, ListInvariant, TypeOK
<1>5. CASE /\ \E b \in Fresh : Place(h, r, b) /\ heap' = HeapWith(b, t)
           /\ plan' = [plan EXCEPT !.ranges = Tail(@)]
           /\ owned' = owned
  <2>1. PICK b \in Fresh : Place(h, r, b) /\ heap' = HeapWith(b, t)
    BY <1>5
  <2>2. b \in Buffers /\ Supply(t, b)
    BY <1>5 DEF Supply, Fresh
  <2>3. /\ ListsSound'
        /\ \A q \in Ranges : Available(Items(h), q) /\ ~Overlap(r, q) => Available(Items(h)', q)
    <3>1. /\ h \in Handles /\ r \in Ranges /\ b \in Buffers
          /\ Supply(t, b) /\ Place(h, r, b) /\ heap' = HeapWith(b, t)
      BY <2>1, <2>2
    <3>2. TypeOK /\ NoTwoEditsConflict /\ EveryBufferHasOneOwner
      BY DEF ListInvariant
    <3>3. /\ list' \in Lists
          /\ \A g \in Handles : Len(Items(g)') <= list'[g].capacity
          /\ NoTwoEditsConflict'
          /\ EveryBufferHasOneOwner'
          /\ DOMAIN heap' \subseteq Buffers /\ \A c \in DOMAIN heap' : heap'[c] \in Texts
          /\ owned' \in DOMAIN heap' \cup {NULL}
          /\ \A q \in Ranges : Available(Items(h), q) /\ ~Overlap(r, q) => Available(Items(h)', q)
      BY <3>1, <3>2, StoreFacts
    <3>4. QED
      BY <3>3 DEF ListsSound
  <2>4. /\ plan' \in [handle : Handles, kind : {"columns", "pair"}, ranges : Seq(Ranges)]
        /\ plan'.ranges = Tail(ranges) /\ plan'.handle = h
    BY <1>1, <1>2, <1>3, <1>5
  <2>5. PlanStaysAvailable'
    <3>1. /\ \A k \in DOMAIN ranges : Available(Items(h), ranges[k])
          /\ \A j, k \in DOMAIN ranges : j < k => ~Overlap(ranges[j], ranges[k])
      BY <1>2 DEF ListInvariant, PlanStaysAvailable
    <3>2. \A k \in DOMAIN Tail(ranges) : Available(Items(h)', Tail(ranges)[k])
      BY <1>3, <2>3, <3>1
    <3>3. \A j, k \in DOMAIN Tail(ranges) : j < k => ~Overlap(Tail(ranges)[j], Tail(ranges)[k])
      BY <1>3, <3>1
    <3>4. \A k \in DOMAIN Tail(ranges) : Available(Items(plan.handle)', Tail(ranges)[k])
      BY <2>4, <3>2 DEF Items
    <3>5. QED
      BY <2>4, <3>3, <3>4 DEF PlanStaysAvailable
  <2>6. QED
    BY <1>4, <2>3, <2>4, <2>5, InvariantFromParts
<1>6. CASE UNCHANGED <<list, heap, owned>> /\ plan' = NoPlan
  <2>1. ListsSound'
    BY <1>6, UnchangedLists, ListsSoundFromInvariant
  <2>2. PlanStaysAvailable'
    BY <1>6 DEF PlanStaysAvailable, NoPlan
  <2>3. QED
    BY <1>4, <1>6, <2>1, <2>2, InvariantFromParts
<1>7. QED
  BY <1>2, <1>5, <1>6 DEF PlanStep

\* A call made while no plan is under way leaves the empty plan available.
LEMMA NoPlanIsAvailable ==
  Idle /\ plan' = plan => PlanStaysAvailable'
<1>1. SUFFICES ASSUME Idle, plan' = plan PROVE PlanStaysAvailable'
  OBVIOUS
<1>2. plan'.ranges = <<>>
  BY <1>1 DEF Idle
<1>3. QED
  BY <1>2 DEF PlanStaysAvailable

\* The length a batch computes is a number.
LEMMA BatchLengthIsInt ==
  ASSUME ListInvariant, NEW h \in Handles, running[h] # NULL,
         NEW r \in Ranges, NEW t \in Texts
  PROVE  BatchLength(h, r, t) \in Int
<1> DEFINE i == SearchIndex(Items(h), r)
<1>1. running[h] \in Int /\ r.start \in Int /\ r.end \in Int
  BY DEF ListInvariant, TypeOK, Ranges, Positions
<1>2. Len(t) \in Nat
  BY TextsAssumption
<1>3. ASSUME IsDuplicate(Items(h), i, r) PROVE Len(heap[Items(h)[i].text]) \in Nat
  <2>1. i \in DOMAIN Items(h)
    BY <1>3 DEF IsDuplicate
  <2> HIDE DEF i
  <2>2. Items(h)[i].text \in DOMAIN heap
    BY <2>1 DEF ListInvariant, EveryBufferHasOneOwner, AllTexts, TextsOf
  <2>3. heap[Items(h)[i].text] \in Texts
    BY <2>2 DEF ListInvariant, TypeOK
  <2>4. heap[Items(h)[i].text] \in Seq(Int)
    BY <2>3, TextsAssumption
  <2>5. QED
    BY <2>4
<1> HIDE DEF i
<1>4. BatchLength(h, r, t) =
        running[h] - (IF IsDuplicate(Items(h), i, r) THEN Len(heap[Items(h)[i].text])
                      ELSE r.end - r.start) + Len(t)
  BY DEF BatchLength, i
<1>5. QED
  BY <1>1, <1>2, <1>3, <1>4

\* The inductive step: no call and no step of a plan breaks the invariant.
LEMMA NextKeepsInvariant == ListInvariant /\ [Next]_vars => ListInvariant'
<1> SUFFICES ASSUME ListInvariant, [Next]_vars PROVE ListInvariant'
  OBVIOUS
<1> DEFINE RunningOK == running \in [Handles -> Int \cup {NULL}]
           PlanOK == plan = NoPlan \/ plan \in [handle : Handles, kind : {"columns", "pair"},
                                                ranges : Seq(Ranges)]
<1>1. ListsSound /\ RunningOK /\ PlanOK /\ PlanStaysAvailable
  BY ListsSoundFromInvariant DEF ListInvariant, TypeOK
<1>2. CASE UNCHANGED vars
  <2>1. ListsSound' /\ RunningOK' /\ PlanOK'
    BY <1>1, <1>2, UnchangedLists DEF vars
  <2>2. PlanStaysAvailable'
    BY <1>1, <1>2 DEF vars, PlanStaysAvailable, Available, Items
  <2>3. QED
    BY <2>1, <2>2, InvariantFromParts
<1>3. ASSUME NEW t \in Texts, Render(t) PROVE ListInvariant'
  <2>1. PICK b \in Fresh : owned' = b /\ heap' = HeapWith(b, t)
    BY <1>3 DEF Render
  <2>2. b \in Buffers /\ b \notin DOMAIN heap /\ owned = NULL /\ list' = list
    BY <1>3, <2>1 DEF Render, Fresh
  <2>3. DOMAIN heap' = DOMAIN heap \cup {b} /\ \A c \in DOMAIN heap' : heap'[c] \in Texts
    BY <1>1, <2>1 DEF HeapWith, ListsSound
  <2>4. AllTexts' = AllTexts /\ \A h \in Handles : Items(h)' = Items(h)
    BY <2>2 DEF AllTexts, TextsOf, Items
  <2>5. DOMAIN heap = AllTexts
    BY <1>1, <2>2 DEF ListsSound, EveryBufferHasOneOwner
  <2>6. EveryBufferHasOneOwner'
    <3>1. DOMAIN heap' = AllTexts' \cup ({owned'} \ {NULL})
      BY <2>1, <2>2, <2>3, <2>4, <2>5, NullAssumption
    <3>2. \A h \in Handles : owned' \notin TextsOf(Items(h))'
      BY <2>1, <2>2, <2>4, <2>5 DEF AllTexts, TextsOf
    <3>3. QED
      BY <1>1, <2>4, <3>1, <3>2 DEF ListsSound, EveryBufferHasOneOwner
  <2>7. ListsSound'
    BY <1>1, <2>1, <2>2, <2>3, <2>4, <2>6 DEF ListsSound, NoTwoEditsConflict
  <2>8. QED
    BY <1>1, <1>3, <2>7, NoPlanIsAvailable, InvariantFromParts DEF Render
<1>4. ASSUME Discard PROVE ListInvariant'
  <2>1. heap' = HeapWithout({owned}) /\ owned' = NULL /\ owned # NULL /\ list' = list
    BY <1>4 DEF Discard
  <2>2. DOMAIN heap' = DOMAIN heap \ {owned} /\ \A c \in DOMAIN heap' : heap'[c] \in Texts
    BY <1>1, <2>1 DEF HeapWithout, ListsSound
  <2>3. AllTexts' = AllTexts /\ \A h \in Handles : Items(h)' = Items(h)
    BY <2>1 DEF AllTexts, TextsOf, Items
  <2>4. DOMAIN heap = AllTexts \cup {owned} /\ owned \notin AllTexts /\ AllTexts \subseteq Buffers
    BY <1>1, <2>1 DEF ListsSound, EveryBufferHasOneOwner, AllTexts
  <2>5. EveryBufferHasOneOwner'
    <3>1. DOMAIN heap' = AllTexts' \cup ({owned'} \ {NULL})
      BY <2>1, <2>2, <2>3, <2>4
    <3>2. \A h \in Handles : owned' \notin TextsOf(Items(h))'
      BY <2>1, <2>3, <2>4, NullAssumption DEF AllTexts, TextsOf
    <3>3. QED
      BY <1>1, <2>3, <3>1, <3>2 DEF ListsSound, EveryBufferHasOneOwner
  <2>6. ListsSound'
    BY <1>1, <2>1, <2>2, <2>3, <2>5 DEF ListsSound, NoTwoEditsConflict
  <2>7. QED
    BY <1>1, <1>4, <2>6, NoPlanIsAvailable, InvariantFromParts DEF Discard
<1>5. ASSUME NEW h \in Handles, BatchBegin(h) PROVE ListInvariant'
  <2>1. Len(Source) \in Int
    BY SourceAssumption
  <2>2. RunningOK'
    BY <1>1, <1>5, <2>1 DEF BatchBegin
  <2>3. QED
    BY <1>1, <1>5, <2>2, UnchangedLists, NoPlanIsAvailable, InvariantFromParts DEF BatchBegin
<1>6. ASSUME NEW h \in Handles, Release(h) PROVE ListInvariant'
  <2>1. ListsSound'
    BY <1>6, ReleaseFacts DEF Release, ListInvariant, ListsSound
  <2>2. RunningOK'
    BY <1>1, <1>6 DEF Release
  <2>3. QED
    BY <1>1, <1>6, <2>1, <2>2, NoPlanIsAvailable, InvariantFromParts DEF Release
<1>7. ASSUME NEW h \in Handles, Restore(h) PROVE ListInvariant'
  BY <1>1, <1>7, UnchangedLists, NoPlanIsAvailable, InvariantFromParts DEF Restore
<1>8. ASSUME NEW h \in Handles, NEW r \in Ranges, NEW t \in Texts, PlainInsert(h, r, t)
      PROVE  ListInvariant'
  BY <1>1, <1>8, InsertKeepsLists, NoPlanIsAvailable, InvariantFromParts DEF PlainInsert
<1>9. ASSUME NEW h \in Handles, NEW r \in Ranges, NEW t \in Texts, DeduplicatedInsert(h, r, t)
      PROVE  ListInvariant'
  BY <1>1, <1>9, DeduplicatedInsertKeepsLists, NoPlanIsAvailable, InvariantFromParts
     DEF DeduplicatedInsert
<1>10. ASSUME NEW h \in Handles, NEW r \in Ranges, NEW t \in Texts, BatchInsert(h, r, t)
       PROVE  ListInvariant'
  <2>1. ListsSound'
    BY <1>1, <1>10, DeduplicatedInsertKeepsLists, UnchangedLists DEF BatchInsert
  <2>2. RunningOK'
    <3>1. BatchLength(h, r, t) \in Int
      BY <1>10, BatchLengthIsInt DEF BatchInsert
    <3>2. running' = running \/ running' = [running EXCEPT ![h] = BatchLength(h, r, t)]
      BY <1>10 DEF BatchInsert
    <3>3. QED
      BY <1>1, <3>1, <3>2
  <2>3. QED
    BY <1>1, <1>10, <2>1, <2>2, NoPlanIsAvailable, InvariantFromParts DEF BatchInsert
<1>11. ASSUME NEW h \in Handles, NEW ranges \in ColumnRanges, PlanColumns(h, ranges)
       PROVE  ListInvariant'
  <2>1. ListsSound' /\ RunningOK'
    BY <1>1, <1>11, UnchangedLists DEF PlanColumns
  <2>2. CASE plan' = plan
    BY <1>1, <1>11, <2>1, <2>2, NoPlanIsAvailable, InvariantFromParts DEF PlanColumns
  <2>3. CASE /\ \A j, k \in DOMAIN ranges : j < k => ranges[j].start < ranges[k].start
             /\ \A k \in DOMAIN ranges : Available(Items(h), ranges[k])
             /\ plan' = [handle |-> h, kind |-> "columns", ranges |-> ranges]
    <3>1. /\ ranges \in Seq(Ranges)
          /\ \A k \in DOMAIN ranges : ranges[k].start = ranges[k].end /\ ranges[k].start \in Int
      BY RowsAssumption DEF ColumnRanges, Ranges, Positions
    <3>2. \A j, k \in DOMAIN ranges : j < k => ~Overlap(ranges[j], ranges[k])
      BY <2>3, <3>1 DEF Overlap
    <3>3. \A k \in DOMAIN ranges : Available(Items(h)', ranges[k])
      BY <1>11, <2>3 DEF PlanColumns, Items
    <3>4. PlanStaysAvailable'
      BY <2>3, <3>2, <3>3 DEF PlanStaysAvailable, Items
    <3>5. QED
      BY <2>1, <2>3, <3>1, <3>4, InvariantFromParts
  <2>4. QED
    BY <1>11, <2>2, <2>3 DEF PlanColumns
<1>12. ASSUME NEW h \in Handles, NEW first \in Ranges, NEW second \in Ranges,
              PlanPair(h, first, second)
       PROVE  ListInvariant'
  <2>1. ListsSound' /\ RunningOK'
    BY <1>1, <1>12, UnchangedLists DEF PlanPair
  <2>2. CASE plan' = plan
    BY <1>1, <1>12, <2>1, <2>2, NoPlanIsAvailable, InvariantFromParts DEF PlanPair
  <2>3. CASE /\ Available(Items(h), first) /\ Available(Items(h), second)
             /\ ~Overlap(first, second)
             /\ plan' = [handle |-> h, kind |-> "pair", ranges |-> <<first, second>>]
    <3>1. <<first, second>> \in Seq(Ranges)
      OBVIOUS
    <3>2. Available(Items(h)', first) /\ Available(Items(h)', second)
      BY <1>12, <2>3 DEF PlanPair, Items
    <3>3. PlanStaysAvailable'
      BY <2>3, <3>2 DEF PlanStaysAvailable, Items
    <3>4. QED
      BY <2>1, <2>3, <3>1, <3>3, InvariantFromParts
  <2>4. QED
    BY <1>12, <2>2, <2>3 DEF PlanPair
<1>13. ASSUME NEW g \in Handles, NEW h \in Handles, Clone(g, h) PROVE ListInvariant'
  <2>1. ListsSound'
    <3>1. CASE \E copy \in Injection(DOMAIN Items(g), Fresh) :
          /\ heap' = [b \in DOMAIN heap \cup Range(copy) |->
                        IF b \in DOMAIN heap THEN heap[b]
                        ELSE heap[Items(g)[CHOOSE i \in DOMAIN copy : copy[i] = b].text]]
          /\ list' = [list EXCEPT ![h] =
               [items |-> [i \in DOMAIN Items(g) |-> EditOf(Items(g)[i], copy[i])],
                capacity |-> Len(Items(g))]]
      <4>1. PICK copy \in Injection(DOMAIN Items(g), Fresh) :
          /\ heap' = [b \in DOMAIN heap \cup Range(copy) |->
                        IF b \in DOMAIN heap THEN heap[b]
                        ELSE heap[Items(g)[CHOOSE i \in DOMAIN copy : copy[i] = b].text]]
          /\ list' = [list EXCEPT ![h] =
               [items |-> [i \in DOMAIN Items(g) |-> EditOf(Items(g)[i], copy[i])],
                capacity |-> Len(Items(g))]]
        BY <3>1
      <4>2. g # h /\ Items(h) = <<>> /\ owned' = owned
        BY <1>13 DEF Clone
      <4>3. TypeOK /\ NoTwoEditsConflict /\ EveryBufferHasOneOwner
        BY DEF ListInvariant
      <4>4. QED
        BY <4>1, <4>2, <4>3, CloneFacts DEF ListsSound
    <3>2. CASE list' = [list EXCEPT ![h] = EmptyList] /\ heap' = heap
      <4>1. Items(h) = <<>> /\ owned' = owned
        BY <1>13 DEF Clone
      <4>2. /\ list' \in Lists
            /\ \A f \in Handles : Items(f)' = Items(f) /\ Len(Items(f)') <= list'[f].capacity
        BY <1>1, <3>2, <4>1 DEF ListsSound, Lists, Items, EmptyList
      <4>3. AllTexts' = AllTexts /\ \A f \in Handles : TextsOf(Items(f))' = TextsOf(Items(f))
        BY <4>2 DEF AllTexts, TextsOf
      <4>4. EveryBufferHasOneOwner'
        BY <1>1, <3>2, <4>1, <4>2, <4>3 DEF ListsSound, EveryBufferHasOneOwner
      <4>5. NoTwoEditsConflict'
        BY <1>1, <4>2 DEF ListsSound, NoTwoEditsConflict
      <4>6. QED
        BY <1>1, <3>2, <4>1, <4>2, <4>4, <4>5 DEF ListsSound
    <3>3. QED
      BY <1>13, <3>1, <3>2 DEF Clone
  <2>2. QED
    BY <1>1, <1>13, <2>1, NoPlanIsAvailable, InvariantFromParts DEF Clone
<1>14. QED
  BY <1>2, <1>3, <1>4, <1>5, <1>6, <1>7, <1>8, <1>9, <1>10, <1>11, <1>12, <1>13,
     PlanStepKeepsInvariant DEF Next

-----------------------------------------------------------------------------
(* The theorems.                                                           *)

\* The invariant of the edit lists holds in every reachable state.
THEOREM InvariantHolds == Spec => []ListInvariant
<1>1. QED
  BY InitInvariant, NextKeepsInvariant, PTL DEF Spec

\* Every variable of the edit lists and planners keeps its type.
THEOREM TypesHold == Spec => []TypeOK
<1>1. ListInvariant => TypeOK
  BY DEF ListInvariant
<1>2. QED
  BY <1>1, InvariantHolds, PTL

\* For every source, every list and every sequence of calls, no two edits of a
\* list conflict although an insertion looks at two neighbours only.
THEOREM EditsNeverConflict == Spec => []NoTwoEditsConflict
<1>1. ListInvariant => NoTwoEditsConflict
  BY DEF ListInvariant
<1>2. QED
  BY <1>1, InvariantHolds, PTL

\* No replacement buffer leaks, dangles or has two owners.
THEOREM BuffersHaveOneOwner == Spec => []EveryBufferHasOneOwner
<1>1. ListInvariant => EveryBufferHasOneOwner
  BY DEF ListInvariant
<1>2. QED
  BY <1>1, InvariantHolds, PTL

\* A plan that passed its checks completes, whatever was in the list: the
\* overlap error of plan_insert_columns is unreachable and no pair stays half
\* inserted, unless memory runs out.
THEOREM PlansComplete == Spec => []PlannedInsertionsFit
<1>1. ListInvariant => PlannedInsertionsFit
  <2>1. SUFFICES ASSUME ListInvariant, plan.ranges # <<>>
                 PROVE  ~Refuses(Items(plan.handle), Head(plan.ranges))
    BY DEF PlannedInsertionsFit
  <2>2. plan \in [handle : Handles, kind : {"columns", "pair"}, ranges : Seq(Ranges)]
    BY <2>1 DEF ListInvariant, TypeOK, NoPlan
  <2>3. /\ Items(plan.handle) \in Seq(Edit) /\ 1 \in DOMAIN plan.ranges
        /\ Head(plan.ranges) \in Ranges /\ Head(plan.ranges) = plan.ranges[1]
    BY <2>1, <2>2 DEF ListInvariant, TypeOK, Items
  <2>4. Available(Items(plan.handle), Head(plan.ranges))
    BY <2>1, <2>3 DEF ListInvariant, PlanStaysAvailable
  <2>5. QED
    BY <2>3, <2>4, AvailableIsNotRefused
<1>2. QED
  BY <1>1, InvariantHolds, PTL

-----------------------------------------------------------------------------
(* The bisection.                                                          *)

Windows(n) == [lo : 1..(n + 1), hi : 1..(n + 1)]

\* One step of the bisection, of which b is the rest.
Bisected(b, items, r, w) ==
  IF w.lo >= w.hi THEN w.lo
  ELSE LET middle == w.lo + (w.hi - w.lo) \div 2
       IN  IF items[middle].start < r.start
           THEN b[[w EXCEPT !.lo = middle + 1]]
           ELSE b[[w EXCEPT !.hi = middle]]

\* Both halves of a window are smaller windows.
LEMMA MiddleFacts ==
  ASSUME NEW n \in Nat, NEW w \in Windows(n), w.lo < w.hi
  PROVE  LET middle == w.lo + (w.hi - w.lo) \div 2
         IN  /\ middle \in 1..n /\ w.lo <= middle /\ middle < w.hi
             /\ [w EXCEPT !.lo = middle + 1] \in Windows(n)
             /\ [w EXCEPT !.hi = middle] \in Windows(n)
             /\ w.hi - (middle + 1) < w.hi - w.lo
             /\ middle - w.lo < w.hi - w.lo
BY DEF Windows

\* Windows shrink, so the bisection is defined.
LEMMA BisectionExists ==
  ASSUME NEW items, NEW n \in Nat, NEW r
  PROVE  \E b : b = [w \in Windows(n) |-> Bisected(b, items, r, w)]
<1> DEFINE Defined(m, b) ==
             \A w \in Windows(n) : w.hi - w.lo <= m => b[w] = Bisected(b, items, r, w)
           S == {m \in Nat : \E b : b = [w \in Windows(n) |-> b[w]] /\ Defined(m, b)}
<1>1. 0 \in S
  <2> DEFINE b == [w \in Windows(n) |-> w.lo]
  <2>1. b = [w \in Windows(n) |-> b[w]]
    OBVIOUS
  <2>2. Defined(0, b)
    BY DEF Bisected, Windows
  <2> HIDE DEF b
  <2>3. QED
    BY <2>1, <2>2
<1>2. ASSUME NEW m \in Nat, m \in S PROVE m + 1 \in S
  <2>1. PICK b : b = [w \in Windows(n) |-> b[w]] /\ Defined(m, b)
    BY <1>2
  <2> DEFINE c == [w \in Windows(n) |-> Bisected(b, items, r, w)]
  <2>2. c = [w \in Windows(n) |-> c[w]]
    OBVIOUS
  <2>3. \A w \in Windows(n) : w.hi - w.lo <= m => c[w] = b[w]
    BY <2>1
  <2>4. Defined(m + 1, c)
    <3>1. SUFFICES ASSUME NEW w \in Windows(n), w.hi - w.lo <= m + 1
                   PROVE  Bisected(b, items, r, w) = Bisected(c, items, r, w)
      OBVIOUS
    <3>2. CASE w.lo >= w.hi
      BY <3>2 DEF Bisected
    <3>3. CASE w.lo < w.hi
      <4> DEFINE middle == w.lo + (w.hi - w.lo) \div 2
                 up == [w EXCEPT !.lo = middle + 1]
                 down == [w EXCEPT !.hi = middle]
      <4>1. /\ middle \in 1..n /\ up \in Windows(n) /\ down \in Windows(n)
            /\ up.hi - up.lo <= m /\ down.hi - down.lo <= m
        BY <3>1, <3>3, MiddleFacts DEF Windows
      <4>2. b[up] = c[up] /\ b[down] = c[down]
        BY <2>3, <4>1
      <4>3. QED
        BY <3>3, <4>2 DEF Bisected
    <3>4. QED
      BY <3>2, <3>3 DEF Windows
  <2> HIDE DEF c
  <2>5. QED
    BY <2>2, <2>4
<1>3. n \in S
  <2> HIDE DEF S
  <2>1. QED
    BY <1>1, <1>2, SetInduction
<1>4. PICK b : b = [w \in Windows(n) |-> b[w]] /\ Defined(n, b)
  BY <1>3
<1>5. \A w \in Windows(n) : w.hi - w.lo <= n
  BY DEF Windows
<1>6. b = [w \in Windows(n) |-> Bisected(b, items, r, w)]
  BY <1>4, <1>5
<1>7. QED
  BY <1>6

\* SearchIndex is the bisection behind the append shortcut.
LEMMA SearchIsBisection ==
  ASSUME NEW items, Len(items) \in Nat, NEW r
  PROVE  \E b : /\ b = [w \in Windows(Len(items)) |-> Bisected(b, items, r, w)]
                /\ SearchIndex(items, r) =
                     IF Len(items) > 0 /\ items[Len(items)].start < r.start
                     THEN Len(items) + 1 ELSE b[[lo |-> 1, hi |-> Len(items) + 1]]
<1> DEFINE b == CHOOSE b : b = [w \in Windows(Len(items)) |-> Bisected(b, items, r, w)]
<1>1. b = [w \in Windows(Len(items)) |-> Bisected(b, items, r, w)]
  BY BisectionExists
<1>2. SearchIndex(items, r) =
        IF Len(items) > 0 /\ items[Len(items)].start < r.start
        THEN Len(items) + 1 ELSE b[[lo |-> 1, hi |-> Len(items) + 1]]
  BY DEF SearchIndex, Bisected, Windows
<1> HIDE DEF b
<1>3. QED
  BY <1>1, <1>2

\* The search returns the first edit that does not start before the range, or
\* the end of the list.
LEMMA SearchFinds ==
  ASSUME NEW items \in Seq(Edit), ConflictFree(items), NEW r \in Ranges
  PROVE  /\ SearchIndex(items, r) \in 1..(Len(items) + 1)
         /\ \A j \in 1..Len(items) :
              items[j].start < r.start <=> j < SearchIndex(items, r)
<1> DEFINE n == Len(items)
           start(j) == items[j].start
           Brackets(w) == /\ \A j \in 1..n : j < w.lo => start(j) < r.start
                          /\ \A j \in 1..n : j >= w.hi => start(j) >= r.start
           Found(i) == i \in 1..(n + 1) /\ \A j \in 1..n : start(j) < r.start <=> j < i
<1>1. n \in Nat /\ r.start \in Int /\ \A j \in 1..n : start(j) \in Int
  BY DEF Edit, Ranges, Positions
<1>2. \A j, k \in 1..n : j < k => start(j) < start(k)
  BY DEF ConflictFree
<1>3. PICK b : /\ b = [w \in Windows(n) |-> Bisected(b, items, r, w)]
               /\ SearchIndex(items, r) =
                    IF n > 0 /\ start(n) < r.start THEN n + 1 ELSE b[[lo |-> 1, hi |-> n + 1]]
  BY <1>1, SearchIsBisection
<1> DEFINE S == {m \in Nat : \A w \in Windows(n) :
                    w.lo <= w.hi /\ w.hi - w.lo <= m /\ Brackets(w) => Found(b[w])}
<1> HIDE DEF n
<1>4. 0 \in S
  <2>1. ASSUME NEW w \in Windows(n), w.lo <= w.hi, w.hi - w.lo <= 0, Brackets(w)
        PROVE  Found(b[w])
    <3>1. b[w] = w.lo /\ w.lo = w.hi /\ w.lo \in 1..(n + 1)
      BY <1>1, <1>3, <2>1 DEF Bisected, Windows
    <3>2. QED
      BY <1>1, <2>1, <3>1
  <2>2. QED
    BY <2>1
<1>5. ASSUME NEW m \in Nat, m \in S PROVE m + 1 \in S
  <2>1. ASSUME NEW w \in Windows(n), w.lo <= w.hi, w.hi - w.lo <= m + 1, Brackets(w)
        PROVE  Found(b[w])
    <3>1. CASE w.hi - w.lo <= m
      BY <1>5, <2>1, <3>1
    <3>2. CASE w.lo < w.hi
      <4> DEFINE middle == w.lo + (w.hi - w.lo) \div 2
                 up == [w EXCEPT !.lo = middle + 1]
                 down == [w EXCEPT !.hi = middle]
      <4>1. /\ middle \in 1..n /\ up \in Windows(n) /\ down \in Windows(n)
            /\ up.lo = middle + 1 /\ up.hi = w.hi /\ down.lo = w.lo /\ down.hi = middle
            /\ up.lo <= up.hi /\ down.lo <= down.hi
            /\ up.hi - up.lo <= m /\ down.hi - down.lo <= m
        <5>1. /\ middle \in 1..n /\ up \in Windows(n) /\ down \in Windows(n)
              /\ w.lo <= middle /\ middle < w.hi
              /\ w.hi - (middle + 1) < w.hi - w.lo /\ middle - w.lo < w.hi - w.lo
          BY <1>1, <3>2, MiddleFacts
        <5>2. up.lo = middle + 1 /\ up.hi = w.hi /\ down.lo = w.lo /\ down.hi = middle
          BY DEF Windows
        <5>3. w.lo \in Int /\ w.hi \in Int /\ middle \in Int
          BY <1>1, <5>1 DEF Windows
        <5> HIDE DEF middle, up, down
        <5>4. QED
          BY <1>5, <2>1, <5>1, <5>2, <5>3
      <4>2. b[w] = IF start(middle) < r.start THEN b[up] ELSE b[down]
        <5>1. b[w] = Bisected(b, items, r, w)
          BY <1>3
        <5>2. ~(w.lo >= w.hi)
          BY <1>1, <3>2 DEF Windows
        <5>3. QED
          BY <5>1, <5>2 DEF Bisected
      <4> HIDE DEF middle, up, down
      <4>3. CASE start(middle) < r.start
        <5>1. \A j \in 1..n : j < up.lo => start(j) < r.start
          BY <1>1, <1>2, <4>1, <4>3
        <5>2. Brackets(up)
          BY <2>1, <4>1, <5>1
        <5>3. QED
          BY <1>5, <4>1, <4>2, <4>3, <5>2
      <4>4. CASE ~(start(middle) < r.start)
        <5>1. \A j \in 1..n : j >= down.hi => start(j) >= r.start
          BY <1>1, <1>2, <4>1, <4>4
        <5>2. Brackets(down)
          BY <2>1, <4>1, <5>1
        <5>3. QED
          BY <1>5, <4>1, <4>2, <4>4, <5>2
      <4>5. QED
        BY <4>3, <4>4
    <3>3. QED
      BY <2>1, <3>1, <3>2 DEF Windows
  <2>2. QED
    BY <2>1
<1>6. n \in S
  <2> HIDE DEF S
  <2>1. QED
    BY <1>1, <1>4, <1>5, SetInduction
<1>7. CASE n > 0 /\ start(n) < r.start
  <2>1. \A j \in 1..n : start(j) < r.start
    BY <1>1, <1>2, <1>7
  <2>2. QED
    BY <1>1, <1>3, <1>7, <2>1 DEF n
<1>8. CASE ~(n > 0 /\ start(n) < r.start)
  <2> DEFINE whole == [lo |-> 1, hi |-> n + 1]
  <2>1. whole \in Windows(n) /\ whole.lo <= whole.hi /\ whole.hi - whole.lo <= n
    BY <1>1 DEF Windows
  <2>2. Brackets(whole)
    BY <1>1
  <2>3. Found(b[whole])
    BY <1>6, <2>1, <2>2
  <2>4. QED
    BY <1>3, <1>8, <2>3 DEF n
<1>9. QED
  BY <1>7, <1>8

\* A search that meets no duplicate shows that the list has none.
LEMMA SearchFindsDuplicates ==
  ASSUME NEW items \in Seq(Edit), ConflictFree(items), NEW r \in Ranges,
         NEW i \in DOMAIN items, IsDuplicate(items, i, r)
  PROVE  SearchIndex(items, r) = i
<1> DEFINE k == SearchIndex(items, r)
<1>1. k \in 1..(Len(items) + 1) /\ \A j \in 1..Len(items) : items[j].start < r.start <=> j < k
  BY SearchFinds
<1> HIDE DEF k
<1>2. i \in 1..Len(items) /\ items[i].start = r.start
  BY DEF IsDuplicate
<1>3. \A j \in 1..Len(items) : items[j].start \in Int
  BY DEF Edit, Positions
<1>4. \A j \in 1..Len(items) : j < i => items[j].start < items[i].start
  BY <1>2 DEF ConflictFree
<1>5. ~(i < k)
  BY <1>1, <1>2, <1>3
<1>6. CASE k < i
  <2>1. k \in 1..Len(items) /\ items[k].start < r.start
    BY <1>1, <1>2, <1>4, <1>6
  <2>2. QED
    BY <1>1, <2>1
<1>7. QED
  BY <1>1, <1>2, <1>5, <1>6 DEF k

-----------------------------------------------------------------------------
(* Refusals.                                                               *)

\* A call that reports no refused insertion.
NoRefusal ==
  ~ (last.call \in {"insert", "deduplicated", "batch"} /\ last.status = "unsupported")

\* A refused insertion met a conflict.
LEMMA RefusedInsert ==
  ASSUME ListInvariant, NEW call, NEW h \in Handles, NEW r \in Ranges, NEW t,
         Insert(call, h, r, t),
         call # "insert" => ~\E i \in DOMAIN Items(h) : IsDuplicate(Items(h), i, r)
  PROVE  RefusalHasAConflict'
<1>1. CASE last' = Returned(call, "ok") \/ last' = Returned(call, "no_memory")
  BY <1>1 DEF Returned, RefusalHasAConflict
<1>2. CASE Refuses(Items(h), r) /\ last' = Refused(call, h, r) /\ list' = list
  <2>1. last'.call = call /\ last'.handle = h /\ last'.range = r
    BY <1>2 DEF Refused
  <2>2. Items(h)' = Items(h)
    BY <1>2 DEF Items
  <2>3. Items(h) \in Seq(Edit)
    BY DEF ListInvariant, TypeOK, Items
  <2>4. ~Available(Items(h), r)
    BY <1>2, <2>3 DEF Refuses, NeighbourConflict, Available
  <2>5. Items(last.handle)' = Items(h)
    BY <2>1, <1>2 DEF Items
  <2>6. ~Available(Items(last.handle), last.range)'
    BY <2>1, <2>4, <2>5 DEF Available
  <2>7. last'.call # "insert" =>
          ~\E i \in DOMAIN Items(last.handle)' : IsDuplicate(Items(last.handle)', i, last'.range)
    BY <2>1, <2>5
  <2>8. QED
    BY <2>6, <2>7 DEF RefusalHasAConflict, IsDuplicate
<1>3. QED
  BY <1>1, <1>2 DEF Insert

\* The deduplicating insertion is refused only where it found no duplicate.
LEMMA RefusedDeduplicated ==
  ASSUME ListInvariant, NEW call, NEW h \in Handles, NEW r \in Ranges, NEW t,
         InsertDeduplicated(call, h, r, t)
  PROVE  RefusalHasAConflict'
<1> DEFINE k == SearchIndex(Items(h), r)
<1>1. CASE IsDuplicate(Items(h), k, r)
  <2>1. last' = Returned(call, "ok") \/ last' = Returned(call, "no_memory")
    BY <1>1 DEF InsertDeduplicated, ReplaceDuplicate
  <2>2. QED
    BY <2>1 DEF Returned, RefusalHasAConflict
<1>2. CASE ~IsDuplicate(Items(h), k, r)
  <2>1. Items(h) \in Seq(Edit) /\ ConflictFree(Items(h))
    BY DEF ListInvariant, TypeOK, NoTwoEditsConflict, Items
  <2>2. ~\E i \in DOMAIN Items(h) : IsDuplicate(Items(h), i, r)
    BY <1>2, <2>1, SearchFindsDuplicates
  <2>3. Insert(call, h, r, t)
    BY <1>2 DEF InsertDeduplicated
  <2>4. QED
    BY <2>2, <2>3, RefusedInsert
<1>3. QED
  BY <1>1, <1>2

\* Every refusal is justified when it is reported, and what the last call
\* reported is replaced by every step that could change the list.
LEMMA NextJustifiesRefusals ==
  ListInvariant /\ RefusalHasAConflict /\ [Next]_vars => RefusalHasAConflict'
<1> SUFFICES ASSUME ListInvariant, RefusalHasAConflict, [Next]_vars
             PROVE  RefusalHasAConflict'
  OBVIOUS
<1>1. NoRefusal' => RefusalHasAConflict'
  BY DEF NoRefusal, RefusalHasAConflict
<1>2. CASE UNCHANGED vars
  BY <1>2 DEF vars, RefusalHasAConflict, Available, IsDuplicate, Items
<1>3. ASSUME NEW t \in Texts, Render(t) PROVE NoRefusal'
  BY <1>3 DEF Render, Quiet, NoRefusal
<1>4. ASSUME NEW t \in Texts, PlanStep(t) PROVE NoRefusal'
  <2>1. plan.kind \in {"columns", "pair"}
    BY <1>4 DEF PlanStep, Idle, ListInvariant, TypeOK, NoPlan
  <2>2. last'.call \in {"none", "columns", "pair"}
    BY <1>4, <2>1 DEF PlanStep, Quiet, Returned
  <2>3. QED
    BY <2>2 DEF NoRefusal
<1>5. ASSUME Discard PROVE NoRefusal'
  BY <1>5 DEF Discard, Quiet, NoRefusal
<1>6. ASSUME NEW h \in Handles, BatchBegin(h) \/ Release(h) PROVE NoRefusal'
  BY <1>6 DEF BatchBegin, Release, Quiet, NoRefusal
<1>7. ASSUME NEW h \in Handles, Restore(h) PROVE NoRefusal'
  <2>1. last'.call = "restore"
    BY <1>7 DEF Restore
  <2>2. QED
    BY <2>1 DEF NoRefusal
<1>8. ASSUME NEW h \in Handles, NEW r \in Ranges, NEW t \in Texts, PlainInsert(h, r, t)
      PROVE  RefusalHasAConflict'
  BY <1>8, RefusedInsert DEF PlainInsert
<1>9. ASSUME NEW h \in Handles, NEW r \in Ranges, NEW t \in Texts, DeduplicatedInsert(h, r, t)
      PROVE  RefusalHasAConflict'
  BY <1>9, RefusedDeduplicated DEF DeduplicatedInsert
<1>10. ASSUME NEW h \in Handles, NEW r \in Ranges, NEW t \in Texts, BatchInsert(h, r, t)
       PROVE  RefusalHasAConflict'
  <2>1. CASE InsertDeduplicated("batch", h, r, t)
    BY <2>1, RefusedDeduplicated
  <2>2. CASE last'.call = "over"
    BY <1>1, <2>2 DEF NoRefusal
  <2>3. QED
    BY <1>10, <2>1, <2>2 DEF BatchInsert, Returned
<1>11. ASSUME NEW h \in Handles, NEW ranges \in ColumnRanges, PlanColumns(h, ranges)
       PROVE  NoRefusal'
  BY <1>11 DEF PlanColumns, Quiet, Returned, NoRefusal
<1>12. ASSUME NEW h \in Handles, NEW first \in Ranges, NEW second \in Ranges,
              PlanPair(h, first, second)
       PROVE  NoRefusal'
  BY <1>12 DEF PlanPair, Quiet, Returned, NoRefusal
<1>13. ASSUME NEW g \in Handles, NEW h \in Handles, Clone(g, h) PROVE NoRefusal'
  <2>1. last' = Quiet \/ last' = Returned("clone", "no_memory")
    BY <1>13, Zenon DEF Clone
  <2>2. QED
    BY <2>1 DEF Quiet, Returned, NoRefusal
<1>14. QED
  BY <1>1, <1>2, <1>3, <1>4, <1>5, <1>6, <1>7, <1>8, <1>9, <1>10, <1>11, <1>12, <1>13 DEF Next

\* An insertion is reported unsupported only where an edit of the list really
\* conflicts, and by the deduplicating insertions of surface_edit_insert only
\* where no edit has exactly this range, for every list and every history.
THEOREM RefusalsAreJustified == Spec => []RefusalHasAConflict
<1>1. Init => RefusalHasAConflict
  BY DEF Init, Quiet, RefusalHasAConflict
<1>2. QED
  BY <1>1, InvariantHolds, NextJustifiesRefusals, PTL DEF Spec

-----------------------------------------------------------------------------
(* The SQL to come and its length, edit by edit.                           *)

\* Lengths after the first edits, and the text written up to the end of each;
\* texts holds the replacements.
IsLengths(l, items, texts) ==
  /\ l[0] = Len(Source)
  /\ \A k \in 1..Len(items) :
       l[k] = l[k - 1] - (items[k].end - items[k].start) + Len(texts[items[k].text])
  /\ \A k \in 0..Len(items) : l[k] \in Int

IsWritten(w, items, texts) ==
  /\ w[0] = <<>>
  /\ \A k \in 1..Len(items) :
       w[k] = w[k - 1] \o SubSeq(Source, Cursor(items, k) + 1, items[k].start)
                \o texts[items[k].text]
  /\ \A k \in 0..Len(items) : w[k] \in Seq(Int)

TextsLive(items, texts) == \A k \in 1..Len(items) : texts[items[k].text] \in Seq(Int)

\* Positions of an edit are positions of the source.
LEMMA EditPositions ==
  ASSUME NEW items \in Seq(Edit), NEW k \in 1..Len(items)
  PROVE  /\ items[k].start \in 0..Len(Source) /\ items[k].end \in 0..Len(Source)
         /\ items[k].start <= items[k].end
         /\ items[k].start \in Int /\ items[k].end \in Int /\ Len(Source) \in Nat
<1>1. items[k] \in Edit
  OBVIOUS
<1>2. Len(Source) \in Nat
  BY SourceAssumption
<1>3. QED
  BY <1>1, <1>2 DEF Edit, Positions

\* The lengths as a function of the number of edits.
LengthsFrom(l, items, texts) ==
  l = [k \in 0..Len(items) |->
         IF k = 0 THEN Len(Source)
         ELSE l[k - 1] - (items[k].end - items[k].start) + Len(texts[items[k].text])]

\* There is such a function, and its values are numbers.
LEMMA LengthsExist ==
  ASSUME NEW items \in Seq(Edit), NEW texts, TextsLive(items, texts)
  PROVE  /\ \E l : LengthsFrom(l, items, texts)
         /\ \A l : LengthsFrom(l, items, texts) => IsLengths(l, items, texts)
<1> DEFINE n == Len(items)
           removed(k) == items[k].end - items[k].start
           added(k) == Len(texts[items[k].text])
           step == [k \in 1..n |-> [v \in Int |-> v - removed(k) + added(k)]]
           Defined(l) ==
             l = [k \in 0..n |-> IF k = 0 THEN Len(Source) ELSE l[k - 1] - removed(k) + added(k)]
<1>1. n \in Nat /\ Len(Source) \in Int
  BY SourceAssumption
<1>2. \A k \in 1..n : removed(k) \in Int /\ added(k) \in Int
  <2>1. ASSUME NEW k \in 1..n PROVE removed(k) \in Int
    BY EditPositions
  <2>2. ASSUME NEW k \in 1..n PROVE added(k) \in Int
    BY DEF TextsLive
  <2>3. QED
    BY <2>1, <2>2
<1> HIDE DEF n, removed, added
<1>3. step \in [1..n -> [Int -> Int]]
  BY <1>2
<1>4. \A k \in 1..n, v \in Int : step[k][v] = v - removed(k) + added(k)
  OBVIOUS
<1> HIDE DEF step
<1>5. \E l : Defined(l)
  <2>1. PICK g : Stepwise(g, Len(Source), n, step, Int)
    BY <1>1, <1>3, StepwiseExists
  <2>2. ASSUME NEW k \in 1..n PROVE g[k] = g[k - 1] - removed(k) + added(k)
    <3>1. k - 1 \in 0..n
      BY <1>1
    <3>2. QED
      BY <1>4, <2>1, <3>1 DEF Stepwise
  <2>3. Defined(g)
    BY <1>1, <2>1, <2>2 DEF Stepwise
  <2>4. QED
    BY <2>3
<1>6. ASSUME NEW l, Defined(l) PROVE IsLengths(l, items, texts)
  <2>1. l[0] = Len(Source) /\ \A k \in 1..n : l[k] = l[k - 1] - removed(k) + added(k)
    BY <1>1, <1>6
  <2>2. \A k \in 1..n : l[k - 1] \in Int => l[k] = step[k][l[k - 1]]
    BY <1>4, <2>1
  <2>3. \A k \in 0..n : l[k] \in Int
    BY ONLY <1>1, <1>3, <2>1, <2>2, StepwiseTyped
  <2>4. QED
    BY <2>1, <2>3 DEF IsLengths, n, removed, added
<1>7. \A l : Defined(l) <=> LengthsFrom(l, items, texts)
  BY DEF LengthsFrom, n, removed, added
<1>8. QED
  BY <1>5, <1>6, <1>7

\* PrefixLength is one of them.
LEMMA PrefixLengthFacts ==
  ASSUME NEW items \in Seq(Edit), TextsLive(items, heap)
  PROVE  \E l : IsLengths(l, items, heap) /\ \A k : PrefixLength(items, k) = l[k]
<1> DEFINE l == CHOOSE l : LengthsFrom(l, items, heap)
<1>1. LengthsFrom(l, items, heap)
  BY LengthsExist
<1>2. \A k : PrefixLength(items, k) = l[k]
  BY DEF PrefixLength, LengthsFrom
<1> HIDE DEF l
<1>3. IsLengths(l, items, heap)
  BY <1>1, LengthsExist
<1>4. QED
  BY <1>2, <1>3

\* What restore_source_edits has written after the first edits.
LEMMA RenderedFacts ==
  ASSUME NEW items \in Seq(Edit), TextsLive(items, heap)
  PROVE  \E w : /\ IsWritten(w, items, heap)
                /\ Rendered(items) = w[Len(items)]
                     \o SubSeq(Source, Cursor(items, Len(items) + 1) + 1, Len(Source))
<1> DEFINE n == Len(items)
           kept(k) == SubSeq(Source, Cursor(items, k) + 1, items[k].start)
           text(k) == heap[items[k].text]
           step == [k \in 1..n |-> [v \in Seq(Int) |-> v \o kept(k) \o text(k)]]
           Defined(w) ==
             w = [k \in 0..n |-> IF k = 0 THEN <<>> ELSE w[k - 1] \o kept(k) \o text(k)]
<1>1. n \in Nat /\ <<>> \in Seq(Int)
  OBVIOUS
<1>2. \A k \in 1..n : kept(k) \in Seq(Int) /\ text(k) \in Seq(Int)
  <2>1. ASSUME NEW k \in 1..n PROVE kept(k) \in Seq(Int)
    <3>1. Cursor(items, k) + 1 \in Int /\ items[k].start \in Int
      BY EditPositions DEF Cursor
    <3>2. Cursor(items, k) + 1 >= 1 /\ items[k].start <= Len(Source)
      BY EditPositions DEF Cursor
    <3> HIDE DEF n
    <3>3. QED
      BY <3>1, <3>2, SourceAssumption
  <2>2. ASSUME NEW k \in 1..n PROVE text(k) \in Seq(Int)
    BY DEF TextsLive
  <2>3. QED
    BY <2>1, <2>2
<1> DEFINE w == CHOOSE w : Defined(w)
<1>3. Rendered(items) = w[n] \o SubSeq(Source, Cursor(items, n + 1) + 1, Len(Source))
  BY DEF Rendered
<1> HIDE DEF w, n, kept, text
<1>4. step \in [1..n -> [Seq(Int) -> Seq(Int)]]
  BY <1>2
<1>5. \A k \in 1..n, v \in Seq(Int) : step[k][v] = v \o kept(k) \o text(k)
  OBVIOUS
<1> HIDE DEF step
<1>6. \E g : Defined(g)
  <2>1. PICK g : Stepwise(g, <<>>, n, step, Seq(Int))
    BY <1>1, <1>4, StepwiseExists
  <2>2. ASSUME NEW k \in 1..n PROVE g[k] = g[k - 1] \o kept(k) \o text(k)
    <3>1. k - 1 \in 0..n
      BY <1>1
    <3>2. QED
      BY <1>5, <2>1, <3>1 DEF Stepwise
  <2>3. Defined(g)
    BY <1>1, <2>1, <2>2 DEF Stepwise
  <2>4. QED
    BY <2>3
<1>7. Defined(w)
  BY <1>6 DEF w
<1>8. w[0] = <<>> /\ \A k \in 1..n : w[k] = w[k - 1] \o kept(k) \o text(k)
  BY <1>1, <1>7
<1>9. \A k \in 0..n : w[k] \in Seq(Int)
  <2>1. \A k \in 1..n : w[k - 1] \in Seq(Int) => w[k] = step[k][w[k - 1]]
    BY <1>5, <1>8
  <2>2. QED
    BY ONLY <1>1, <1>4, <1>8, <2>1, StepwiseTyped
<1>10. QED
  BY <1>3, <1>8, <1>9 DEF IsWritten, n, kept, text

\* The cursor never passes the next edit: an edit ends where or before the
\* next one starts.
LEMMA CursorFacts ==
  ASSUME NEW items \in Seq(Edit), ConflictFree(items)
  PROVE  /\ \A k \in 1..(Len(items) + 1) : Cursor(items, k) \in 0..Len(Source)
         /\ \A k \in 1..Len(items) : Cursor(items, k) <= items[k].start
         /\ \A k \in 1..Len(items) : Cursor(items, k + 1) = items[k].end
<1>1. Len(items) \in Nat /\ Len(Source) \in Nat
  BY SourceAssumption
<1>2. ASSUME NEW k \in 1..(Len(items) + 1) PROVE Cursor(items, k) \in 0..Len(Source)
  <2>1. CASE k = 1
    BY <1>1, <2>1 DEF Cursor
  <2>2. CASE k # 1
    <3>1. k - 1 \in 1..Len(items) /\ Cursor(items, k) = items[k - 1].end
      BY <1>1, <2>2 DEF Cursor
    <3>2. QED
      BY <3>1, EditPositions
  <2>3. QED
    BY <2>1, <2>2
<1>3. ASSUME NEW k \in 1..Len(items) PROVE Cursor(items, k) <= items[k].start
  <2>1. CASE k = 1
    BY <1>1, <2>1, EditPositions DEF Cursor
  <2>2. CASE k # 1
    <3>1. k - 1 \in 1..Len(items) /\ Cursor(items, k) = items[k - 1].end
      BY <1>1, <2>2 DEF Cursor
    <3>2. items[k - 1].start < items[k].start /\ ~Overlap(items[k - 1], items[k])
      BY <1>1, <3>1 DEF ConflictFree
    <3>3. /\ items[k - 1].start \in Int /\ items[k - 1].end \in Int
          /\ items[k - 1].start <= items[k - 1].end
          /\ items[k].start \in Int /\ items[k].end \in Int /\ items[k].start <= items[k].end
      BY <3>1, EditPositions
    <3>4. QED
      BY <3>1, <3>2, <3>3 DEF Overlap
  <2>3. QED
    BY <2>1, <2>2
<1>4. \A k \in 1..Len(items) : Cursor(items, k + 1) = items[k].end
  BY <1>1 DEF Cursor
<1>5. QED
  BY <1>2, <1>3, <1>4

\* A stretch of the source.
LEMMA StretchFacts ==
  ASSUME NEW a \in 0..Len(Source), NEW b \in 0..Len(Source), a <= b
  PROVE  /\ SubSeq(Source, a + 1, b) \in Seq(Int)
         /\ Len(SubSeq(Source, a + 1, b)) = b - a
BY SourceAssumption

\* What is written and what is left of the source make up the length so far.
LEMMA WrittenLengths ==
  ASSUME NEW items \in Seq(Edit), ConflictFree(items), NEW texts, TextsLive(items, texts),
         NEW l, IsLengths(l, items, texts), NEW w, IsWritten(w, items, texts)
  PROVE  \A k \in 0..Len(items) : l[k] = Len(w[k]) + Len(Source) - Cursor(items, k + 1)
<1> DEFINE n == Len(items)
           S == {k \in Nat : l[k] = Len(w[k]) + Len(Source) - Cursor(items, k + 1)}
<1>1. n \in Nat /\ Len(Source) \in Nat
  BY SourceAssumption
<1>2. 0 \in S
  <2>1. Len(w[0]) = 0 /\ l[0] = Len(Source) /\ Cursor(items, 0 + 1) = 0
    BY DEF IsLengths, IsWritten, Cursor
  <2>2. QED
    BY <1>1, <2>1
<1>3. ASSUME NEW k \in 0..(n - 1), k \in S PROVE k + 1 \in S
  <2> DEFINE i == k + 1
             kept == SubSeq(Source, Cursor(items, i) + 1, items[i].start)
             text == texts[items[i].text]
  <2>1. i \in 1..n /\ i \in Nat /\ i - 1 = k /\ k \in 0..n
    BY <1>1
  <2> HIDE DEF i
  <2>2. /\ Cursor(items, i) \in 0..Len(Source) /\ Cursor(items, i) <= items[i].start
        /\ Cursor(items, i + 1) = items[i].end
    BY <1>1, <2>1, CursorFacts
  <2>3. items[i].start \in 0..Len(Source) /\ items[i].end \in 0..Len(Source)
    BY <2>1, EditPositions
  <2>4. kept \in Seq(Int) /\ Len(kept) = items[i].start - Cursor(items, i)
    BY <2>2, <2>3, StretchFacts
  <2>5. text \in Seq(Int) /\ w[k] \in Seq(Int)
    BY <2>1 DEF TextsLive, IsWritten
  <2>6. w[i] = w[k] \o kept \o text /\ l[i] = l[k] - (items[i].end - items[i].start) + Len(text)
    BY <2>1 DEF IsWritten, IsLengths
  <2> HIDE DEF kept, text
  <2>7. Len(w[i]) = Len(w[k]) + Len(kept) + Len(text)
    <3>1. w[k] \o kept \in Seq(Int) /\ Len(w[k] \o kept) = Len(w[k]) + Len(kept)
      BY <2>4, <2>5, ConcatProperties
    <3>2. Len((w[k] \o kept) \o text) = Len(w[k] \o kept) + Len(text)
      BY <2>5, <3>1, ConcatProperties
    <3>3. QED
      BY <2>6, <3>1, <3>2
  <2>8. l[k] = Len(w[k]) + Len(Source) - Cursor(items, i)
    BY <1>3 DEF i
  <2>9. Len(w[k]) \in Nat /\ Len(text) \in Nat /\ Len(kept) \in Nat
    BY <2>4, <2>5
  <2>10. l[i] = Len(w[i]) + Len(Source) - Cursor(items, i + 1)
    <3>1. /\ items[i].start \in Int /\ items[i].end \in Int
          /\ Cursor(items, i) \in Int /\ Len(Source) \in Int
      BY <1>1, <2>2, <2>3
    <3>2. Len(w[k]) \in Int /\ Len(text) \in Int /\ Len(kept) \in Int
      BY <2>9
    <3>3. /\ l[i] = l[k] - (items[i].end - items[i].start) + Len(text)
          /\ Len(kept) = items[i].start - Cursor(items, i)
      BY <2>4, <2>6
    <3> DEFINE s == items[i].start
               e == items[i].end
               c == Cursor(items, i)
               x == Len(w[k])
               t == Len(text)
               m == Len(Source)
    <3>4. s \in Int /\ e \in Int /\ c \in Int /\ x \in Int /\ t \in Int /\ m \in Int
      BY <3>1, <3>2
    <3>5. /\ l[i] = l[k] - (e - s) + t /\ l[k] = x + m - c
          /\ Len(w[i]) = x + (s - c) + t /\ Cursor(items, i + 1) = e
      BY <2>2, <2>7, <2>8, <3>3
    <3> HIDE DEF s, e, c, x, t, m
    <3>6. l[i] = (x + (s - c) + t) + m - e
      BY ONLY <3>4, <3>5
    <3>7. QED
      BY <3>5, <3>6 DEF m
  <2>11. QED
    BY <2>1, <2>10 DEF i
<1>4. 0 \in Int /\ n \in Int /\ 0 <= n
  BY <1>1
<1> HIDE DEF S, n
<1>5. 0..n \subseteq S
  BY ONLY <1>2, <1>3, <1>4, IntervalInduction
<1>6. QED
  BY <1>5 DEF S, n

\* The length of the rendered SQL is the sum of the edits.
LEMMA RenderedLength ==
  ASSUME NEW items \in Seq(Edit), ConflictFree(items), TextsLive(items, heap)
  PROVE  \E l : /\ IsLengths(l, items, heap) /\ \A k : PrefixLength(items, k) = l[k]
                /\ Rendered(items) \in Seq(Int)
                /\ Len(Rendered(items)) = l[Len(items)]
<1> DEFINE n == Len(items)
           rest == SubSeq(Source, Cursor(items, n + 1) + 1, Len(Source))
<1>1. PICK l : IsLengths(l, items, heap) /\ \A k : PrefixLength(items, k) = l[k]
  BY PrefixLengthFacts
<1>2. PICK w : IsWritten(w, items, heap) /\ Rendered(items) = w[n] \o rest
  BY RenderedFacts
<1>3. n \in Nat /\ n \in 0..n /\ n + 1 \in 1..(n + 1)
  OBVIOUS
<1>4. Cursor(items, n + 1) \in 0..Len(Source) /\ Len(Source) \in Nat
  BY <1>3, CursorFacts, SourceAssumption
<1>5. rest \in Seq(Int) /\ Len(rest) = Len(Source) - Cursor(items, n + 1)
  BY <1>4, StretchFacts
<1>6. w[n] \in Seq(Int)
  BY <1>2, <1>3 DEF IsWritten
<1>7. l[n] = Len(w[n]) + Len(Source) - Cursor(items, n + 1)
  BY <1>1, <1>2, <1>3, WrittenLengths
<1> HIDE DEF rest, n
<1>8. Rendered(items) \in Seq(Int) /\ Len(Rendered(items)) = Len(w[n]) + Len(rest)
  BY <1>2, <1>5, <1>6, ConcatProperties
<1>9. Len(Rendered(items)) = l[n]
  BY <1>4, <1>5, <1>6, <1>7, <1>8
<1>10. QED
  BY <1>1, <1>8, <1>9 DEF n

-----------------------------------------------------------------------------
(* The running length of a batch.                                          *)

\* What one edit adds to the length.
Gain(items, texts, k) ==
  Len(texts[items[k].text]) - (items[k].end - items[k].start)

\* Each edit adds its gain.
LEMMA GainFacts ==
  ASSUME NEW items \in Seq(Edit), NEW texts, TextsLive(items, texts),
         NEW l, IsLengths(l, items, texts), NEW k \in 1..Len(items)
  PROVE  l[k] = l[k - 1] + Gain(items, texts, k) /\ Gain(items, texts, k) \in Int
<1> DEFINE first == items[k].start
           final == items[k].end
           added == Len(texts[items[k].text])
           before == l[k - 1]
<1>1. first \in Int /\ final \in Int
  BY EditPositions
<1>2. added \in Int
  BY DEF TextsLive
<1>3. before \in Int
  <2>1. k - 1 \in 0..Len(items)
    OBVIOUS
  <2>2. QED
    BY <2>1 DEF IsLengths
<1>4. l[k] = before - (final - first) + added
  BY DEF IsLengths
<1>5. Gain(items, texts, k) = added - (final - first)
  BY DEF Gain
<1> HIDE DEF first, final, added, before
<1>6. l[k] = before + (added - (final - first)) /\ added - (final - first) \in Int
  BY ONLY <1>1, <1>2, <1>3, <1>4
<1>7. QED
  BY <1>5, <1>6 DEF before

\* Over the stretch after a, up to z, the edits add what those after b add.
SameOver(items, texts, a, z, others, olds, b) ==
  \A k \in 1..(z - a) : Gain(items, texts, a + k) = Gain(others, olds, b + k)

\* From a to z the one length grows as the other does from b to y.
GrowAlike(l, a, z, o, b, y) == l[z] - l[a] = o[y] - o[b]

\* Lists whose edits add the same over a stretch grow by the same.
LEMMA SameGains ==
  ASSUME NEW items \in Seq(Edit), NEW texts, TextsLive(items, texts),
         NEW others \in Seq(Edit), NEW olds, TextsLive(others, olds),
         NEW l, IsLengths(l, items, texts), NEW o, IsLengths(o, others, olds),
         NEW a \in Nat, NEW z \in Nat, NEW b \in Nat, NEW y \in Nat,
         a <= z, z <= Len(items), y = b + (z - a), y <= Len(others),
         SameOver(items, texts, a, z, others, olds, b)
  PROVE  GrowAlike(l, a, z, o, b, y)
<1> DEFINE m == z - a
           n == Len(items)
           c == Len(others)
           S == {k \in Nat : l[a + k] - l[a] = o[b + k] - o[b]}
<1>1. /\ n \in Nat /\ c \in Nat /\ m \in Nat /\ a + m <= n /\ b + m <= c
      /\ a + m = z /\ b + m = y
  OBVIOUS
<1>2. /\ \A k \in 0..n : l[k] \in Int
      /\ \A k \in 0..c : o[k] \in Int
  BY DEF IsLengths
<1>3. ASSUME NEW k \in 1..n
      PROVE  l[k] = l[k - 1] + Gain(items, texts, k) /\ Gain(items, texts, k) \in Int
  BY GainFacts
<1>4. ASSUME NEW k \in 1..c
      PROVE  o[k] = o[k - 1] + Gain(others, olds, k) /\ Gain(others, olds, k) \in Int
  BY GainFacts
<1> HIDE DEF n, c
<1>5. \A k \in 1..m : Gain(items, texts, a + k) = Gain(others, olds, b + k)
  BY DEF SameOver
<1> HIDE DEF m
<1>6. 0 \in S
  <2>1. l[a + 0] = l[a] /\ o[b + 0] = o[b] /\ l[a] \in Int /\ o[b] \in Int
    BY <1>1, <1>2
  <2>2. QED
    BY <2>1
<1>7. ASSUME NEW k \in 0..(m - 1), k \in S PROVE k + 1 \in S
  <2>1. /\ a + (k + 1) \in 1..n /\ b + (k + 1) \in 1..c /\ k + 1 \in 1..m /\ k + 1 \in Nat
        /\ (a + (k + 1)) - 1 = a + k /\ (b + (k + 1)) - 1 = b + k
        /\ a \in 0..n /\ b \in 0..c /\ a + k \in 0..n /\ b + k \in 0..c
    BY <1>1
  <2>2. l[a + (k + 1)] = l[a + k] + Gain(items, texts, a + (k + 1))
    BY <1>3, <2>1
  <2>3. o[b + (k + 1)] = o[b + k] + Gain(others, olds, b + (k + 1))
    BY <1>4, <2>1
  <2>4. /\ Gain(items, texts, a + (k + 1)) = Gain(others, olds, b + (k + 1))
        /\ Gain(items, texts, a + (k + 1)) \in Int
    BY <1>3, <1>5, <2>1
  <2>5. l[a] \in Int /\ o[b] \in Int /\ l[a + k] \in Int /\ o[b + k] \in Int
    BY <1>2, <2>1
  <2>6. l[a + k] - l[a] = o[b + k] - o[b]
    BY <1>7
  <2> DEFINE g == Gain(items, texts, a + (k + 1))
             x == l[a + (k + 1)]
             y1 == o[b + (k + 1)]
             x0 == l[a + k]
             y0 == o[b + k]
             la == l[a]
             ob == o[b]
  <2>7. /\ g \in Int /\ x0 \in Int /\ y0 \in Int /\ la \in Int /\ ob \in Int
        /\ x = x0 + g /\ y1 = y0 + g /\ x0 - la = y0 - ob
    BY <2>2, <2>3, <2>4, <2>5, <2>6
  <2> HIDE DEF g, x, y1, x0, y0, la, ob
  <2>8. x - la = y1 - ob
    BY ONLY <2>7
  <2>9. QED
    BY <2>1, <2>8 DEF x, y1, la, ob
<1>8. 0 \in Int /\ m \in Int /\ 0 <= m
  BY <1>1
<1> HIDE DEF S
<1>9. 0..m \subseteq S
  BY ONLY <1>6, <1>7, <1>8, IntervalInduction
<1>10. QED
  <2>1. m \in S
    BY <1>1, <1>9
  <2>2. QED
    BY <1>1, <2>1 DEF S, GrowAlike

\* The length of the SQL that a list of edits makes of the source.
SumIs(items, texts, v) == \E l : IsLengths(l, items, texts) /\ v = l[Len(items)]

\* There is one such length, a number.
LEMMA SumFacts ==
  ASSUME NEW items \in Seq(Edit), NEW texts, TextsLive(items, texts),
         NEW v, SumIs(items, texts, v), NEW u, SumIs(items, texts, u)
  PROVE  v = u /\ v \in Int
<1>1. PICK l : IsLengths(l, items, texts) /\ v = l[Len(items)]
  BY DEF SumIs
<1>2. PICK o : IsLengths(o, items, texts) /\ u = o[Len(items)]
  BY DEF SumIs
<1> DEFINE n == Len(items)
<1>3. n \in Nat /\ 0 \in Nat /\ 0 <= n /\ n <= n /\ n \in 0..n /\ n = 0 + (n - 0)
  OBVIOUS
<1>4. l[n] \in Int /\ o[n] \in Int /\ l[0] = Len(Source) /\ o[0] = Len(Source)
  BY <1>1, <1>2, <1>3 DEF IsLengths
<1>5. SameOver(items, texts, 0, n, items, texts, 0)
  BY DEF SameOver
<1>6. GrowAlike(l, 0, n, o, 0, n)
  BY <1>1, <1>2, <1>3, <1>5, SameGains
<1>7. Len(Source) \in Int
  BY SourceAssumption
<1> HIDE DEF n
<1>8. l[n] = o[n]
  BY <1>4, <1>6, <1>7 DEF GrowAlike
<1>9. QED
  BY <1>1, <1>2, <1>4, <1>8 DEF n

\* The length does not depend on other texts.
LEMMA SumUnchanged ==
  ASSUME NEW items, NEW texts, NEW v, SumIs(items, texts, v), NEW news,
         \A k \in 1..Len(items) : news[items[k].text] = texts[items[k].text]
  PROVE  SumIs(items, news, v)
<1>1. PICK l : IsLengths(l, items, texts) /\ v = l[Len(items)]
  BY DEF SumIs
<1>2. IsLengths(l, items, news)
  BY <1>1 DEF IsLengths
<1>3. QED
  BY <1>1, <1>2 DEF SumIs

\* One more edit adds its text and takes its range away.
LEMMA SumOfInsertion ==
  ASSUME NEW items \in Seq(Edit), NEW texts, TextsLive(items, texts),
         NEW v, SumIs(items, texts, v),
         NEW i \in 1..(Len(items) + 1), NEW e \in Edit,
         NEW news, TextsLive(InsertAt(items, i, e), news),
         \A k \in 1..Len(items) : news[items[k].text] = texts[items[k].text]
  PROVE  SumIs(InsertAt(items, i, e), news, v - (e.end - e.start) + Len(news[e.text]))
<1> DEFINE n == Len(items)
           longer == InsertAt(items, i, e)
<1>1. items \in Seq(Edit) /\ i \in 1..(Len(items) + 1) /\ e \in Edit
  OBVIOUS
<1>2. /\ longer \in Seq(Edit) /\ Len(longer) = n + 1
      /\ \A j \in 1..(n + 1) :
           longer[j] = IF j < i THEN items[j] ELSE IF j = i THEN e ELSE items[j - 1]
  BY ONLY <1>1, InsertAtFacts, SMTT(40)
<1>3. n \in Nat /\ i \in 1..(n + 1)
  OBVIOUS
<1>4. PICK o : IsLengths(o, items, texts) /\ v = o[n]
  BY DEF SumIs
<1>5. TextsLive(longer, news)
  OBVIOUS
<1>6. items \in Seq(Edit) /\ TextsLive(items, texts) /\ n <= Len(items)
  BY <1>3
<1> HIDE DEF n, longer
<1>7. PICK l : IsLengths(l, longer, news)
  BY <1>2, <1>5, LengthsExist
<1>8. l[i - 1] = o[i - 1]
  <2> DEFINE p == i - 1
  <2>1. p \in Nat /\ 0 \in Nat /\ 0 <= p /\ p <= Len(longer) /\ p <= n /\ p = 0 + (p - 0)
    BY <1>2, <1>3
  <2>2. SameOver(longer, news, 0, p, items, texts, 0)
    <3>1. ASSUME NEW k \in 1..(p - 0)
          PROVE  longer[k] = items[k] /\ k \in 1..n /\ 0 + k = k
      BY <1>2, <1>3
    <3>2. QED
      BY <3>1 DEF SameOver, Gain, n
  <2>3. p \in 0..n /\ p \in 0..Len(longer) /\ i - 1 = p
    BY <1>2, <1>3
  <2> HIDE DEF p
  <2>4. GrowAlike(l, 0, p, o, 0, p)
    BY ONLY <1>2, <1>3, <1>4, <1>7, <1>5, <1>6, <2>1, <2>2, SameGains
  <2>5. l[0] = Len(Source) /\ o[0] = Len(Source) /\ l[p] \in Int /\ o[p] \in Int
    BY <1>4, <1>7, <2>3 DEF IsLengths, n
  <2>6. QED
    BY <2>3, <2>4, <2>5, SourceAssumption DEF GrowAlike
<1>9. l[i] = l[i - 1] - (e.end - e.start) + Len(news[e.text])
  <2>1. longer[i] = e /\ i \in 1..Len(longer)
    BY <1>2, <1>3
  <2>2. QED
    BY <1>7, <2>1 DEF IsLengths
<1>10. l[n + 1] - l[i] = o[n] - o[i - 1]
  <2>1. /\ i \in Nat /\ i - 1 \in Nat /\ n + 1 \in Nat /\ i <= n + 1 /\ n + 1 <= Len(longer)
        /\ n = (i - 1) + ((n + 1) - i) /\ n <= n
    BY <1>2, <1>3
  <2>2. SameOver(longer, news, i, n + 1, items, texts, i - 1)
    <3>1. ASSUME NEW k \in 1..((n + 1) - i)
          PROVE  longer[i + k] = items[(i - 1) + k] /\ (i - 1) + k \in 1..n
      <4>1. i + k \in 1..(n + 1) /\ ~(i + k < i) /\ i + k # i /\ (i + k) - 1 = (i - 1) + k
        BY <1>3, <2>1
      <4>2. QED
        BY <1>2, <1>3, <4>1
    <3>2. QED
      BY <3>1 DEF SameOver, Gain, n
  <2> DEFINE p == i - 1
             z == n + 1
  <2>3. /\ p \in Nat /\ z \in Nat /\ i <= z /\ z <= Len(longer) /\ n = p + (z - i)
        /\ SameOver(longer, news, i, z, items, texts, p)
    BY <2>1, <2>2
  <2> HIDE DEF p, z
  <2>4. GrowAlike(l, i, z, o, p, n)
    BY ONLY <1>2, <1>3, <1>4, <1>7, <1>5, <1>6, <2>1, <2>3, SameGains
  <2>5. QED
    BY <2>4 DEF GrowAlike, p, z
<1>11. l[n + 1] = v - (e.end - e.start) + Len(news[e.text])
  <2>1. n + 1 \in 0..Len(longer) /\ i \in 0..Len(longer) /\ i - 1 \in 0..n /\ n \in 0..n
    BY <1>2, <1>3
  <2>2. l[n + 1] \in Int /\ l[i] \in Int /\ o[n] \in Int /\ o[i - 1] \in Int
    BY <1>4, <1>7, <2>1 DEF IsLengths, n
  <2>3. e.start \in Int /\ e.end \in Int
    BY DEF Edit, Positions
  <2>4. longer[i].text = e.text /\ i \in 1..Len(longer)
    BY <1>2, <1>3
  <2>5. news[e.text] \in Seq(Int)
    BY <2>4 DEF TextsLive, longer
  <2>6. Len(news[e.text]) \in Int
    BY <2>5
  <2> DEFINE added == Len(news[e.text])
             first == e.start
             final == e.end
  <2>7. added \in Int /\ first \in Int /\ final \in Int /\ l[i] = l[i - 1] - (final - first) + added
    BY <1>9, <2>3, <2>6
  <2> HIDE DEF added, first, final
  <2>8. l[n + 1] = v - (final - first) + added
    BY ONLY <1>4, <1>8, <1>10, <2>2, <2>7, SMTT(40)
  <2>9. QED
    BY <2>8 DEF added, first, final
<1>12. QED
  BY <1>2, <1>7, <1>11 DEF SumIs, longer

\* A replaced text adds its length and takes the old one's away.
LEMMA SumOfReplacement ==
  ASSUME NEW items \in Seq(Edit), NEW texts, TextsLive(items, texts),
         NEW v, SumIs(items, texts, v),
         NEW i \in 1..Len(items), NEW b \in Buffers,
         NEW news, TextsLive([items EXCEPT ![i].text = b], news),
         \A k \in 1..Len(items) : k # i => news[items[k].text] = texts[items[k].text]
  PROVE  SumIs([items EXCEPT ![i].text = b], news,
               v - Len(texts[items[i].text]) + Len(news[b]))
<1> DEFINE n == Len(items)
           changed == [items EXCEPT ![i].text = b]
<1>1. /\ n \in Nat /\ i \in 1..n /\ Len(changed) = n
      /\ \A k \in 1..n : k # i => changed[k] = items[k]
      /\ changed[i].text = b
      /\ changed[i].start = items[i].start /\ changed[i].end = items[i].end
  <2>1. \A k \in 1..n : items[k] \in Edit
    OBVIOUS
  <2>2. changed[i] = [items[i] EXCEPT !.text = b]
    OBVIOUS
  <2>3. QED
    BY <2>1, <2>2 DEF Edit
<1>2. changed \in Seq(Edit)
  <2>1. ASSUME NEW k \in 1..n PROVE changed[k] \in Edit
    <3>1. items[k] \in Edit
      OBVIOUS
    <3>2. changed[k] = IF k = i THEN [items[i] EXCEPT !.text = b] ELSE items[k]
      OBVIOUS
    <3>3. QED
      BY <3>1, <3>2 DEF Edit
  <2>2. changed = [k \in 1..n |-> changed[k]]
    OBVIOUS
  <2> HIDE DEF changed
  <2>3. QED
    BY <1>1, <2>1, <2>2
<1>3. PICK o : IsLengths(o, items, texts) /\ v = o[n]
  BY DEF SumIs
<1>4. PICK l : IsLengths(l, changed, news)
  BY <1>2, LengthsExist
<1>5. TextsLive(changed, news)
  OBVIOUS
<1>6. items \in Seq(Edit) /\ TextsLive(items, texts) /\ n <= Len(items)
  BY <1>1
<1> HIDE DEF n, changed
<1>7. l[i - 1] = o[i - 1]
  <2> DEFINE p == i - 1
  <2>1. p \in Nat /\ 0 \in Nat /\ 0 <= p /\ p <= Len(changed) /\ p <= n /\ p = 0 + (p - 0)
    BY <1>1, <1>2
  <2>2. SameOver(changed, news, 0, p, items, texts, 0)
    <3>1. ASSUME NEW k \in 1..(p - 0)
          PROVE  changed[k] = items[k] /\ k \in 1..n /\ k # i /\ 0 + k = k
      BY <1>1, <1>2
    <3>2. QED
      BY <3>1 DEF SameOver, Gain, n
  <2>3. p \in 0..n /\ p \in 0..Len(changed) /\ i - 1 = p
    BY <1>1, <1>2
  <2> HIDE DEF p
  <2>4. GrowAlike(l, 0, p, o, 0, p)
    BY ONLY <1>1, <1>2, <1>3, <1>4, <1>5, <1>6, <2>1, <2>2, SameGains
  <2>5. l[0] = Len(Source) /\ o[0] = Len(Source) /\ l[p] \in Int /\ o[p] \in Int
    BY <1>3, <1>4, <2>3 DEF IsLengths, n
  <2>6. QED
    BY <2>3, <2>4, <2>5, SourceAssumption DEF GrowAlike
<1>8. /\ l[i] = l[i - 1] - (items[i].end - items[i].start) + Len(news[b])
      /\ o[i] = o[i - 1] - (items[i].end - items[i].start) + Len(texts[items[i].text])
  BY <1>1, <1>3, <1>4 DEF IsLengths, n
<1>9. l[n] - l[i] = o[n] - o[i]
  <2>1. i \in Nat /\ n \in Nat /\ i <= n /\ n <= n /\ n <= Len(changed) /\ n = i + (n - i)
    BY <1>1
  <2>2. SameOver(changed, news, i, n, items, texts, i)
    <3>1. ASSUME NEW k \in 1..(n - i)
          PROVE  changed[i + k] = items[i + k] /\ i + k \in 1..n /\ i + k # i
      BY <1>1, <2>1
    <3>2. QED
      BY <3>1 DEF SameOver, Gain, n
  <2>3. GrowAlike(l, i, n, o, i, n)
    BY ONLY <1>1, <1>2, <1>3, <1>4, <1>5, <1>6, <2>1, <2>2, SameGains
  <2>4. QED
    BY <2>3 DEF GrowAlike
<1>10. l[n] = v - Len(texts[items[i].text]) + Len(news[b])
  <2>1. n \in 0..n /\ i \in 0..n /\ i - 1 \in 0..n
    BY <1>1
  <2>2. /\ l[n] \in Int /\ l[i] \in Int /\ l[i - 1] \in Int
        /\ o[n] \in Int /\ o[i] \in Int /\ o[i - 1] \in Int
    BY <1>1, <1>3, <1>4, <2>1 DEF IsLengths, n
  <2>3. items[i].start \in Int /\ items[i].end \in Int
    BY EditPositions
  <2>4. news[b] \in Seq(Int) /\ texts[items[i].text] \in Seq(Int)
    BY <1>1 DEF TextsLive, changed, n
  <2>5. Len(news[b]) \in Int /\ Len(texts[items[i].text]) \in Int
    BY <2>4
  <2> DEFINE added == Len(news[b])
             removed == Len(texts[items[i].text])
             width == items[i].end - items[i].start
  <2>6. /\ added \in Int /\ removed \in Int /\ width \in Int
        /\ l[i] = l[i - 1] - width + added /\ o[i] = o[i - 1] - width + removed
    BY <1>8, <2>3, <2>5
  <2> HIDE DEF added, removed, width
  <2>7. o[n] = v
    BY <1>3
  <2> DEFINE x == l[i]
             y == o[i]
             x0 == l[i - 1]
             y0 == o[i - 1]
             z == l[n]
             u == o[n]
  <2>8. /\ x \in Int /\ y \in Int /\ x0 \in Int /\ y0 \in Int /\ z \in Int /\ u \in Int
        /\ x = x0 - width + added /\ y = y0 - width + removed /\ x0 = y0 /\ z - x = u - y
    BY <1>7, <1>9, <2>2, <2>6
  <2> HIDE DEF x, y, x0, y0, z, u
  <2>9. z = u - removed + added
    BY ONLY <2>6, <2>8
  <2>10. QED
    BY <2>7, <2>9 DEF added, removed, z, u
<1>11. QED
  BY <1>1, <1>4, <1>10 DEF SumIs, changed

\* The edits of every list and the texts they stand for.
LiveLists ==
  \A h \in Handles : /\ Items(h) \in Seq(Edit) /\ ConflictFree(Items(h))
                     /\ TextsLive(Items(h), heap)

\* What the invariant says of the texts of a list.
LEMMA LiveListsHold == ListInvariant => LiveLists
<1> SUFFICES ASSUME ListInvariant, NEW h \in Handles
             PROVE  /\ Items(h) \in Seq(Edit) /\ ConflictFree(Items(h))
                    /\ TextsLive(Items(h), heap)
  BY DEF LiveLists
<1>1. Items(h) \in Seq(Edit) /\ ConflictFree(Items(h))
  BY DEF ListInvariant, TypeOK, NoTwoEditsConflict, Items
<1>2. ASSUME NEW k \in 1..Len(Items(h)) PROVE heap[Items(h)[k].text] \in Seq(Int)
  <2>1. k \in DOMAIN Items(h)
    BY <1>1
  <2>2. Items(h)[k].text \in DOMAIN heap
    BY <2>1 DEF ListInvariant, EveryBufferHasOneOwner, AllTexts, TextsOf
  <2>3. heap[Items(h)[k].text] \in Texts
    BY <2>2 DEF ListInvariant, TypeOK
  <2>4. QED
    BY <2>3, TextsAssumption
<1>3. QED
  BY <1>1, <1>2 DEF TextsLive

\* The inductive invariant of the batches: a running length is the sum of the
\* edits, and no plan fills a list that a batch fills.
BatchesExact ==
  /\ \A h \in Handles : running[h] # NULL => SumIs(Items(h), heap, running[h])
  /\ plan.ranges # <<>> => plan.handle \in Handles /\ running[plan.handle] = NULL

\* A step leaves the edits of a list and their texts alone.
KeepsTexts(h) ==
  /\ Items(h)' = Items(h)
  /\ \A k \in 1..Len(Items(h)) : heap'[Items(h)[k].text] = heap[Items(h)[k].text]

\* A step stores an edit of range r with text t, or replaces the text of edit i.
StoresEdit(h, r, t) ==
  \E i \in 1..(Len(Items(h)) + 1), b \in Buffers :
    /\ Items(h)' = InsertAt(Items(h), i, EditOf(r, b)) /\ heap'[b] = t
    /\ \A k \in 1..Len(Items(h)) : heap'[Items(h)[k].text] = heap[Items(h)[k].text]

ReplacesText(h, i, t) ==
  \E b \in Buffers :
    /\ Items(h)' = [Items(h) EXCEPT ![i].text = b] /\ heap'[b] = t
    /\ \A k \in 1..Len(Items(h)) :
         k # i => heap'[Items(h)[k].text] = heap[Items(h)[k].text]

\* Every text of a list is live.
LEMMA ListTextsAreLive ==
  ASSUME ListInvariant, NEW h \in Handles, NEW k \in 1..Len(Items(h))
  PROVE  Items(h)[k].text \in DOMAIN heap /\ Items(h)[k].text \in AllTexts
<1>1. k \in DOMAIN Items(h)
  BY DEF ListInvariant, TypeOK, Items
<1>2. QED
  BY <1>1 DEF ListInvariant, EveryBufferHasOneOwner, AllTexts, TextsOf

\* A new buffer, or one that the caller hands over, is in no list.
LEMMA SuppliedIsNew ==
  ASSUME ListInvariant, NEW t, NEW b \in Buffers, Supply(t, b)
  PROVE  b \notin AllTexts
BY DEF Supply, Fresh, ListInvariant, EveryBufferHasOneOwner, AllTexts

\* An insertion into one list, whatever becomes of it.
LEMMA PlacedEdit ==
  ASSUME ListInvariant, NEW h \in Handles, NEW r \in Ranges, NEW t, NEW b \in Buffers,
         b \notin AllTexts, Place(h, r, b), heap' = HeapWith(b, t)
  PROVE  StoresEdit(h, r, t) /\ \A g \in Handles : g # h => KeepsTexts(g)
<1>1. list \in Lists
  BY DEF ListInvariant, TypeOK, Lists
<1>2. PICK i \in 1..(Len(Items(h)) + 1) :
        list' = [list EXCEPT ![h] =
                   [items |-> InsertAt(@.items, i, EditOf(r, b)), capacity |-> Grown(@)]]
  BY DEF Place
<1>3. Items(h)' = InsertAt(Items(h), i, EditOf(r, b))
  BY <1>1, <1>2 DEF Lists, Items
<1>4. \A g \in Handles : g # h => Items(g)' = Items(g)
  BY <1>1, <1>2 DEF Lists, Items
<1>5. \A c \in DOMAIN heap : c # b => heap'[c] = heap[c]
  BY DEF HeapWith
<1>6. heap'[b] = t
  BY DEF HeapWith
<1>7. ASSUME NEW g \in Handles, NEW k \in 1..Len(Items(g))
      PROVE  heap'[Items(g)[k].text] = heap[Items(g)[k].text]
  BY <1>5, ListTextsAreLive
<1>8. QED
  BY <1>3, <1>4, <1>6, <1>7 DEF StoresEdit, KeepsTexts

\* An insertion stores its edit with its text, or changes no text of the list.
LEMMA InsertedEdit ==
  ASSUME ListInvariant, NEW call, NEW h \in Handles, NEW r \in Ranges, NEW t \in Texts,
         Insert(call, h, r, t)
  PROVE  /\ \A g \in Handles : g # h => KeepsTexts(g)
         /\ \/ StoresEdit(h, r, t) /\ last'.status = "ok"
            \/ KeepsTexts(h) /\ last'.status # "ok"
<1>1. CASE /\ \E b \in Buffers : Supply(t, b) /\ Place(h, r, b) /\ heap' = HeapWith(b, t)
           /\ last' = Returned(call, "ok")
  BY <1>1, SuppliedIsNew, PlacedEdit DEF Returned
<1>2. CASE UNCHANGED <<list, heap>> /\ last'.status # "ok"
  BY <1>2 DEF KeepsTexts, Items
<1>3. QED
  BY <1>1, <1>2 DEF Insert, Refused, Returned

\* The deduplicating insertion where it finds a duplicate.
LEMMA ReplacedText ==
  ASSUME ListInvariant, NEW call, NEW h \in Handles, NEW r \in Ranges, NEW t \in Texts,
         ReplaceDuplicate(call, h, r, t), IsDuplicate(Items(h), SearchIndex(Items(h), r), r)
  PROVE  LET i == SearchIndex(Items(h), r)
         IN  /\ \A g \in Handles : g # h => KeepsTexts(g)
             /\ \/ ReplacesText(h, i, t) /\ last'.status = "ok"
                \/ KeepsTexts(h) /\ heap[Items(h)[i].text] = t /\ last'.status = "ok"
                \/ KeepsTexts(h) /\ last'.status # "ok"
<1> DEFINE i == SearchIndex(Items(h), r)
           old == Items(h)[i].text
<1>1. i \in DOMAIN Items(h)
  BY DEF IsDuplicate
<1> DEFINE Replaced ==
             \E b \in Buffers :
               /\ Supply(t, b)
               /\ heap' = [c \in (DOMAIN heap \cup {b}) \ {old} |->
                             IF c = b THEN t ELSE heap[c]]
               /\ list' = [list EXCEPT ![h].items[i].text = b]
<1>2. \/ UNCHANGED <<list, heap>> /\ heap[old] = t /\ last'.status = "ok"
      \/ UNCHANGED <<list, heap>> /\ last'.status # "ok"
      \/ Replaced /\ last'.status = "ok"
  <2>1. \/ UNCHANGED <<list, heap, owned>> /\ heap[old] = t /\ last' = Returned(call, "ok")
        \/ UNCHANGED <<list, heap, owned>> /\ last' = Returned(call, "no_memory")
        \/ Replaced /\ last' = Returned(call, "ok")
    BY Zenon DEF ReplaceDuplicate
  <2> HIDE DEF Replaced
  <2>2. Returned(call, "ok").status = "ok" /\ Returned(call, "no_memory").status # "ok"
    BY DEF Returned
  <2>3. QED
    BY <2>1, <2>2
<1>3. CASE UNCHANGED <<list, heap>>
  <2>1. \A g \in Handles : KeepsTexts(g)
    BY <1>3 DEF KeepsTexts, Items
  <2>2. CASE heap[old] = t /\ last'.status = "ok"
    BY <2>1, <2>2
  <2>3. CASE last'.status # "ok"
    BY <2>1, <2>3
  <2>4. CASE heap[old] # t /\ last'.status = "ok"
    <3>1. PICK b \in Buffers :
              /\ Supply(t, b)
              /\ heap' = [c \in (DOMAIN heap \cup {b}) \ {old} |->
                            IF c = b THEN t ELSE heap[c]]
      BY <1>2, <2>4
    <3>2. i \in 1..Len(Items(h))
      BY <1>1 DEF ListInvariant, TypeOK, Items
    <3> HIDE DEF i
    <3>3. old \in DOMAIN heap
      BY <3>2, ListTextsAreLive
    <3>4. old \notin DOMAIN heap'
      BY <3>1
    <3>5. QED
      BY <1>3, <3>3, <3>4
  <2>5. QED
    BY <2>2, <2>3, <2>4
<1>4. CASE ~UNCHANGED <<list, heap>>
  <2> HIDE DEF i
  <2>1. PICK b \in Buffers :
          /\ Supply(t, b)
          /\ heap' = [c \in (DOMAIN heap \cup {b}) \ {old} |-> IF c = b THEN t ELSE heap[c]]
          /\ list' = [list EXCEPT ![h].items[i].text = b]
    BY <1>2, <1>4
  <2>2. last'.status = "ok"
    BY <1>2, <1>4
  <2>3. b \notin AllTexts
    BY <2>1, SuppliedIsNew
  <2>4. list \in Lists /\ \A g \in Handles : Items(g) \in Seq(Edit)
    BY DEF ListInvariant, TypeOK, Lists, Items
  <2>5. i \in 1..Len(Items(h))
    BY <1>1, <2>4
  <2>6. old \in AllTexts /\ old # b
    BY <2>3, <2>5, ListTextsAreLive
  <2>7. Items(h)' = [Items(h) EXCEPT ![i].text = b]
    BY <2>1, <2>4 DEF Lists, Items
  <2>8. \A g \in Handles : g # h => Items(g)' = Items(g)
    BY <2>1, <2>4 DEF Lists, Items
  <2>9. heap'[b] = t
    BY <2>1, <2>6
  <2>10. ASSUME NEW g \in Handles, NEW k \in 1..Len(Items(g)), g # h \/ k # i
         PROVE  heap'[Items(g)[k].text] = heap[Items(g)[k].text]
    <3>1. Items(g)[k].text \in DOMAIN heap /\ Items(g)[k].text # b
      BY <2>3, ListTextsAreLive
    <3>2. Items(g)[k].text # old
      <4>1. k \in DOMAIN Items(g)
        BY <2>4
      <4>2. QED
        BY <1>1, <2>10, <4>1 DEF ListInvariant, EveryBufferHasOneOwner
    <3>3. QED
      BY <2>1, <3>1, <3>2
  <2>11. ReplacesText(h, i, t)
    BY <2>7, <2>9, <2>10 DEF ReplacesText
  <2>12. \A g \in Handles : g # h => KeepsTexts(g)
    BY <2>8, <2>10 DEF KeepsTexts
  <2>13. QED
    BY <2>2, <2>11, <2>12 DEF i
<1>5. QED
  BY <1>3, <1>4

\* A list that a step leaves alone keeps its sum.
LEMMA KeptSum ==
  ASSUME NEW h \in Handles, KeepsTexts(h), NEW v, SumIs(Items(h), heap, v)
  PROVE  SumIs(Items(h)', heap', v)
BY SumUnchanged DEF KeepsTexts

\* The insertion of a batch moves the running length as it moves the sum.
LEMMA BatchedEdit ==
  ASSUME ListInvariant, LiveLists', NEW h \in Handles, NEW r \in Ranges, NEW t \in Texts,
         running[h] # NULL, SumIs(Items(h), heap, running[h]),
         InsertDeduplicated("batch", h, r, t),
         running' = IF last'.status = "ok"
                    THEN [running EXCEPT ![h] = BatchLength(h, r, t)] ELSE running
  PROVE  /\ \A g \in Handles : g # h => KeepsTexts(g) /\ running'[g] = running[g]
         /\ SumIs(Items(h)', heap', running'[h])
<1> DEFINE items == Items(h)
           i == SearchIndex(Items(h), r)
           length == running[h]
<1>1. running \in [Handles -> Int \cup {NULL}]
  BY DEF ListInvariant, TypeOK
<1>2. /\ \A g \in Handles : g # h => running'[g] = running[g]
      /\ last'.status = "ok" => running'[h] = BatchLength(h, r, t)
      /\ last'.status # "ok" => running'[h] = length
  BY <1>1
<1>3. items \in Seq(Edit) /\ TextsLive(items, heap)
  BY LiveListsHold DEF LiveLists
<1>4. TextsLive(Items(h)', heap')
  BY DEF LiveLists
<1>5. CASE IsDuplicate(items, i, r)
  <2>1. ReplaceDuplicate("batch", h, r, t)
    BY <1>5 DEF InsertDeduplicated
  <2>2. /\ \A g \in Handles : g # h => KeepsTexts(g)
        /\ \/ ReplacesText(h, i, t) /\ last'.status = "ok"
           \/ KeepsTexts(h) /\ heap[Items(h)[i].text] = t /\ last'.status = "ok"
           \/ KeepsTexts(h) /\ last'.status # "ok"
    BY <1>5, <2>1, ReplacedText
  <2>3. BatchLength(h, r, t) = length - Len(heap[items[i].text]) + Len(t)
    BY <1>5 DEF BatchLength
  <2>4. i \in 1..Len(items)
    BY <1>3, <1>5 DEF IsDuplicate
  <2> HIDE DEF i
  <2>5. CASE ReplacesText(h, i, t) /\ last'.status = "ok"
    <3>1. PICK b \in Buffers :
            /\ Items(h)' = [items EXCEPT ![i].text = b] /\ heap'[b] = t
            /\ \A k \in 1..Len(items) : k # i => heap'[items[k].text] = heap[items[k].text]
      BY <2>5 DEF ReplacesText
    <3> DEFINE news == heap'
               changed == [items EXCEPT ![i].text = b]
    <3>2. TextsLive(changed, news) /\ SumIs(items, heap, length)
      BY <1>4, <3>1
    <3>3. \A k \in 1..Len(items) : k # i => news[items[k].text] = heap[items[k].text]
      BY <3>1
    <3> HIDE DEF news, length, items
    <3>4. SumIs(changed, news, length - Len(heap[items[i].text]) + Len(news[b]))
      BY <1>3, <2>4, <3>2, <3>3, SumOfReplacement
    <3>5. length - Len(heap[items[i].text]) + Len(news[b]) = running'[h]
      BY <1>2, <2>3, <2>5, <3>1 DEF news
    <3>6. SumIs(Items(h)', news, running'[h])
      BY <3>1, <3>4, <3>5
    <3>7. QED
      BY <1>2, <2>2, <3>6 DEF news
  <2>6. CASE KeepsTexts(h) /\ heap[Items(h)[i].text] = t /\ last'.status = "ok"
    <3>1. running'[h] = length
      <4>1. Len(t) \in Int /\ length \in Int
        BY <1>1, TextsAssumption
      <4> HIDE DEF length
      <4>2. QED
        BY <1>2, <2>3, <2>6, <4>1
    <3>2. QED
      BY <1>2, <2>2, <2>6, <3>1, KeptSum
  <2>7. CASE KeepsTexts(h) /\ last'.status # "ok"
    BY <1>2, <2>2, <2>7, KeptSum
  <2>8. QED
    BY <2>2, <2>5, <2>6, <2>7
<1>6. CASE ~IsDuplicate(items, i, r)
  <2>1. Insert("batch", h, r, t)
    BY <1>6 DEF InsertDeduplicated
  <2>2. /\ \A g \in Handles : g # h => KeepsTexts(g)
        /\ \/ StoresEdit(h, r, t) /\ last'.status = "ok"
           \/ KeepsTexts(h) /\ last'.status # "ok"
    BY <2>1, InsertedEdit
  <2>3. BatchLength(h, r, t) = length - (r.end - r.start) + Len(t)
    BY <1>6 DEF BatchLength
  <2> HIDE DEF i
  <2>4. CASE StoresEdit(h, r, t) /\ last'.status = "ok"
    <3>1. PICK k \in 1..(Len(items) + 1), b \in Buffers :
            /\ Items(h)' = InsertAt(items, k, EditOf(r, b)) /\ heap'[b] = t
            /\ \A j \in 1..Len(items) : heap'[items[j].text] = heap[items[j].text]
      BY <2>4 DEF StoresEdit
    <3> DEFINE news == heap'
               e == EditOf(r, b)
    <3>2. e \in Edit /\ e.start = r.start /\ e.end = r.end /\ e.text = b
      BY DEF EditOf, Edit, Ranges
    <3> HIDE DEF e, news, length, items
    <3>3. TextsLive(InsertAt(items, k, e), news) /\ SumIs(items, heap, length)
      BY <1>4, <3>1 DEF e, news, length, items
    <3>4. \A j \in 1..Len(items) : news[items[j].text] = heap[items[j].text]
      BY <3>1 DEF news
    <3>5. SumIs(InsertAt(items, k, e), news, length - (e.end - e.start) + Len(news[e.text]))
      BY <1>3, <3>2, <3>3, <3>4, SumOfInsertion
    <3>6. length - (e.end - e.start) + Len(news[e.text]) = running'[h]
      BY <1>2, <2>3, <2>4, <3>1, <3>2 DEF news
    <3>7. SumIs(Items(h)', news, running'[h])
      BY <3>1, <3>5, <3>6 DEF e
    <3>8. QED
      BY <1>2, <2>2, <3>7 DEF news
  <2>5. CASE KeepsTexts(h) /\ last'.status # "ok"
    BY <1>2, <2>2, <2>5, KeptSum
  <2>6. QED
    BY <2>2, <2>4, <2>5
<1>7. QED
  BY <1>5, <1>6

\* Sums of the lists that a step keeps, with running lengths that it keeps.
LEMMA KeptSums ==
  ASSUME BatchesExact, NEW h \in Handles, KeepsTexts(h), running'[h] = running[h]
  PROVE  running'[h] # NULL => SumIs(Items(h)', heap', running'[h])
BY KeptSum DEF BatchesExact

\* What the steps outside the batches leave alone.
LEMMA OutsideBatches ==
  ASSUME BatchesExact, NEW h \in Handles,
         \A g \in Handles : g # h => KeepsTexts(g) /\ running'[g] = running[g],
         running'[h] = NULL
  PROVE  \A g \in Handles : running'[g] # NULL => SumIs(Items(g)', heap', running'[g])
BY KeptSums

\* No step of the lists makes a running length wrong.
LEMMA NextKeepsBatches ==
  ListInvariant /\ LiveLists' /\ BatchesExact /\ [Next]_vars => BatchesExact'
<1> SUFFICES ASSUME ListInvariant, LiveLists', BatchesExact, [Next]_vars
             PROVE  BatchesExact'
  OBVIOUS
<1> DEFINE Sums == \A g \in Handles : running[g] # NULL => SumIs(Items(g), heap, running[g])
           PlanApart == plan.ranges # <<>> => plan.handle \in Handles /\ running[plan.handle] = NULL
<1>1. running \in [Handles -> Int \cup {NULL}] /\ list \in Lists
  BY DEF ListInvariant, TypeOK, Lists
<1>2. Sums' /\ PlanApart' => BatchesExact'
  BY DEF BatchesExact
<1>3. ASSUME UNCHANGED <<list, heap, running>> PROVE Sums'
  <2>1. \A g \in Handles : KeepsTexts(g) /\ running'[g] = running[g]
    BY <1>3 DEF KeepsTexts, Items
  <2>2. QED
    BY <2>1, KeptSums
<1>4. ASSUME Idle, plan' = plan PROVE PlanApart'
  BY <1>4 DEF Idle
<1>5. CASE UNCHANGED vars
  <2>1. UNCHANGED <<list, heap, running>> /\ UNCHANGED plan
    BY <1>5 DEF vars
  <2>2. PlanApart'
    BY <2>1 DEF BatchesExact
  <2>3. QED
    BY <1>2, <1>3, <2>1, <2>2
<1>6. ASSUME NEW t \in Texts, Render(t) PROVE BatchesExact'
  <2>1. PICK b \in Fresh : heap' = HeapWith(b, t)
    BY <1>6 DEF Render
  <2>2. \A g \in Handles : Items(g)' = Items(g) /\ running'[g] = running[g]
    BY <1>6 DEF Render, Items
  <2>3. ASSUME NEW g \in Handles, NEW k \in 1..Len(Items(g))
        PROVE  heap'[Items(g)[k].text] = heap[Items(g)[k].text]
    <3>1. Items(g)[k].text \in DOMAIN heap
      BY ListTextsAreLive
    <3>2. QED
      BY <2>1, <3>1 DEF HeapWith, Fresh
  <2>4. \A g \in Handles : KeepsTexts(g) /\ running'[g] = running[g]
    BY <2>2, <2>3 DEF KeepsTexts
  <2>5. Sums'
    BY <2>4, KeptSums
  <2>6. QED
    BY <1>2, <1>4, <1>6, <2>5 DEF Render
<1>7. ASSUME Discard PROVE BatchesExact'
  <2>1. heap' = HeapWithout({owned})
    BY <1>7 DEF Discard
  <2>2. \A g \in Handles : Items(g)' = Items(g) /\ running'[g] = running[g]
    BY <1>7 DEF Discard, Items
  <2>3. owned \notin AllTexts
    BY DEF ListInvariant, EveryBufferHasOneOwner, AllTexts
  <2>4. ASSUME NEW g \in Handles, NEW k \in 1..Len(Items(g))
        PROVE  heap'[Items(g)[k].text] = heap[Items(g)[k].text]
    <3>1. Items(g)[k].text \in DOMAIN heap /\ Items(g)[k].text # owned
      BY <2>3, ListTextsAreLive
    <3>2. QED
      BY <2>1, <3>1 DEF HeapWithout
  <2>5. \A g \in Handles : KeepsTexts(g) /\ running'[g] = running[g]
    BY <2>2, <2>4 DEF KeepsTexts
  <2>6. Sums'
    BY <2>5, KeptSums
  <2>7. QED
    BY <1>2, <1>4, <1>7, <2>6 DEF Discard
<1>8. ASSUME NEW h \in Handles, BatchBegin(h) PROVE BatchesExact'
  <2>1. \A g \in Handles : KeepsTexts(g)
    BY <1>8 DEF BatchBegin, KeepsTexts, Items
  <2>2. running'[h] = Len(Source) /\ \A g \in Handles : g # h => running'[g] = running[g]
    BY <1>1, <1>8 DEF BatchBegin
  <2>3. Items(h)' = <<>>
    BY <1>8 DEF BatchBegin, Items
  <2>4. SumIs(Items(h)', heap', running'[h])
    <3> DEFINE empty == <<>>
               news == heap'
    <3>1. empty \in Seq(Edit) /\ TextsLive(empty, news) /\ Len(empty) = 0
      BY DEF TextsLive
    <3> HIDE DEF empty, news
    <3>2. PICK l : IsLengths(l, empty, news)
      BY <3>1, LengthsExist
    <3>3. l[Len(empty)] = Len(Source)
      BY <3>1, <3>2 DEF IsLengths
    <3>4. SumIs(empty, news, Len(Source))
      BY <3>2, <3>3 DEF SumIs
    <3>5. QED
      BY <2>2, <2>3, <3>4 DEF empty, news
  <2>5. Sums'
    BY <2>1, <2>2, <2>4, KeptSums
  <2>6. QED
    BY <1>2, <1>4, <1>8, <2>5 DEF BatchBegin
<1>9. ASSUME NEW h \in Handles, Release(h) PROVE BatchesExact'
  <2>1. running'[h] = NULL /\ \A g \in Handles : g # h => running'[g] = running[g]
    BY <1>1, <1>9 DEF Release
  <2>2. ASSUME NEW g \in Handles, g # h PROVE KeepsTexts(g)
    <3>1. Items(g)' = Items(g)
      BY <1>1, <1>9, <2>2 DEF Release, Lists, Items
    <3>2. ASSUME NEW k \in 1..Len(Items(g))
          PROVE  heap'[Items(g)[k].text] = heap[Items(g)[k].text]
      <4>1. Items(g)[k].text \in DOMAIN heap
        BY ListTextsAreLive
      <4>2. Items(g)[k].text \notin TextsOf(Items(h))
        <5>1. k \in DOMAIN Items(g)
          BY DEF ListInvariant, TypeOK, Items
        <5>2. QED
          BY <2>2, <5>1 DEF ListInvariant, EveryBufferHasOneOwner, TextsOf
      <4>3. QED
        BY <1>9, <4>1, <4>2 DEF Release, HeapWithout
    <3>3. QED
      BY <3>1, <3>2 DEF KeepsTexts
  <2>3. Sums'
    BY <2>1, <2>2, OutsideBatches
  <2>4. QED
    BY <1>2, <1>4, <1>9, <2>3 DEF Release
<1>10. ASSUME NEW h \in Handles, Restore(h) PROVE BatchesExact'
  BY <1>2, <1>3, <1>4, <1>10 DEF Restore
<1>11. ASSUME NEW h \in Handles, NEW r \in Ranges, NEW t \in Texts, PlainInsert(h, r, t)
       PROVE  BatchesExact'
  <2>1. \A g \in Handles : g # h => KeepsTexts(g)
    BY <1>11, InsertedEdit DEF PlainInsert
  <2>2. Sums'
    BY <1>11, <2>1, OutsideBatches DEF PlainInsert
  <2>3. QED
    BY <1>2, <1>4, <1>11, <2>2 DEF PlainInsert
<1>12. ASSUME NEW h \in Handles, NEW r \in Ranges, NEW t \in Texts, DeduplicatedInsert(h, r, t)
       PROVE  BatchesExact'
  <2>1. \A g \in Handles : g # h => KeepsTexts(g)
    BY <1>12, InsertedEdit, ReplacedText DEF DeduplicatedInsert, InsertDeduplicated
  <2>2. Sums'
    BY <1>12, <2>1, OutsideBatches DEF DeduplicatedInsert
  <2>3. QED
    BY <1>2, <1>4, <1>12, <2>2 DEF DeduplicatedInsert
<1>13. ASSUME NEW h \in Handles, NEW r \in Ranges, NEW t \in Texts, BatchInsert(h, r, t)
       PROVE  BatchesExact'
  <2>1. CASE UNCHANGED <<list, heap, running>>
    BY <1>2, <1>3, <1>4, <1>13, <2>1 DEF BatchInsert
  <2>2. CASE /\ InsertDeduplicated("batch", h, r, t)
             /\ running' = IF last'.status = "ok"
                           THEN [running EXCEPT ![h] = BatchLength(h, r, t)] ELSE running
    <3>1. running[h] # NULL /\ SumIs(Items(h), heap, running[h])
      BY <1>13 DEF BatchInsert, BatchesExact
    <3>2. /\ \A g \in Handles : g # h => KeepsTexts(g) /\ running'[g] = running[g]
          /\ SumIs(Items(h)', heap', running'[h])
      BY <2>2, <3>1, BatchedEdit
    <3>3. Sums'
      BY <3>2, KeptSums
    <3>4. QED
      BY <1>2, <1>4, <1>13, <3>3 DEF BatchInsert
  <2>3. QED
    BY <1>13, <2>1, <2>2 DEF BatchInsert
<1>14. ASSUME NEW h \in Handles, NEW ranges \in ColumnRanges, PlanColumns(h, ranges)
       PROVE  BatchesExact'
  <2>1. Sums'
    BY <1>3, <1>14 DEF PlanColumns
  <2>2. PlanApart'
    BY <1>4, <1>14 DEF PlanColumns
  <2>3. QED
    BY <1>2, <2>1, <2>2
<1>15. ASSUME NEW h \in Handles, NEW first \in Ranges, NEW second \in Ranges,
              PlanPair(h, first, second)
       PROVE  BatchesExact'
  <2>1. Sums'
    BY <1>3, <1>15 DEF PlanPair
  <2>2. PlanApart'
    BY <1>4, <1>15 DEF PlanPair
  <2>3. QED
    BY <1>2, <2>1, <2>2
<1>16. ASSUME NEW t \in Texts, PlanStep(t) PROVE BatchesExact'
  <2> DEFINE h == plan.handle
             r == Head(plan.ranges)
  <2>1. h \in Handles /\ running[h] = NULL /\ running' = running /\ plan # NoPlan
    BY <1>16 DEF PlanStep, Idle, BatchesExact, NoPlan
  <2>2. r \in Ranges /\ plan.ranges \in Seq(Ranges)
    <3>1. plan \in [handle : Handles, kind : {"columns", "pair"}, ranges : Seq(Ranges)]
      BY <2>1 DEF ListInvariant, TypeOK
    <3>2. plan.ranges # <<>>
      BY <1>16 DEF PlanStep, Idle
    <3>3. QED
      BY <3>1, <3>2
  <2>3. plan'.ranges # <<>> => plan'.handle = h
    BY <1>16, <2>1 DEF PlanStep, NoPlan, ListInvariant, TypeOK
  <2>4. PlanApart'
    BY <2>1, <2>3
  <2>5. Sums'
    <3> HIDE DEF h, r
    <3>1. CASE UNCHANGED <<list, heap>>
      BY <1>3, <2>1, <3>1
    <3>2. CASE \E b \in Fresh : Place(h, r, b) /\ heap' = HeapWith(b, t)
      <4>1. PICK b \in Fresh : Place(h, r, b) /\ heap' = HeapWith(b, t)
        BY <3>2
      <4>2. b \in Buffers /\ b \notin AllTexts
        BY DEF Fresh, ListInvariant, EveryBufferHasOneOwner
      <4>3. \A g \in Handles : g # h => KeepsTexts(g)
        BY <2>1, <2>2, <4>1, <4>2, PlacedEdit
      <4>4. QED
        BY <2>1, <4>3, OutsideBatches
    <3>3. QED
      BY <1>16, <3>1, <3>2 DEF PlanStep, h, r
  <2>6. QED
    BY <1>2, <2>4, <2>5
<1>17. ASSUME NEW g \in Handles, NEW h \in Handles, Clone(g, h) PROVE BatchesExact'
  <2>1. /\ running' = running /\ running[h] = NULL /\ Idle /\ plan' = plan
    BY <1>17 DEF Clone
  <2>2. \A f \in Handles : f # h => Items(f)' = Items(f)
    <3>1. (\E l : list' = [list EXCEPT ![h] = l])
      BY <1>17, Zenon DEF Clone
    <3>2. QED
      BY <1>1, <3>1 DEF Lists, Items
  <2>3. \A c \in DOMAIN heap : heap'[c] = heap[c]
    <3>1. \/ heap' = heap
          \/ \E copy \in Injection(DOMAIN Items(g), Fresh) :
               heap' = [b \in DOMAIN heap \cup Range(copy) |->
                        IF b \in DOMAIN heap THEN heap[b]
                        ELSE heap[Items(g)[CHOOSE i \in DOMAIN copy : copy[i] = b].text]]
      BY <1>17, Zenon DEF Clone
    <3>2. QED
      BY <3>1
  <2>4. ASSUME NEW f \in Handles, f # h PROVE KeepsTexts(f)
    BY <2>2, <2>3, <2>4, ListTextsAreLive DEF KeepsTexts
  <2>5. Sums'
    BY <2>1, <2>4, OutsideBatches
  <2>6. QED
    BY <1>2, <1>4, <2>1, <2>5
<1>18. QED
  BY <1>5, <1>6, <1>7, <1>8, <1>9, <1>10, <1>11, <1>12, <1>13, <1>14, <1>15, <1>16, <1>17
     DEF Next

\* A sum is the length of the SQL that the list renders.
LEMMA SumIsRenderedLength ==
  ASSUME NEW items \in Seq(Edit), ConflictFree(items), TextsLive(items, heap),
         NEW v, SumIs(items, heap, v)
  PROVE  v = Len(Rendered(items))
<1>1. PICK l : IsLengths(l, items, heap) /\ Len(Rendered(items)) = l[Len(items)]
  BY RenderedLength
<1>2. SumIs(items, heap, l[Len(items)])
  BY <1>1 DEF SumIs
<1>3. QED
  BY <1>1, <1>2, SumFacts

\* The sum that the batch keeps is the length of what the list renders.
LEMMA BatchesAreExact == ListInvariant /\ BatchesExact => BatchLengthIsExact
<1>1. ASSUME ListInvariant, BatchesExact, NEW h \in Handles, running[h] # NULL
      PROVE  running[h] = Len(Rendered(Items(h)))
  <2>1. Items(h) \in Seq(Edit) /\ ConflictFree(Items(h)) /\ TextsLive(Items(h), heap)
    BY <1>1, LiveListsHold DEF LiveLists
  <2>2. SumIs(Items(h), heap, running[h])
    BY <1>1 DEF BatchesExact
  <2>3. QED
    BY <2>1, <2>2, SumIsRenderedLength
<1>2. QED
  BY <1>1 DEF BatchLengthIsExact

\* The running length that a batch carries from edit to edit, duplicates
\* included, is the length of the SQL that source_edits_restore would write,
\* for every source, every list of texts and every number of handles.
THEOREM BatchLengthsAreExact == Spec => []BatchLengthIsExact
<1>1. Init => BatchesExact
  BY DEF Init, NoPlan, BatchesExact
<1>2. ListInvariant /\ BatchesExact /\ [Next]_vars => BatchesExact'
  <2>1. ListInvariant /\ [Next]_vars => LiveLists'
    BY NextKeepsInvariant, LiveListsHold, PTL
  <2>2. QED
    BY <2>1, NextKeepsBatches
<1>3. QED
  BY <1>1, <1>2, InvariantHolds, BatchesAreExact, PTL DEF Spec

-----------------------------------------------------------------------------
(* The rendered SQL.                                                       *)

\* An edit ends where or before any later one starts.
LEMMA EditsApart ==
  ASSUME NEW items \in Seq(Edit), ConflictFree(items),
         NEW i \in 1..Len(items), NEW j \in 1..Len(items), i < j
  PROVE  items[i].start < items[j].start /\ items[i].end <= items[j].start
<1>1. items[i].start < items[j].start /\ ~Overlap(items[i], items[j])
  BY DEF ConflictFree
<1>2. /\ items[i].start \in Int /\ items[i].end \in Int /\ items[i].start <= items[i].end
      /\ items[j].start \in Int /\ items[j].end \in Int /\ items[j].start <= items[j].end
  BY EditPositions
<1>3. QED
  BY <1>1, <1>2 DEF Overlap

\* Texts one behind the other, and a stretch of one byte.
LEMMA TextsJoin ==
  ASSUME NEW x \in Seq(Int), NEW y \in Seq(Int), NEW z \in Seq(Int)
  PROVE  (x \o y) \o z = x \o (y \o z) /\ x \o y \in Seq(Int)
BY ConcatAssociative, ConcatProperties, SMTT(40)

\* A piece of one byte.
LEMMA OneByte ==
  ASSUME NEW x \in Seq(Int), NEW i \in 1..Len(x)
  PROVE  SubSeq(x, i, i) = <<x[i]>> /\ <<x[i]>> \in Seq(Int)
<1>1. x[i] \in Int /\ i \in Int
  OBVIOUS
<1>2. /\ SubSeq(x, i, i) \in Seq(Int) /\ Len(SubSeq(x, i, i)) = 1
      /\ SubSeq(x, i, i)[1] = x[i]
  OBVIOUS
<1>3. <<x[i]>> \in Seq(Int) /\ Len(<<x[i]>>) = 1 /\ <<x[i]>>[1] = x[i]
  BY <1>1
<1> DEFINE s == SubSeq(x, i, i)
           t == <<x[i]>>
<1>4. s \in Seq(Int) /\ t \in Seq(Int) /\ Len(s) = 1 /\ Len(t) = 1 /\ s[1] = t[1]
  BY <1>2, <1>3
<1> HIDE DEF s, t
<1>5. s = t
  BY ONLY <1>4, SeqEqual
<1>6. QED
  BY <1>3, <1>5 DEF s, t

\* The stretch of the source between a cursor and the first p bytes.
Stretch(c, p) == SubSeq(Source, c + 1, IF p <= Len(Source) THEN p ELSE Len(Source))

\* It grows by the byte at p unless the cursor or the end of the source is
\* beyond it.
LEMMA StretchGrows ==
  ASSUME NEW c \in 0..Len(Source), NEW p \in 0..Len(Source)
  PROVE  /\ Stretch(c, p) \in Seq(Int) /\ Stretch(c, p + 1) \in Seq(Int)
         /\ p <= c => Stretch(c, p) = <<>>
         /\ Stretch(c, p + 1) =
              Stretch(c, p) \o (IF p < c \/ p = Len(Source) THEN <<>> ELSE <<Source[p + 1]>>)
<1> DEFINE m == Len(Source)
<1>1. m \in Nat /\ Source \in Seq(Int) /\ c \in Nat /\ p \in Nat /\ c <= m /\ p <= m
  BY SourceAssumption
<1>2. Stretch(c, p) = SubSeq(Source, c + 1, p)
  BY DEF Stretch
<1>3. p <= c => Stretch(c, p) = <<>>
  BY <1>1, <1>2, SubSeqEmpty
<1>4. Stretch(c, p) \in Seq(Int)
  <2>1. \A i \in (c + 1)..p : Source[i] \in Int
    BY <1>1
  <2>2. c + 1 \in Int /\ p \in Int
    BY <1>1
  <2>3. QED
    BY <1>2, <2>1, <2>2, SubSeqProperties
<1>5. CASE p = m
  <2>1. Stretch(c, p + 1) = Stretch(c, p)
    BY <1>1, <1>5 DEF Stretch
  <2>2. QED
    BY <1>3, <1>4, <1>5, <2>1, ConcatEmptySeq
<1>6. CASE p < m
  <2>1. p + 1 <= Len(Source) /\ p + 1 \in Int /\ p + 1 \in 1..m
    BY <1>1, <1>6
  <2>2. Stretch(c, p + 1) = SubSeq(Source, c + 1, p + 1)
    BY <2>1 DEF Stretch
  <2>3. CASE p < c
    <3>1. c + 1 \in Int /\ p + 1 \in Int /\ p + 1 < c + 1
      BY <1>1, <2>3
    <3>2. Stretch(c, p + 1) = <<>>
      BY <2>2, <3>1, SubSeqEmpty
    <3>3. QED
      BY <1>1, <1>3, <1>4, <2>3, <3>2, ConcatEmptySeq
  <2>4. CASE c <= p
    <3>1. c + 1 \in 1..(m + 1) /\ p \in ((c + 1) - 1)..m /\ p + 1 \in p..m
      BY <1>1, <2>1, <2>4
    <3>2. SubSeq(Source, c + 1, p) \o SubSeq(Source, p + 1, p + 1) = SubSeq(Source, c + 1, p + 1)
      BY <1>1, <3>1, ConcatAdjacentSubSeq
    <3>3. SubSeq(Source, p + 1, p + 1) = <<Source[p + 1]>>
      BY <1>1, <2>1, OneByte
    <3>4. <<Source[p + 1]>> \in Seq(Int)
      BY <1>1, <2>1, OneByte
    <3>5. Stretch(c, p + 1) = Stretch(c, p) \o <<Source[p + 1]>>
      BY <1>2, <2>2, <3>2, <3>3
    <3>6. ~(p < c \/ p = Len(Source))
      BY <1>1, <1>6, <2>4
    <3>7. Stretch(c, p + 1) \in Seq(Int)
      BY <1>4, <3>4, <3>5, ConcatProperties
    <3>8. QED
      BY <1>3, <1>4, <3>5, <3>6, <3>7
  <2>5. QED
    BY <1>1, <2>3, <2>4, SMTT(40)
<1>7. QED
  BY <1>1, <1>5, <1>6

\* Edits 1..k, and no others, start before position p.
Behind(items, k, p) ==
  /\ k \in 0..Len(items)
  /\ k = 0 \/ items[k].start < p
  /\ k = Len(items) \/ p <= items[k + 1].start

\* What has been written when the source cursor reaches p.
WrittenUpTo(w, items, k, p) == w[k] \o Stretch(Cursor(items, k + 1), p)

\* The edits that start before p are the first k.
LEMMA BehindFacts ==
  ASSUME NEW items \in Seq(Edit), ConflictFree(items), NEW p \in Int, NEW k, Behind(items, k, p)
  PROVE  /\ k \in 0..Len(items) /\ Cursor(items, k + 1) \in 0..Len(Source)
         /\ \A i \in 1..Len(items) : items[i].start < p <=> i <= k
<1> DEFINE n == Len(items)
<1>1. n \in Nat /\ k \in 0..n /\ k + 1 \in 1..(n + 1)
  BY DEF Behind
<1>2. \A i \in 1..n : items[i].start \in Int
  BY EditPositions
<1>3. Cursor(items, k + 1) \in 0..Len(Source)
  BY <1>1, CursorFacts
<1>4. \A i, j \in 1..n : i < j => items[i].start < items[j].start
  BY EditsApart
<1> HIDE DEF n
<1>5. ASSUME NEW i \in 1..n, i <= k PROVE items[i].start < p
  <2>1. k \in 1..n /\ items[k].start < p
    BY <1>1, <1>5 DEF Behind, n
  <2>2. i = k \/ items[i].start < items[k].start
    BY <1>1, <1>4, <1>5, <2>1
  <2>3. QED
    BY <1>2, <2>1, <2>2
<1>6. ASSUME NEW i \in 1..n, ~(i <= k) PROVE ~(items[i].start < p)
  <2>1. k + 1 \in 1..n /\ p <= items[k + 1].start
    BY <1>1, <1>6 DEF Behind, n
  <2>2. i = k + 1 \/ items[k + 1].start < items[i].start
    BY <1>1, <1>4, <1>6, <2>1
  <2>3. QED
    BY <1>2, <2>1, <2>2
<1>7. QED
  BY <1>1, <1>3, <1>5, <1>6 DEF n

\* A position that an edit replaces is one that the cursor behind the edits up
\* to that position has passed.
LEMMA CoveredFacts ==
  ASSUME NEW items \in Seq(Edit), ConflictFree(items), NEW p \in Int, NEW k,
         Behind(items, k, p + 1)
  PROVE  (\E i \in DOMAIN items : items[i].start <= p /\ p < items[i].end)
           <=> k # 0 /\ p < Cursor(items, k + 1)
<1> DEFINE n == Len(items)
<1>1. n \in Nat /\ DOMAIN items = 1..n
  OBVIOUS
<1>2. \A i \in 1..n : /\ items[i].start \in Int /\ items[i].end \in Int
                      /\ items[i].start <= items[i].end
  BY EditPositions
<1>3. k \in 0..n /\ \A i \in 1..n : items[i].start < p + 1 <=> i <= k
  BY BehindFacts
<1>4. \A i, j \in 1..n : i < j => items[i].end <= items[j].start
  BY EditsApart
<1>5. k # 0 => k \in 1..n /\ Cursor(items, k + 1) = items[k].end
  BY <1>1, <1>3 DEF Cursor
<1> HIDE DEF n
<1>6. ASSUME NEW i \in 1..n, items[i].start <= p, p < items[i].end
      PROVE  k # 0 /\ p < Cursor(items, k + 1)
  <2>1. i <= k /\ k \in 1..n
    BY <1>1, <1>2, <1>3, <1>6
  <2>2. items[k].start < p + 1
    BY <1>3, <2>1
  <2>3. i = k
    BY <1>2, <1>4, <1>6, <2>1, <2>2
  <2>4. QED
    BY <1>5, <1>6, <2>1, <2>3
<1>7. ASSUME k # 0, p < Cursor(items, k + 1)
      PROVE  k \in 1..n /\ items[k].start <= p /\ p < items[k].end
  BY <1>2, <1>3, <1>5, <1>7
<1>8. QED
  BY <1>1, <1>6, <1>7

\* The piece of one position takes what is written on to the next.
LEMMA PieceStep ==
  ASSUME NEW items \in Seq(Edit), ConflictFree(items), TextsLive(items, heap),
         NEW w, IsWritten(w, items, heap), NEW p \in 0..Len(Source), NEW k, Behind(items, k, p)
  PROVE  /\ Piece(items, p) \in Seq(Int)
         /\ \E j : /\ Behind(items, j, p + 1)
                   /\ WrittenUpTo(w, items, j, p + 1) =
                        WrittenUpTo(w, items, k, p) \o Piece(items, p)
<1> DEFINE n == Len(items)
           m == Len(Source)
           covered == \E i \in DOMAIN items : items[i].start <= p /\ p < items[i].end
           rest == IF covered \/ p = m THEN <<>> ELSE <<Source[p + 1]>>
           here == {i \in DOMAIN items : items[i].start = p}
           text == IF here = {} THEN <<>> ELSE heap[items[CHOOSE i \in here : TRUE].text]
<1>1. /\ n \in Nat /\ m \in Nat /\ p \in 0..m /\ DOMAIN items = 1..n
      /\ \A i \in 1..m : Source[i] \in Int
  BY SourceAssumption
<1>2. Piece(items, p) = text \o rest
  BY DEF Piece
<1>3. rest \in Seq(Int)
  <2>1. p # m => Source[p + 1] \in Int
    BY <1>1
  <2> HIDE DEF covered
  <2>2. QED
    BY <2>1
<1>4. \A i \in 1..n : /\ items[i].start \in Int /\ items[i].end \in Int
                      /\ items[i].start <= items[i].end
  BY EditPositions
<1>5. /\ k \in 0..n /\ Cursor(items, k + 1) \in 0..m
      /\ \A i \in 1..n : items[i].start < p <=> i <= k
  BY BehindFacts
<1>6. \A j \in 0..n : w[j] \in Seq(Int)
  BY DEF IsWritten
<1>7. ASSUME NEW j, Behind(items, j, p + 1)
      PROVE  /\ j \in 0..n /\ Cursor(items, j + 1) \in 0..m
             /\ covered <=> p < Cursor(items, j + 1)
             /\ Stretch(Cursor(items, j + 1), p + 1) = Stretch(Cursor(items, j + 1), p) \o rest
  <2>1. j \in 0..n /\ Cursor(items, j + 1) \in 0..m
    BY <1>1, <1>7, BehindFacts
  <2>2. covered <=> j # 0 /\ p < Cursor(items, j + 1)
    BY <1>1, <1>7, CoveredFacts, SMTT(40)
  <2>3. j = 0 => Cursor(items, j + 1) = 0
    BY DEF Cursor
  <2> DEFINE c == Cursor(items, j + 1)
  <2> HIDE DEF covered, c
  <2>4. covered <=> p < c
    BY <1>1, <2>2, <2>3 DEF c
  <2>5. c \in 0..m
    BY <2>1 DEF c
  <2>6. Stretch(c, p + 1) = Stretch(c, p) \o (IF p < c \/ p = m THEN <<>> ELSE <<Source[p + 1]>>)
    BY <1>1, <2>5, StretchGrows
  <2>7. QED
    BY <2>1, <2>4, <2>6 DEF c
<1>8. \A i, j \in 1..n : i < j => items[i].start < items[j].start
  BY EditsApart
<1>9. n \in Int /\ p \in Int /\ k \in Int
  BY <1>1, <1>5
<1> HIDE DEF rest, covered, n, m
<1>10. CASE \A i \in 1..n : items[i].start # p
  <2>1. here = {}
    BY <1>1, <1>10
  <2>2. Piece(items, p) = rest
    BY <1>2, <1>3, <2>1, ConcatEmptySeq
  <2>3. Behind(items, k, p + 1)
    <3>1. k = 0 \/ items[k].start < p + 1
      BY ONLY <1>4, <1>5, <1>9
    <3>2. k = n \/ p + 1 <= items[k + 1].start
      <4>1. SUFFICES ASSUME k # n PROVE p + 1 <= items[k + 1].start
        OBVIOUS
      <4>2. k + 1 \in 1..n /\ ~(k + 1 <= k)
        BY ONLY <1>5, <1>9, <4>1
      <4>3. items[k + 1].start \in Int /\ items[k + 1].start # p /\ ~(items[k + 1].start < p)
        BY ONLY <1>4, <1>5, <1>10, <4>2
      <4>4. QED
        BY <1>9, <4>3
    <3>3. QED
      BY <1>5, <3>1, <3>2 DEF Behind, n
  <2> DEFINE c == Cursor(items, k + 1)
  <2>4. w[k] \in Seq(Int) /\ Stretch(c, p) \in Seq(Int)
        /\ Stretch(c, p + 1) = Stretch(c, p) \o rest
    BY <1>1, <1>5, <1>6, <1>7, <2>3, StretchGrows DEF m
  <2> DEFINE s == Stretch(c, p)
             v == w[k]
  <2>5. v \in Seq(Int) /\ s \in Seq(Int)
    BY <2>4
  <2> HIDE DEF s, v, c
  <2>6. v \o (s \o rest) = (v \o s) \o rest
    BY ONLY <1>3, <2>5, TextsJoin, SMTT(40)
  <2>7. WrittenUpTo(w, items, k, p + 1) = WrittenUpTo(w, items, k, p) \o Piece(items, p)
    BY <2>2, <2>4, <2>6 DEF WrittenUpTo, s, v, c
  <2>8. QED
    BY <1>3, <2>2, <2>3, <2>7
<1>11. CASE \E i \in 1..n : items[i].start = p
  <2>1. PICK i \in 1..n : items[i].start = p
    BY <1>11
  <2>2. \A a \in 1..n : items[a].start = p => a = i
    BY <1>4, <1>8, <1>9, <2>1
  <2>3. here = {i}
    BY <1>1, <2>1, <2>2
  <2>4. text = heap[items[i].text]
    BY <2>3
  <2>5. text \in Seq(Int)
    BY <2>4 DEF TextsLive, n
  <2> HIDE DEF text, rest
  <2>6. Piece(items, p) \in Seq(Int)
    <3>1. text \o rest \in Seq(Int)
      BY ONLY <1>3, <2>5, ConcatProperties
    <3>2. QED
      BY ONLY <1>2, <3>1
  <2> USE DEF text, rest
  <2>7. k = i - 1
    <3>1. ~(i <= k)
      BY <1>1, <1>4, <1>5, <2>1, SMTT(40)
    <3>2. \A a \in 1..n : a < i => a <= k
      BY <1>5, <1>8, <2>1
    <3>3. (i = 1 \/ i - 1 \in 1..n) /\ i \in Int
      BY ONLY <1>9, i \in 1..n
    <3>4. QED
      BY ONLY <1>5, <1>9, <3>1, <3>2, <3>3, i \in 1..n
  <2> DEFINE c == Cursor(items, k + 1)
             d == Cursor(items, i + 1)
  <2>8. k + 1 = i /\ d = items[i].end /\ p <= d
    BY <1>1, <1>4, <2>1, <2>7 DEF Cursor
  <2>9. Behind(items, i, p + 1)
    <3>1. i = n \/ p + 1 <= items[i + 1].start
      <4>1. SUFFICES ASSUME i # n PROVE p + 1 <= items[i + 1].start
        OBVIOUS
      <4>2. i + 1 \in 1..n /\ i < i + 1
        BY ONLY <1>9, <4>1, i \in 1..n
      <4>3. items[i].start < items[i + 1].start /\ items[i + 1].start \in Int
        BY <1>4, <1>8, <4>2
      <4>4. QED
        BY <1>9, <2>1, <4>3
    <3>2. i \in 0..n /\ items[i].start < p + 1
      BY ONLY <1>9, <2>1, i \in 1..n
    <3>3. QED
      BY <3>1, <3>2 DEF Behind, n
  <2>10. w[i] = w[k] \o SubSeq(Source, c + 1, p) \o text
    <3>1. w[i] = w[i - 1] \o SubSeq(Source, Cursor(items, i) + 1, items[i].start)
                   \o heap[items[i].text]
      BY DEF IsWritten, n
    <3>2. QED
      BY <2>1, <2>4, <2>7, <2>8, <3>1
  <2>11. p <= Len(Source)
    BY <1>1 DEF m
  <2>12. SubSeq(Source, c + 1, p) = Stretch(c, p)
    BY <2>11 DEF Stretch
  <2>13. Stretch(d, p + 1) = rest
    <3>1. d \in 0..m /\ Stretch(d, p + 1) = Stretch(d, p) \o rest
      BY <1>7, <2>9
    <3>2. Stretch(d, p) = <<>>
      BY <1>1, <2>8, <3>1, StretchGrows DEF m
    <3>3. QED
      BY <1>3, <3>1, <3>2, ConcatEmptySeq
  <2>14. WrittenUpTo(w, items, i, p + 1) = w[i] \o rest
    BY <2>13 DEF WrittenUpTo
  <2>15. WrittenUpTo(w, items, k, p) = w[k] \o Stretch(c, p)
    BY DEF WrittenUpTo
  <2>16. WrittenUpTo(w, items, k, p) \in Seq(Int)
    <3>1. w[k] \in Seq(Int) /\ Stretch(c, p) \in Seq(Int)
      BY <1>1, <1>5, <1>6, StretchGrows DEF m
    <3>2. QED
      BY <2>15, <3>1, ConcatProperties
  <2> DEFINE u == WrittenUpTo(w, items, k, p)
  <2>17. w[i] = u \o text
    BY <2>10, <2>12, <2>15
  <2>18. u \in Seq(Int)
    BY <2>16
  <2> HIDE DEF u, text
  <2>19. (u \o text) \o rest = u \o (text \o rest)
    BY ONLY <1>3, <2>5, <2>18, TextsJoin
  <2>20. WrittenUpTo(w, items, i, p + 1) = WrittenUpTo(w, items, k, p) \o Piece(items, p)
    BY <1>2, <2>14, <2>17, <2>19 DEF u
  <2>21. QED
    BY <2>6, <2>9, <2>20
<1>12. QED
  BY <1>10, <1>11

\* One pass over a sorted list writes the source with all edits made at once.
LEMMA RenderedIsFlattened ==
  ASSUME NEW items \in Seq(Edit), ConflictFree(items), TextsLive(items, heap)
  PROVE  Rendered(items) =
           FlattenSeq([p \in 1..(Len(Source) + 1) |-> Piece(items, p - 1)])
<1> DEFINE n == Len(items)
           m == Len(Source)
           pieces == [p \in 1..(m + 1) |-> Piece(items, p - 1)]
<1>1. n \in Nat /\ m \in Nat
  BY SourceAssumption
<1>2. PICK w : /\ IsWritten(w, items, heap)
               /\ Rendered(items) = w[n] \o SubSeq(Source, Cursor(items, n + 1) + 1, m)
  BY RenderedFacts
<1>3. ASSUME NEW p \in 0..m, NEW k, Behind(items, k, p)
      PROVE  /\ Piece(items, p) \in Seq(Int)
             /\ \E j : /\ Behind(items, j, p + 1)
                       /\ WrittenUpTo(w, items, j, p + 1) =
                            WrittenUpTo(w, items, k, p) \o Piece(items, p)
  BY <1>2, <1>3, PieceStep
<1>4. Behind(items, 0, 0) /\ WrittenUpTo(w, items, 0, 0) = <<>>
  <2>1. n = 0 \/ 0 <= items[1].start
    <3>1. n # 0 => 1 \in 1..n
      BY <1>1
    <3>2. QED
      BY <3>1, EditPositions
  <2>2. Behind(items, 0, 0)
    BY <1>1, <2>1 DEF Behind
  <2>3. Cursor(items, 0 + 1) = 0 /\ w[0] = <<>>
    BY <1>2 DEF Cursor, IsWritten
  <2>4. Stretch(0, 0) = <<>>
    <3>1. 0 \in 0..Len(Source) /\ 0 <= 0
      BY <1>1
    <3>2. QED
      BY ONLY <3>1, StretchGrows
  <2>5. <<>> \o <<>> = <<>>
    BY ConcatEmptySeq
  <2>6. QED
    BY <2>2, <2>3, <2>4, <2>5 DEF WrittenUpTo
<1> HIDE DEF n, m
<1>5. \A p \in 0..m : Piece(items, p) \in Seq(Int)
  <2> DEFINE S == {p \in Nat : \E k : Behind(items, k, p)}
  <2>1. 0 \in S
    BY <1>4
  <2>2. ASSUME NEW p \in 0..(m - 1), p \in S PROVE p + 1 \in S
    <3>1. p \in 0..m /\ p + 1 \in Nat
      BY <1>1
    <3>2. PICK k : Behind(items, k, p)
      BY <2>2
    <3>3. QED
      BY <1>3, <3>1, <3>2
  <2> HIDE DEF S
  <2>3. 0 \in Int /\ m \in Int /\ 0 <= m
    BY <1>1
  <2>4. 0..m \subseteq S
    BY ONLY <2>1, <2>2, <2>3, IntervalInduction
  <2>5. QED
    BY <1>3, <2>4 DEF S
<1>6. /\ pieces \in Seq(Seq(Int)) /\ pieces # <<>> /\ Len(pieces) = m + 1
      /\ \A p \in 1..(m + 1) : pieces[p] = Piece(items, p - 1)
  <2>1. \A p \in 1..(m + 1) : Piece(items, p - 1) \in Seq(Int)
    <3>1. \A p \in 1..(m + 1) : p - 1 \in 0..m
      BY <1>1
    <3>2. QED
      BY <1>5, <3>1
  <2>2. m + 1 \in Nat /\ 1 \in 1..(m + 1)
    BY <1>1
  <2>3. pieces \in Seq(Seq(Int)) /\ Len(pieces) = m + 1
    BY <2>1, <2>2
  <2>4. pieces # <<>>
    BY <2>2, <2>3
  <2>5. QED
    BY <2>3, <2>4
<1> HIDE DEF pieces
<1>7. PICK f : /\ f[1] = pieces[1]
               /\ \A i \in 2..Len(pieces) : f[i] = f[i - 1] \o pieces[i]
               /\ FlattenSeq(pieces) = f[Len(pieces)]
  BY <1>6, FlattenFacts
<1> DEFINE S == {p \in Nat : \E k : Behind(items, k, p) /\ f[p] = WrittenUpTo(w, items, k, p)}
<1>8. 1 \in S
  <2>1. 0 \in 0..m /\ 1 \in 1..(m + 1) /\ 0 + 1 = 1 /\ 1 - 1 = 0
    BY <1>1
  <2>2. Piece(items, 0) \in Seq(Int)
    BY <1>5, <2>1
  <2>3. PICK j : /\ Behind(items, j, 0 + 1)
                 /\ WrittenUpTo(w, items, j, 0 + 1) =
                      WrittenUpTo(w, items, 0, 0) \o Piece(items, 0)
    BY <1>3, <1>4, <2>1
  <2>4. WrittenUpTo(w, items, j, 1) = Piece(items, 0)
    BY <1>4, <2>1, <2>2, <2>3, ConcatEmptySeq
  <2>5. f[1] = Piece(items, 0)
    BY <1>6, <1>7, <2>1
  <2>6. QED
    BY <2>1, <2>3, <2>4, <2>5
<1>9. ASSUME NEW p \in 1..((m + 1) - 1), p \in S PROVE p + 1 \in S
  <2>1. p \in 0..m /\ p + 1 \in 2..Len(pieces) /\ p + 1 \in 1..(m + 1) /\ (p + 1) - 1 = p
        /\ p + 1 \in Nat
    BY <1>1, <1>6
  <2>2. PICK k : Behind(items, k, p) /\ f[p] = WrittenUpTo(w, items, k, p)
    BY <1>9
  <2>3. PICK j : /\ Behind(items, j, p + 1)
                 /\ WrittenUpTo(w, items, j, p + 1) = f[p] \o Piece(items, p)
    BY <1>3, <2>1, <2>2
  <2>4. f[p + 1] = f[p] \o Piece(items, p)
    BY <1>6, <1>7, <2>1
  <2>5. QED
    BY <2>1, <2>3, <2>4
<1>10. m + 1 \in S
  <2>1. 1 \in Int /\ m + 1 \in Int /\ 1 <= m + 1 /\ m + 1 \in 1..(m + 1)
    BY <1>1
  <2> DEFINE z == m + 1
  <2> HIDE DEF S, z
  <2>2. \A p \in 1..(z - 1) : p \in S => p + 1 \in S
    BY <1>9 DEF z
  <2>3. 1 \in Int /\ z \in Int /\ 1 <= z
    BY <2>1 DEF z
  <2>4. 1..z \subseteq S
    BY ONLY <1>8, <2>2, <2>3, IntervalInduction
  <2>5. QED
    BY <2>1, <2>4 DEF z
<1>11. PICK k : Behind(items, k, m + 1) /\ f[m + 1] = WrittenUpTo(w, items, k, m + 1)
  BY <1>10
<1>12. k = n
  <2>1. k \in 0..n /\ (k = n \/ m + 1 <= items[k + 1].start)
    BY <1>11 DEF Behind, n
  <2>2. SUFFICES ASSUME k # n PROVE FALSE
    OBVIOUS
  <2>3. k + 1 \in 1..n
    BY <1>1, <2>1, <2>2
  <2>4. items[k + 1].start \in 0..m
    BY <2>3, EditPositions DEF n, m
  <2>5. QED
    BY <1>1, <2>1, <2>2, <2>4
<1>13. Stretch(Cursor(items, n + 1), m + 1) = SubSeq(Source, Cursor(items, n + 1) + 1, m)
  <2>1. ~(m + 1 <= m)
    BY <1>1
  <2>2. QED
    BY <2>1 DEF Stretch, m
<1>14. Rendered(items) = f[m + 1]
  BY <1>2, <1>11, <1>12, <1>13 DEF WrittenUpTo
<1>15. QED
  BY <1>6, <1>7, <1>14 DEF pieces, m

\* Every edit of a sorted list passes the checks of source_edits_restore, but
\* for the limit, and the length is within the limit where all pass it.
LEMMA VerdictFacts ==
  ASSUME NEW items \in Seq(Edit), ConflictFree(items), TextsLive(items, heap),
         NEW k \in 1..Len(items)
  PROVE  /\ Verdict(items, k) \in {"ok", "limit"}
         /\ Verdict(items, k) = "ok" => PrefixLength(items, k) <= MaxOutput
<1> DEFINE n == Len(items)
           m == Len(Source)
           e == items[k]
           c == Cursor(items, k)
<1>1. PICK l : IsLengths(l, items, heap) /\ \A j : PrefixLength(items, j) = l[j]
  BY PrefixLengthFacts
<1>2. PICK w : IsWritten(w, items, heap)
  BY RenderedFacts
<1>3. k - 1 \in 0..n /\ (k - 1) + 1 = k /\ k \in 0..n
  OBVIOUS
<1>4. /\ e.start \in 0..m /\ e.end \in 0..m /\ e.start <= e.end
      /\ m \in Nat /\ c \in 0..m /\ c <= e.start
  <2>1. k \in 1..(n + 1)
    OBVIOUS
  <2>2. QED
    BY <2>1, EditPositions, CursorFacts
<1>5. l[k - 1] = Len(w[k - 1]) + m - c
  BY <1>1, <1>2, <1>3, WrittenLengths
<1>6. w[k - 1] \in Seq(Int) /\ heap[e.text] \in Seq(Int)
  BY <1>2, <1>3 DEF IsWritten, TextsLive
<1> DEFINE x == Len(w[k - 1])
           t == Len(heap[e.text])
           before == l[k - 1]
           first == e.start
           final == e.end
<1>7. x \in Nat /\ t \in Nat
  BY <1>6
<1>8. before = x + m - c /\ l[k] = before - (final - first) + t
  BY <1>1, <1>5 DEF IsLengths
<1>9. /\ first \in 0..m /\ final \in 0..m /\ first <= final /\ m \in Nat /\ c \in 0..m
      /\ c <= first
  BY <1>4
<1>10. Verdict(items, k) =
         IF first < c \/ final < first \/ final > m \/ final - first > before
         THEN "internal_error"
         ELSE IF t > MaxOutput - (before - (final - first)) THEN "limit" ELSE "ok"
  BY <1>1 DEF Verdict
<1> HIDE DEF x, t, before, first, final, m, c
<1>11. ~(first < c \/ final < first \/ final > m \/ final - first > before)
  BY ONLY <1>7, <1>8, <1>9
<1>12. ~(t > MaxOutput - (before - (final - first))) => l[k] <= MaxOutput
  BY ONLY <1>7, <1>8, <1>9, LimitAssumption
<1>13. QED
  BY <1>1, <1>10, <1>11, <1>12

\* What source_edits_restore returns for a list.
LEMMA RestoreFacts ==
  ASSUME NEW items \in Seq(Edit), ConflictFree(items), TextsLive(items, heap)
  PROVE  /\ RestoreOutcome(items) \in {"ok", "limit"}
         /\ RestoreOutcome(items) = "ok" => Len(Rendered(items)) <= MaxOutput
<1> DEFINE n == Len(items)
           failing == {k \in DOMAIN items : Verdict(items, k) # "ok"}
           least == CHOOSE k \in failing : \A j \in failing : k <= j
<1>1. n \in Nat /\ DOMAIN items = 1..n
  OBVIOUS
<1>2. RestoreOutcome(items) =
        IF Len(Source) > MaxOutput THEN "limit"
        ELSE IF failing = {} THEN "ok" ELSE Verdict(items, least)
  BY DEF RestoreOutcome
<1>3. \A k \in 1..n : /\ Verdict(items, k) \in {"ok", "limit"}
                      /\ Verdict(items, k) = "ok" => PrefixLength(items, k) <= MaxOutput
  BY VerdictFacts
<1>4. ASSUME failing # {} PROVE least \in failing
  <2>1. failing \in SUBSET Nat
    BY <1>1
  <2>2. \E k \in failing : \A j \in failing : k <= j
    BY <1>4, <2>1, LeastNatural
  <2> HIDE DEF failing
  <2>3. QED
    BY <2>2
<1>5. failing # {} => Verdict(items, least) = "limit"
  <2> HIDE DEF least
  <2>1. QED
    BY <1>1, <1>3, <1>4
<1>6. ASSUME failing = {}, ~(Len(Source) > MaxOutput) PROVE Len(Rendered(items)) <= MaxOutput
  <2>1. PICK l : /\ IsLengths(l, items, heap) /\ \A k : PrefixLength(items, k) = l[k]
                 /\ Len(Rendered(items)) = l[n]
    BY RenderedLength
  <2>2. CASE n = 0
    <3>1. l[n] = Len(Source) /\ Len(Source) \in Int
      BY <2>1, <2>2, SourceAssumption DEF IsLengths
    <3>2. QED
      BY <1>6, <2>1, <3>1, LimitAssumption
  <2>3. CASE n # 0
    <3>1. n \in 1..n
      BY <1>1, <2>3
    <3>2. Verdict(items, n) = "ok"
      BY <1>1, <1>6, <3>1
    <3>3. PrefixLength(items, n) <= MaxOutput
      BY <1>3, <3>1, <3>2
    <3>4. QED
      BY <2>1, <3>3
  <2>4. QED
    BY <2>2, <2>3
<1>7. QED
  BY <1>2, <1>5, <1>6

\* The source with all edits made at once, with the texts as a parameter.
EveryEditMade(items, texts) ==
  FlattenSeq([p \in 1..(Len(Source) + 1) |->
    LET q == p - 1
        here == {i \in DOMAIN items : items[i].start = q}
        covered == \E i \in DOMAIN items : items[i].start <= q /\ q < items[i].end
        text == IF here = {} THEN <<>> ELSE texts[items[CHOOSE i \in here : TRUE].text]
    IN  text \o (IF covered \/ q = Len(Source) THEN <<>> ELSE <<Source[q + 1]>>)])

\* The reference text, with the pieces at every position named.
LEMMA EveryEditMadeIs ==
  \A items : FlattenSeq([p \in 1..(Len(Source) + 1) |-> Piece(items, p - 1)]) =
               EveryEditMade(items, heap)
BY Zenon DEF Piece, EveryEditMade

\* What the property says of the last call.
LastSqlMakesEveryEdit ==
  last.call = "restore" =>
    /\ last.status # "internal_error"
    /\ last.status = "ok" =>
         /\ Len(last.sql) <= MaxOutput
         /\ last.sql = EveryEditMade(Items(last.handle), heap)

\* It says what RestoredSqlMakesEveryEdit says.
LEMMA LastSqlMakesEveryEditIs == RestoredSqlMakesEveryEdit <=> LastSqlMakesEveryEdit
BY EveryEditMadeIs, Zenon DEF RestoredSqlMakesEveryEdit, LastSqlMakesEveryEdit

\* The last call tells nothing about a rendering unless it was one.
LEMMA NextRendersEveryEdit ==
  ListInvariant /\ LastSqlMakesEveryEdit /\ [Next]_vars => LastSqlMakesEveryEdit'
<1> SUFFICES ASSUME ListInvariant, LastSqlMakesEveryEdit, [Next]_vars
             PROVE  LastSqlMakesEveryEdit'
  OBVIOUS
<1>1. last'.call # "restore" => LastSqlMakesEveryEdit'
  BY DEF LastSqlMakesEveryEdit
<1>2. CASE UNCHANGED vars
  <2>1. last' = last /\ heap' = heap /\ Items(last.handle)' = Items(last.handle)
    BY <1>2 DEF vars, Items
  <2>2. QED
    BY <2>1 DEF LastSqlMakesEveryEdit
<1>3. ASSUME NEW h \in Handles, Restore(h) PROVE LastSqlMakesEveryEdit'
  <2> DEFINE items == Items(h)
  <2>1. items \in Seq(Edit) /\ ConflictFree(items) /\ TextsLive(items, heap)
    BY LiveListsHold DEF LiveLists
  <2>2. /\ last' = IF RestoreOutcome(items) = "ok"
                   THEN [call |-> "restore", handle |-> h, status |-> "ok", sql |-> Rendered(items)]
                   ELSE [call |-> "restore", handle |-> h, status |-> RestoreOutcome(items)]
        /\ list' = list /\ heap' = heap
    BY <1>3 DEF Restore
  <2>3. last'.handle = h /\ last'.status = RestoreOutcome(items)
        /\ (last'.status = "ok" => last'.sql = Rendered(items))
    BY <2>2
  <2>4. Items(h)' = items
    BY <2>2 DEF Items
  <2> HIDE DEF items
  <2>5. /\ RestoreOutcome(items) \in {"ok", "limit"}
        /\ RestoreOutcome(items) = "ok" => Len(Rendered(items)) <= MaxOutput
    BY <2>1, RestoreFacts
  <2>6. Rendered(items) = FlattenSeq([p \in 1..(Len(Source) + 1) |-> Piece(items, p - 1)])
    BY <2>1, RenderedIsFlattened
  <2>7. Items(last.handle)' = items
    BY <2>2, <2>3 DEF Items, items
  <2>8. Rendered(items) = EveryEditMade(items, heap)
    BY <2>6, EveryEditMadeIs
  <2>9. QED
    BY <2>2, <2>3, <2>5, <2>7, <2>8 DEF LastSqlMakesEveryEdit
<1>4. ASSUME NEW t \in Texts, Render(t) PROVE last'.call # "restore"
  BY <1>4 DEF Render, Quiet
<1>5. ASSUME NEW t \in Texts, PlanStep(t) PROVE last'.call # "restore"
  <2>1. plan.kind \in {"columns", "pair"}
    BY <1>5 DEF PlanStep, Idle, ListInvariant, TypeOK, NoPlan
  <2>2. QED
    BY <1>5, <2>1 DEF PlanStep, Quiet, Returned
<1>6. ASSUME Discard PROVE last'.call # "restore"
  BY <1>6 DEF Discard, Quiet
<1>7. ASSUME NEW h \in Handles, BatchBegin(h) \/ Release(h) PROVE last'.call # "restore"
  BY <1>7 DEF BatchBegin, Release, Quiet
<1>8. ASSUME NEW call \in {"insert", "deduplicated", "batch"}, NEW h, NEW r, NEW t,
             Insert(call, h, r, t) \/ InsertDeduplicated(call, h, r, t)
      PROVE  last'.call # "restore"
  <2>1. last' = Refused(call, h, r) \/ \E status : last' = Returned(call, status)
    BY <1>8, Zenon DEF InsertDeduplicated, ReplaceDuplicate, Insert
  <2>2. QED
    BY <2>1 DEF Refused, Returned
<1>9. ASSUME NEW h \in Handles, NEW r \in Ranges, NEW t \in Texts,
             PlainInsert(h, r, t) \/ DeduplicatedInsert(h, r, t) \/ BatchInsert(h, r, t)
      PROVE  last'.call # "restore"
  BY <1>8, <1>9 DEF PlainInsert, DeduplicatedInsert, BatchInsert, Returned
<1>10. ASSUME NEW h \in Handles, NEW ranges \in ColumnRanges, PlanColumns(h, ranges)
       PROVE  last'.call # "restore"
  BY <1>10 DEF PlanColumns, Quiet, Returned
<1>11. ASSUME NEW h \in Handles, NEW first \in Ranges, NEW second \in Ranges,
              PlanPair(h, first, second)
       PROVE  last'.call # "restore"
  BY <1>11 DEF PlanPair, Quiet, Returned
<1>12. ASSUME NEW g \in Handles, NEW h \in Handles, Clone(g, h) PROVE last'.call # "restore"
  <2>1. last' = Quiet \/ last' = Returned("clone", "no_memory")
    BY <1>12, Zenon DEF Clone
  <2>2. QED
    BY <2>1 DEF Quiet, Returned
<1>13. QED
  BY <1>1, <1>2, <1>3, <1>4, <1>5, <1>6, <1>7, <1>9, <1>10, <1>11, <1>12 DEF Next

\* source_edits_restore never meets its internal errors, and the SQL it returns
\* is within the limit and is the source with every edit made, byte position by
\* byte position, for every source, every list and every history of calls.
THEOREM EveryEditIsRestored == Spec => []RestoredSqlMakesEveryEdit
<1>1. Init => LastSqlMakesEveryEdit
  BY DEF Init, Quiet, LastSqlMakesEveryEdit
<1>2. QED
  BY <1>1, InvariantHolds, NextRendersEveryEdit, LastSqlMakesEveryEditIs, PTL DEF Spec
===============================================================================
