---------------------------- MODULE SurfaceEdits ----------------------------
(***************************************************************************)
(* The source-edit list of a handle (sqlparser_surface.c) and the planners *)
(* of sqlparser_patch.c that fill it: replacements of byte ranges of the   *)
(* SQL text the handle was parsed from.  While the list is complete,       *)
(* deparse renders the public SQL from the original bytes and this list    *)
(* alone, so it must always describe one unambiguous text.                 *)
(*                                                                         *)
(* An insertion looks only at the two neighbours of the insertion point.   *)
(* Replacement texts are heap buffers that move between the caller that    *)
(* rendered them, the list, and the list of a cloned handle; every         *)
(* allocation may fail.                                                    *)
(***************************************************************************)
EXTENDS Integers, SequencesExt

CONSTANTS
  Handles,          \* handles that own an edit list
  Buffers,          \* addresses of replacement buffers
  Texts,            \* what a replacement may hold: sequences of bytes
  Source,           \* bytes of handle->sql, shared by a handle and its clone
  MaxSql,           \* limits.max_sql_bytes
  MaxOutput,        \* limits.max_output_bytes
  MaxRows,          \* bound: VALUES rows of an INSERT that gains a column
  InitialCapacity,  \* first allocation of items
  NULL

ASSUME SourceAssumption == Source \in Seq(Int)
ASSUME TextsAssumption == Texts \subseteq Seq(Int)
ASSUME LimitAssumption == MaxSql \in Nat /\ MaxOutput \in Nat
ASSUME RowsAssumption == MaxRows \in Nat \ {0}
ASSUME CapacityAssumption == InitialCapacity \in Nat \ {0}
ASSUME NullAssumption == NULL \notin Buffers /\ NULL \notin Nat

VARIABLES
  list,     \* surface_source_edits of each handle: items and capacity
  running,  \* in_out_sql_length of the batch that fills a list, or NULL
  plan,     \* insertions a checked plan has still to make
  heap,     \* live replacement buffers and their contents
  owned,    \* buffer the caller rendered and still owns, or NULL
  last      \* what the last call returned

vars == <<list, running, plan, heap, owned, last>>

Positions == 0..Len(Source)
Ranges == {r \in [start : Positions, end : Positions] : r.start <= r.end}
EmptyList == [items |-> <<>>, capacity |-> 0]
NoPlan == [handle |-> NULL, kind |-> "none", ranges |-> <<>>]
Quiet == [call |-> "none"]

Init ==
  /\ list = [h \in Handles |-> EmptyList]
  /\ running = [h \in Handles |-> NULL]
  /\ plan = NoPlan
  /\ heap = [b \in {} |-> <<>>]
  /\ owned = NULL
  /\ last = Quiet

-----------------------------------------------------------------------------
(* The list as a data structure.                                           *)

Items(h) == list[h].items

\* An empty range conflicts with any range it touches, two nonempty ranges
\* only when they share a byte.
Overlap(left, right) ==
  IF left.start = left.end THEN right.start <= left.start /\ left.start <= right.end
  ELSE IF right.start = right.end THEN left.start <= right.start /\ right.start <= left.end
  ELSE left.start < right.end /\ right.start < left.end

\* The insertion point: the end when the last edit starts earlier, else the
\* first edit that does not start earlier.
IsInsertIndex(items, r, i) ==
  IF items # <<>> /\ items[Len(items)].start < r.start
  THEN i = Len(items) + 1
  ELSE /\ \A j \in 1..(i - 1) : items[j].start < r.start
       /\ i <= Len(items) => items[i].start >= r.start

\* Mutants: the edit after the insertion point is not looked at; touching
\* nonempty ranges count as a conflict.
ConflictBeforeOnly(items, i, r) == i > 1 /\ Overlap(items[i - 1], r)
ConflictWhenTouching(items, i, r) ==
  \/ i > 1 /\ items[i - 1].end >= r.start
  \/ i <= Len(items) /\ r.end >= items[i].start

NeighbourConflict(items, i, r) ==
  \/ i > 1 /\ Overlap(items[i - 1], r)
  \/ i <= Len(items) /\ Overlap(items[i], r)

Accepts(items, i, r) ==
  IsInsertIndex(items, r, i) /\ ~NeighbourConflict(items, i, r)

Refuses(items, r) ==
  \E i \in 1..(Len(items) + 1) :
    IsInsertIndex(items, r, i) /\ NeighbourConflict(items, i, r)

\* The planners' own check, against every edit of the list.
Available(items, r) == \A i \in DOMAIN items : ~Overlap(items[i], r)

\* The search of the deduplicating insertion: append shortcut, then bisection.
SearchIndex(items, r) ==
  LET n == Len(items)
      bisect[w \in [lo : 1..(n + 1), hi : 1..(n + 1)]] ==
        IF w.lo >= w.hi THEN w.lo
        ELSE LET middle == w.lo + (w.hi - w.lo) \div 2
             IN  IF items[middle].start < r.start
                 THEN bisect[[w EXCEPT !.lo = middle + 1]]
                 ELSE bisect[[w EXCEPT !.hi = middle]]
  IN  IF n > 0 /\ items[n].start < r.start THEN n + 1
      ELSE bisect[[lo |-> 1, hi |-> n + 1]]

IsDuplicate(items, i, r) ==
  i \in DOMAIN items /\ items[i].start = r.start /\ items[i].end = r.end

EditOf(r, b) == [start |-> r.start, end |-> r.end, text |-> b]

\* Mutant: the first allocation is never enlarged.
GrownOnce(l) == IF l.capacity = 0 THEN InitialCapacity ELSE l.capacity

Grown(l) ==
  IF Len(l.items) # l.capacity THEN l.capacity
  ELSE IF l.capacity = 0 THEN InitialCapacity ELSE 2 * l.capacity

Place(h, r, b) ==
  \E i \in 1..(Len(Items(h)) + 1) :
    /\ Accepts(Items(h), i, r)
    /\ list' = [list EXCEPT ![h] =
                  [items |-> InsertAt(@.items, i, EditOf(r, b)),
                   capacity |-> Grown(@)]]

-----------------------------------------------------------------------------
(* Buffers.                                                                *)

Fresh == Buffers \ DOMAIN heap
HeapWith(b, t) == [c \in DOMAIN heap \cup {b} |-> IF c = b THEN t ELSE heap[c]]
HeapWithout(S) == [c \in DOMAIN heap \ S |-> heap[c]]
TextsOf(items) == {items[i].text : i \in DOMAIN items}
AllTexts == UNION {TextsOf(Items(h)) : h \in Handles}

\* Mutant: the caller keeps the buffer it handed over.
SupplyKept(t, b) ==
  \/ b \in Fresh /\ owned' = owned
  \/ owned # NULL /\ b = owned /\ heap[owned] = t /\ owned' = owned

\* The buffer an insertion stores: a fresh copy of t, or the caller's own
\* buffer when it hands over its ownership.
Supply(t, b) ==
  \/ b \in Fresh /\ owned' = owned
  \/ owned # NULL /\ b = owned /\ heap[owned] = t /\ owned' = NULL

-----------------------------------------------------------------------------
(* The calls.  One call runs at a time: a handle has one owner.            *)

Idle == plan.ranges = <<>>
Returned(call, status) == [call |-> call, status |-> status]
Refused(call, h, r) ==
  [call |-> call, status |-> "unsupported", handle |-> h, range |-> r]

\* The caller renders a replacement it will pass on with its ownership.
Render(t) ==
  /\ Idle /\ owned = NULL
  /\ \E b \in Fresh : owned' = b /\ heap' = HeapWith(b, t)
  /\ last' = Quiet
  /\ UNCHANGED <<list, running, plan>>

\* The caller frees a rendering that no insertion consumed.
Discard ==
  /\ Idle /\ owned # NULL
  /\ heap' = HeapWithout({owned})
  /\ owned' = NULL
  /\ last' = Quiet
  /\ UNCHANGED <<list, running, plan>>

\* A conflict leaves everything alone, an allocation failure too: a copy made
\* before it is freed, a buffer handed over stays with the caller.
Insert(call, h, r, t) ==
  \/ /\ \E b \in Buffers : Supply(t, b) /\ Place(h, r, b) /\ heap' = HeapWith(b, t)
     /\ last' = Returned(call, "ok")
  \/ /\ Refuses(Items(h), r)
     /\ last' = Refused(call, h, r)
     /\ UNCHANGED <<list, heap, owned>>
  \/ /\ ~Refuses(Items(h), r)
     /\ last' = Returned(call, "no_memory")
     /\ UNCHANGED <<list, heap, owned>>

\* An edit of exactly this range: an equal text is left alone, any other is
\* replaced in place and its buffer freed.
ReplaceDuplicate(call, h, r, t) ==
  LET i == SearchIndex(Items(h), r)
      old == Items(h)[i].text
  IN  \/ /\ heap[old] = t
         /\ last' = Returned(call, "ok")
         /\ UNCHANGED <<list, heap, owned>>
      \/ /\ heap[old] # t
         /\ \E b \in Buffers :
              /\ Supply(t, b)
              /\ heap' = [c \in (DOMAIN heap \cup {b}) \ {old} |->
                            IF c = b THEN t ELSE heap[c]]
              /\ list' = [list EXCEPT ![h].items[i].text = b]
         /\ last' = Returned(call, "ok")
      \/ /\ heap[old] # t
         /\ last' = Returned(call, "no_memory")
         /\ UNCHANGED <<list, heap, owned>>

InsertDeduplicated(call, h, r, t) ==
  IF IsDuplicate(Items(h), SearchIndex(Items(h), r), r)
  THEN ReplaceDuplicate(call, h, r, t)
  ELSE Insert(call, h, r, t)

PlainInsert(h, r, t) ==
  /\ Idle /\ running[h] = NULL
  /\ Insert("insert", h, r, t)
  /\ UNCHANGED <<running, plan>>

DeduplicatedInsert(h, r, t) ==
  /\ Idle /\ running[h] = NULL
  /\ InsertDeduplicated("deduplicated", h, r, t)
  /\ UNCHANGED <<running, plan>>

\* A batch starts on an empty list and keeps the length of the SQL to come.
BatchBegin(h) ==
  /\ Idle /\ running[h] = NULL /\ Items(h) = <<>>
  /\ running' = [running EXCEPT ![h] = Len(Source)]
  /\ last' = Quiet
  /\ UNCHANGED <<list, plan, heap, owned>>

\* Mutant: a duplicate is measured by the range it replaces.
BatchLengthOfRange(h, r, t) == running[h] - (r.end - r.start) + Len(t)

\* Length of the SQL once the batch holds text t for range r.
BatchLength(h, r, t) ==
  LET i == SearchIndex(Items(h), r)
      old == IF IsDuplicate(Items(h), i, r) THEN Len(heap[Items(h)[i].text])
             ELSE r.end - r.start
  IN  running[h] - old + Len(t)

WithinLimits(n) == n <= MaxSql /\ n <= MaxOutput

\* Over a limit the batch reports it, or gives up silently in favour of the
\* tree when the caller asked for that.
BatchInsert(h, r, t) ==
  /\ Idle /\ running[h] # NULL
  /\ \/ /\ WithinLimits(BatchLength(h, r, t))
        /\ InsertDeduplicated("batch", h, r, t)
        /\ running' = IF last'.status = "ok"
                      THEN [running EXCEPT ![h] = BatchLength(h, r, t)] ELSE running
     \/ /\ ~WithinLimits(BatchLength(h, r, t))
        /\ \E status \in {"limit", "unsupported"} :
             last' = Returned("over", status)
        /\ UNCHANGED <<list, running, heap, owned>>
  /\ UNCHANGED plan

\* INSERT gains a column: one insertion in the column list and one per row,
\* at ascending offsets that no edit touches, all checked before the first.
PlanColumns(h, ranges) ==
  /\ Idle /\ running[h] = NULL
  /\ IF /\ \A j, k \in DOMAIN ranges : j < k => ranges[j].start < ranges[k].start
        /\ \A k \in DOMAIN ranges : Available(Items(h), ranges[k])
     THEN /\ plan' = [handle |-> h, kind |-> "columns", ranges |-> ranges]
          /\ last' = Quiet
     ELSE /\ last' = Returned("columns", "unsupported")
          /\ UNCHANGED plan
  /\ UNCHANGED <<list, running, heap, owned>>

\* Mutant: the two edits are not compared with each other.
PlanPairUnrelated(h, first, second) ==
  /\ Idle /\ running[h] = NULL
  /\ Available(Items(h), first) /\ Available(Items(h), second)
  /\ plan' = [handle |-> h, kind |-> "pair", ranges |-> <<first, second>>]
  /\ last' = Quiet
  /\ UNCHANGED <<list, running, heap, owned>>

\* Two edits that only make sense together, in either order.
PlanPair(h, first, second) ==
  /\ Idle /\ running[h] = NULL
  /\ IF /\ Available(Items(h), first) /\ Available(Items(h), second)
        /\ ~Overlap(first, second)
     THEN /\ plan' = [handle |-> h, kind |-> "pair", ranges |-> <<first, second>>]
          /\ last' = Quiet
     ELSE /\ last' = Returned("pair", "unsupported")
          /\ UNCHANGED plan
  /\ UNCHANGED <<list, running, heap, owned>>

\* One insertion of the plan.  Columns take a refusal for an internal error;
\* a pair reports it as unsupported with its first half already in the list.
PlanStep(t) ==
  LET h == plan.handle
      r == Head(plan.ranges)
  IN  /\ ~Idle
      /\ \/ /\ \E b \in Fresh : Place(h, r, b) /\ heap' = HeapWith(b, t)
            /\ plan' = [plan EXCEPT !.ranges = Tail(@)]
            /\ last' = Quiet
         \/ /\ Refuses(Items(h), r)
            /\ plan' = NoPlan
            /\ last' = Returned(plan.kind,
                 IF plan.kind = "columns" THEN "internal_error" ELSE "unsupported")
            /\ UNCHANGED <<list, heap>>
         \/ /\ ~Refuses(Items(h), r)
            /\ plan' = NoPlan
            /\ last' = Returned(plan.kind, "no_memory")
            /\ UNCHANGED <<list, heap>>
      /\ UNCHANGED <<running, owned>>

Release(h) ==
  /\ Idle
  /\ heap' = HeapWithout(TextsOf(Items(h)))
  /\ list' = [list EXCEPT ![h] = EmptyList]
  /\ running' = [running EXCEPT ![h] = NULL]
  /\ last' = Quiet
  /\ UNCHANGED <<plan, owned>>

\* A clone copies every buffer; one failed copy frees the copies before it.
Clone(g, h) ==
  /\ Idle /\ g # h /\ Items(h) = <<>> /\ running[h] = NULL
  /\ \/ \E copy \in Injection(DOMAIN Items(g), Fresh) :
          /\ heap' = [b \in DOMAIN heap \cup Range(copy) |->
                        IF b \in DOMAIN heap THEN heap[b]
                        ELSE heap[Items(g)[CHOOSE i \in DOMAIN copy : copy[i] = b].text]]
          /\ list' = [list EXCEPT ![h] =
               [items |-> [i \in DOMAIN Items(g) |-> EditOf(Items(g)[i], copy[i])],
                capacity |-> Len(Items(g))]]
          /\ last' = Quiet
     \/ /\ Items(g) # <<>>
        /\ list' = [list EXCEPT ![h] = EmptyList]
        /\ last' = Returned("clone", "no_memory")
        /\ UNCHANGED heap
  /\ UNCHANGED <<running, plan, owned>>

-----------------------------------------------------------------------------
(* Rendering the SQL a list describes.                                     *)

\* Mutant: the source cursor is left at the start of the edit.
CursorAtStart(items, k) == IF k = 1 THEN 0 ELSE items[k - 1].start

Cursor(items, k) == IF k = 1 THEN 0 ELSE items[k - 1].end

\* Length after the first k edits.
PrefixLength(items, k) ==
  LET length[j \in 0..Len(items)] ==
        IF j = 0 THEN Len(Source)
        ELSE length[j - 1] - (items[j].end - items[j].start) + Len(heap[items[j].text])
  IN  length[k]

Verdict(items, k) ==
  LET e == items[k]
      removed == e.end - e.start
      before == PrefixLength(items, k - 1)
  IN  IF e.start < Cursor(items, k) \/ e.end < e.start \/ e.end > Len(Source)
         \/ removed > before
      THEN "internal_error"
      ELSE IF Len(heap[e.text]) > MaxOutput - (before - removed) THEN "limit" ELSE "ok"

Rendered(items) ==
  LET n == Len(items)
      written[k \in 0..n] ==
        IF k = 0 THEN <<>>
        ELSE written[k - 1] \o SubSeq(Source, Cursor(items, k) + 1, items[k].start)
               \o heap[items[k].text]
  IN  written[n] \o SubSeq(Source, Cursor(items, n + 1) + 1, Len(Source))

RestoreOutcome(items) ==
  LET failing == {k \in DOMAIN items : Verdict(items, k) # "ok"}
  IN  IF Len(Source) > MaxOutput THEN "limit"
      ELSE IF failing = {} THEN "ok"
      ELSE Verdict(items, CHOOSE k \in failing : \A j \in failing : k <= j)

Restore(h) ==
  /\ Idle
  /\ LET outcome == RestoreOutcome(Items(h))
     IN  last' = IF outcome = "ok"
                 THEN [call |-> "restore", handle |-> h, status |-> "ok",
                       sql |-> Rendered(Items(h))]
                 ELSE [call |-> "restore", handle |-> h, status |-> outcome]
  /\ UNCHANGED <<list, running, plan, heap, owned>>

-----------------------------------------------------------------------------
ColumnRanges ==
  UNION {[1..(n + 1) -> {r \in Ranges : r.start = r.end}] : n \in 1..MaxRows}

Next ==
  \/ \E t \in Texts : Render(t) \/ PlanStep(t)
  \/ Discard
  \/ \E h \in Handles :
       \/ BatchBegin(h) \/ Release(h) \/ Restore(h)
       \/ \E r \in Ranges, t \in Texts :
            PlainInsert(h, r, t) \/ DeduplicatedInsert(h, r, t) \/ BatchInsert(h, r, t)
       \/ \E ranges \in ColumnRanges : PlanColumns(h, ranges)
       \/ \E first, second \in Ranges : PlanPair(h, first, second)
       \/ \E g \in Handles : Clone(g, h)

Spec == Init /\ [][Next]_vars

-----------------------------------------------------------------------------
(* Properties.                                                             *)

Edit == {e \in [start : Positions, end : Positions, text : Buffers] : e.start <= e.end}

\* The edit lists, batches, plans and buffers of sqlparser_surface.c and of
\* the planners of sqlparser_patch.c hold values of their types.
TypeOK ==
  /\ list \in [Handles -> [items : Seq(Edit), capacity : Nat]]
  /\ \A h \in Handles : Len(Items(h)) <= list[h].capacity
  /\ running \in [Handles -> Int \cup {NULL}]
  /\ plan = NoPlan \/ plan \in [handle : Handles, kind : {"columns", "pair"},
                                ranges : Seq(Ranges)]
  /\ DOMAIN heap \subseteq Buffers
  /\ \A b \in DOMAIN heap : heap[b] \in Texts
  /\ owned \in DOMAIN heap \cup {NULL}

\* The edits of a list are in source order and no two of them conflict, not
\* even by touching at an empty range: the neighbour check of
\* source_edits_insert_internal is enough to exclude every overlap.
ConflictFree(items) ==
  \A i, j \in DOMAIN items :
    i < j => items[i].start < items[j].start /\ ~Overlap(items[i], items[j])
NoTwoEditsConflict == \A h \in Handles : ConflictFree(Items(h))

\* Each live buffer has exactly one owner (an edit of one list, or the
\* caller), and every owner's buffer is live: nothing leaks, dangles or is
\* freed twice across hand-overs, in-place replacements and clones.
EveryBufferHasOneOwner ==
  /\ DOMAIN heap = AllTexts \cup ({owned} \ {NULL})
  /\ \A h \in Handles : owned \notin TextsOf(Items(h))
  /\ \A g, h \in Handles : \A i \in DOMAIN Items(g), j \in DOMAIN Items(h) :
       Items(g)[i].text = Items(h)[j].text => g = h /\ i = j

\* An insertion that reports "unsupported" had a reason: an edit of the list
\* really conflicts, and for the deduplicating insertion that edit is not one
\* of exactly this range (sqlparser_patch_surface_edit_insert_deduplicated).
RefusalHasAConflict ==
  last.call \in {"insert", "deduplicated", "batch"} /\ last.status = "unsupported" =>
    /\ ~Available(Items(last.handle), last.range)
    /\ last.call # "insert" =>
         ~\E i \in DOMAIN Items(last.handle) : IsDuplicate(Items(last.handle), i, last.range)

\* A plan that passed its checks never finds an insertion refused, so the
\* "overlap unexpectedly" error of plan_insert_columns is unreachable and a
\* pair is never reported unsupported with one half left in the list.
PlannedInsertionsFit ==
  plan.ranges # <<>> => ~Refuses(Items(plan.handle), Head(plan.ranges))

\* What keeps it so: every remaining insertion of a plan is free of conflicts
\* with the list and with the insertions that come before it.
PlanStaysAvailable ==
  /\ \A k \in DOMAIN plan.ranges : Available(Items(plan.handle), plan.ranges[k])
  /\ \A j, k \in DOMAIN plan.ranges : j < k => ~Overlap(plan.ranges[j], plan.ranges[k])

\* The inductive invariant of the edit lists.
ListInvariant ==
  TypeOK /\ NoTwoEditsConflict /\ EveryBufferHasOneOwner /\ PlanStaysAvailable

\* The text of source position p (0 .. length) under the edits as a set.
Piece(items, p) ==
  LET here == {i \in DOMAIN items : items[i].start = p}
      covered == \E i \in DOMAIN items : items[i].start <= p /\ p < items[i].end
      text == IF here = {} THEN <<>> ELSE heap[items[CHOOSE i \in here : TRUE].text]
  IN  text \o (IF covered \/ p = Len(Source) THEN <<>> ELSE <<Source[p + 1]>>)

\* What restore_source_edits writes in one pass with two cursors is the source
\* with all edits made at once, byte position by byte position; it never meets
\* its errors "source edit interval is invalid" and "output length is invalid".
RestoredSqlMakesEveryEdit ==
  last.call = "restore" =>
    /\ last.status # "internal_error"
    /\ last.status = "ok" =>
         /\ Len(last.sql) <= MaxOutput
         /\ last.sql = FlattenSeq([p \in 1..(Len(Source) + 1) |-> Piece(Items(last.handle), p - 1)])

\* The running length a batch keeps from edit to edit, duplicates included, is
\* the length of the SQL its list renders, so the limit is checked on the SQL.
BatchLengthIsExact ==
  \A h \in Handles :
    running[h] # NULL => running[h] = Len(Rendered(Items(h)))
=============================================================================
