---------------------------- MODULE MySqlSurface ----------------------------
(***************************************************************************)
(* What the MySQL dialect keeps beside the parse tree, which is            *)
(* PostgreSQL's: index hints and partitions of tables, STRAIGHT_JOIN,      *)
(* LIMIT with a comma, national literals (sqlparser_dialect_mysql.c,       *)
(* sqlparser_dialect_ast_surface.c, sqlparser_dialect_national_literal.c). *)
(* Preprocessing cuts each of them out of the text and files it under a    *)
(* number: the table's place among the FROM, JOIN and UPDATE words of its  *)
(* statement, the limit's among the limits of the text.  While the tree is *)
(* unpacked every record is bound to a node, found by counting nodes.  A   *)
(* patch moves nodes; its commit turns owners back into numbers.           *)
(* Deparsing counts words of the new text and puts each record back.       *)
(*                                                                         *)
(* Numbers come from text, owners are addresses that are used again, and   *)
(* three counts (text, tree, text again) must agree for a hint to be       *)
(* written where it was.                                                   *)
(***************************************************************************)
EXTENDS Integers, FiniteSets, SequencesExt

CONSTANTS
  Documents,   \* texts a handle may start from: sequences of statements
  Fragments,   \* texts a patch may bring: sequences of shapes
  MaxEdits,    \* bound: patches over the life of the handle
  MaxNodes     \* bound: nodes alive at once

NULL == 0      \* no address

\* The tracks are named for the nodes their records belong to: hints and
\* partitions to relations, STRAIGHT_JOIN to joins, commas to limits, N'..'
\* to string literals.  The first two are numbered within a statement.
ByStatement == {"relation", "join"}
Tracks == ByStatement \union {"limit", "literal"}

\* What text may hold, in order: nodes of the tracks, derived tables, which
\* are counted but never dressed, and "word", a FROM or an UPDATE that
\* introduces no table, as in EXTRACT(.. FROM ..) or IS DISTINCT FROM.  The
\* instances leave words out: README, "Findings".
Kinds == Tracks \union {"derived", "word"}

IsShape(n) ==
  /\ DOMAIN n = {"kind", "dress"}
  /\ n.kind \in Kinds
  /\ IsFiniteSet(DOMAIN n.dress)
  /\ n.kind \notin Tracks => n.dress = <<>>
  /\ n.kind # "relation" => Len(n.dress) <= 1

\* What is assumed of the constants; a module that instantiates this one asserts it.
InputAssumption ==
  /\ \A d \in Documents : \A s \in DOMAIN d : \A i \in DOMAIN d[s] : IsShape(d[s][i])
  /\ \A f \in Fragments : f # <<>> /\ \A i \in DOMAIN f : IsShape(f[i])
BoundAssumption == {MaxEdits, MaxNodes} \subseteq Nat \ {0}

VARIABLES
  doc,      \* the statements, each the sequence of its nodes; a node is a
            \* shape and the address it has in memory (NULL: none)
  surface,  \* the records of each track: key, order, text, owner
  counts,   \* limit_count and the literals' literal_count
  starts,   \* fragment_*_start: the first record of the last fragment
  bases,    \* fragment_limit_base, fragment_literal_base
  staged,   \* the nodes of a fragment parsed but not installed
  loaded,   \* are the records bound to the nodes of an unpacked tree?
  lost,     \* did a bind report "surface AST owner is missing"?
  edits     \* patches so far, for the bound

vars == <<doc, surface, counts, starts, bases, staged, loaded, lost, edits>>

-----------------------------------------------------------------------------
(***************************************************************************)
(* Counting.  A scan of text counts words; a walk of the tree does not.    *)
(***************************************************************************)
Counted(scan, t) ==
  {t} \union IF t # "relation" THEN {}
             ELSE {"derived"} \union IF scan = "text" THEN {"word"} ELSE {}

\* The nodes counted for track t, in order, with the numbers they get.
\* Limits are numbered from 1, all others from 0.
Visits(scan, t, stmts, first, base) ==
  LET c == [s \in DOMAIN stmts |->
              SelectSeq(stmts[s], LAMBDA n : n.kind \in Counted(scan, t))]
      all == FlattenSeq(c)
  IN IF t \in ByStatement
     THEN FlattenSeq([s \in DOMAIN c |->
            [i \in DOMAIN c[s] |->
              [key |-> <<first + s - 1, i - 1>>, node |-> c[s][i]]]])
     ELSE [i \in DOMAIN all |->
            [key |-> <<0, base + i - IF t = "limit" THEN 0 ELSE 1>>,
             node |-> all[i]]]

KeyBefore(a, b) == a[1] < b[1] \/ (a[1] = b[1] /\ a[2] < b[2])

\* Preprocessing: the records a scan of stmts adds, after n older ones.
Scanned(t, stmts, first, base, n) ==
  LET found == FlattenSeq([i \in DOMAIN Visits("text", t, stmts, first, base) |->
                 LET v == Visits("text", t, stmts, first, base)[i]
                 IN [h \in DOMAIN v.node.dress |->
                      [key |-> v.key, text |-> v.node.dress[h], owner |-> NULL]]])
  IN [i \in DOMAIN found |->
       [key |-> found[i].key, order |-> n + i, text |-> found[i].text,
        owner |-> NULL]]

NodesOf(stmts) == UNION {Range(stmts[s]) : s \in DOMAIN stmts}
CountOf(t, stmts) == Len(FlattenSeq([s \in DOMAIN stmts |->
                           SelectSeq(stmts[s], LAMBDA n : n.kind = t)]))

(***************************************************************************)
(* Memory.  A parse takes the lowest free addresses, those of freed nodes  *)
(* among them.                                                             *)
(***************************************************************************)
Addresses(nodes) == {n.at : n \in nodes}
Free(used) == SelectSeq([a \in 1..MaxNodes |-> a], LAMBDA a : a \notin used)
Place(shapes, used) ==
  [i \in DOMAIN shapes |->
    [kind |-> shapes[i].kind, dress |-> shapes[i].dress, at |-> Free(used)[i]]]
Unplaced(shapes) ==
  [i \in DOMAIN shapes |->
    [kind |-> shapes[i].kind, dress |-> shapes[i].dress, at |-> NULL]]
\* The statements placed one after the other, as unpacking allocates them.
PlaceAll(stmts) ==
  LET before(s) == Cardinality(UNION {{<<r, i>> : i \in DOMAIN stmts[r]} : r \in 1..(s - 1)})
  IN [s \in DOMAIN stmts |-> Place(stmts[s], 1..before(s))]

(***************************************************************************)
(* Binding a range of records: the walk meets nodes in order and the       *)
(* records wait in order, so a record that is out of order, or whose       *)
(* number no node of its kind has, is left over.                           *)
(***************************************************************************)
OwnerOf(r, t, visits) ==
  LET hit == {i \in DOMAIN visits : visits[i].key = r.key /\ visits[i].node.kind = t}
  IN IF hit = {} THEN NULL ELSE visits[CHOOSE i \in hit : TRUE].node.at

Bound(records, t, visits) ==
  [i \in DOMAIN records |->
    [records[i] EXCEPT !.owner = OwnerOf(records[i], t, visits)]]

\* National literals alone are put in order before they are bound.
InOrder(records, t) ==
  IF t = "literal"
  THEN SortSeq(records, LAMBDA a, b : KeyBefore(a.key, b.key))
  ELSE records

Binds(records, t, visits) ==
  /\ \A i \in 1..(Len(records) - 1) : ~KeyBefore(records[i + 1].key, records[i].key)
  /\ \A i \in DOMAIN records : OwnerOf(records[i], t, visits) # NULL

Unbound(records) == [i \in DOMAIN records |-> [records[i] EXCEPT !.owner = NULL]]

\* bind_ast_state: all records against the whole tree.
WholeBinds(s, d) ==
  \A t \in Tracks : Binds(InOrder(s[t], t), t, Visits("tree", t, d, 1, 0))
WholeBound(s, d) ==
  [t \in Tracks |-> Bound(InOrder(s[t], t), t, Visits("tree", t, d, 1, 0))]

\* bind_fragment_ast_state: the old records against the tree, the fragment's
\* against its own nodes, each with the numbers its scan gave.
BaseRecords(s, t) == InOrder(SubSeq(s[t], 1, starts'[t]), t)
FragmentRecords(s, t) == InOrder(SubSeq(s[t], starts'[t] + 1, Len(s[t])), t)
FragmentBase(t) == IF t \in ByStatement THEN 0 ELSE bases'[t]

\* Mutant: the commit leaves the records in the order of their addresses.
ReconciledUnsorted(records, t, d) ==
  LET v == Visits("tree", t, d, 1, 0)
      places(r) == {i \in DOMAIN v : v[i].node.at = r.owner /\ v[i].node.kind = t}
      kept == SelectSeq(records, LAMBDA r : places(r) # {})
      keyed == [i \in DOMAIN kept |->
                 [kept[i] EXCEPT !.key = v[CHOOSE p \in places(kept[i]) : TRUE].key]]
  IN SortSeq(keyed, LAMBDA a, b : a.owner < b.owner)

\* Mutant: the commit drops dead records and leaves the others their numbers.
ReconciledByDropping(records, t, d) ==
  SelectSeq(records, LAMBDA r : r.owner \in {n.at : n \in NodesOf(d)})

\* Mutant: the commit keeps the records of nodes that are gone.
ReconciledKeeping(records, t, d) ==
  LET v == Visits("tree", t, d, 1, 0)
      places(r) == {i \in DOMAIN v : v[i].node.at = r.owner /\ v[i].node.kind = t}
  IN [i \in DOMAIN records |->
       [records[i] EXCEPT !.key = IF places(records[i]) = {} THEN <<-1, -1>>
                                  ELSE v[CHOOSE p \in places(records[i]) : TRUE].key]]

(***************************************************************************)
(* The commit: records follow their owners to new numbers; those whose     *)
(* owner is gone from the tree are dropped.                                *)
(***************************************************************************)
Reconciled(records, t, d) ==
  LET v == Visits("tree", t, d, 1, 0)
      places(r) == {i \in DOMAIN v : v[i].node.at = r.owner /\ v[i].node.kind = t}
      kept == SelectSeq(records, LAMBDA r : places(r) # {})
      keyed == [i \in DOMAIN kept |->
                 [kept[i] EXCEPT !.key = v[CHOOSE p \in places(kept[i]) : TRUE].key]]
  IN SortSeq(keyed, LAMBDA a, b : \/ KeyBefore(a.key, b.key)
                                  \/ (a.key = b.key /\ a.order < b.order))

\* Copying a part of the tree: each copy gets the records of its source.
\* Their numbers are unknown until the commit.
Unnumbered == <<-1, -1>>
\* Mutant: only the records of the first node of a copy are copied.
CopiedFirst(records, t, sources, copies) ==
  LET mine == SelectSeq(records, LAMBDA r : r.owner = sources[1].at)
  IN records \o [i \in DOMAIN mine |->
       [mine[i] EXCEPT !.key = Unnumbered, !.owner = copies[1].at,
                       !.order = Len(records) + i]]

Copied(records, t, sources, copies) ==
  LET sorted == SortSeq(records, LAMBDA a, b :
                  a.owner < b.owner \/ (a.owner = b.owner /\ a.order < b.order))
      new == FlattenSeq([i \in DOMAIN sources |->
               LET mine == SelectSeq(sorted, LAMBDA r : r.owner = sources[i].at)
               IN [h \in DOMAIN mine |->
                    [mine[h] EXCEPT !.key = Unnumbered, !.owner = copies[i].at]]])
  IN sorted \o [i \in DOMAIN new |-> [new[i] EXCEPT !.order = Len(sorted) + i]]

\* Deparsing: the texts that are put back at number k of the new text.
Restored(records, k) ==
  LET here == SelectSeq(records, LAMBDA r : r.key = k)
  IN [i \in DOMAIN here |-> here[i].text]

-----------------------------------------------------------------------------
Init ==
  \E d \in Documents :
    /\ doc = [s \in DOMAIN d |-> Unplaced(d[s])]
    /\ surface = [t \in Tracks |-> Scanned(t, doc, 1, 0, 0)]
    /\ counts = [t \in {"limit", "literal"} |-> CountOf(t, doc)]
    /\ starts = [t \in Tracks |-> 0]
    /\ bases = [t \in {"limit", "literal"} |-> 0]
    /\ staged = <<>>
    /\ loaded = FALSE
    /\ lost = FALSE
    /\ edits = 0

\* A call that needs the tree unpacks it and binds every record.  One record
\* without an owner fails the call.
EnsureAst ==
  /\ ~loaded /\ ~lost
  /\ LET placed == PlaceAll(doc)
     IN IF WholeBinds(surface, placed)
        THEN /\ doc' = placed
             /\ surface' = WholeBound(surface, placed)
             /\ loaded' = TRUE
             /\ UNCHANGED lost
        ELSE lost' = TRUE /\ UNCHANGED <<doc, surface, loaded>>
  /\ UNCHANGED <<counts, starts, bases, staged, edits>>

\* The tree is packed again and freed: the owners are forgotten.
DiscardAst ==
  /\ loaded /\ staged = <<>> /\ ~lost
  /\ doc' = [s \in DOMAIN doc |-> Unplaced(doc[s])]
  /\ surface' = [t \in Tracks |-> Unbound(surface[t])]
  /\ loaded' = FALSE
  /\ UNCHANGED <<counts, starts, bases, staged, lost, edits>>

\* From here on the program runs on a copy of the handle.  The copy has the
\* records and the counts, and no owners.
UseClone ==
  /\ staged = <<>> /\ ~lost
  /\ doc' = [s \in DOMAIN doc |-> Unplaced(doc[s])]
  /\ surface' = [t \in Tracks |-> Unbound(surface[t])]
  /\ starts' = [t \in Tracks |-> Len(surface[t])]
  /\ bases' = counts
  /\ loaded' = FALSE
  /\ UNCHANGED <<counts, staged, lost, edits>>

\* The text of a patch, for statement s: its records go behind the old
\* ones, then both ranges are bound.  A failure destroys the handle.
ParseFragment(f, s) ==
  /\ loaded /\ staged = <<>> /\ ~lost /\ edits < MaxEdits
  /\ starts' = [t \in Tracks |-> Len(surface[t])]
  /\ bases' = counts
  /\ counts' = [t \in DOMAIN counts |-> counts[t] + CountOf(t, <<f>>)]
  /\ Cardinality(NodesOf(doc)) + Len(f) <= MaxNodes
  /\ LET nodes == Place(f, Addresses(NodesOf(doc)))
         all == [t \in Tracks |->
                  surface[t] \o Scanned(t, <<f>>, s, FragmentBase(t), Len(surface[t]))]
         base(t) == Visits("tree", t, doc, 1, 0)
         own(t) == Visits("tree", t, <<nodes>>, s, FragmentBase(t))
     IN /\ staged' = nodes
        /\ IF \A t \in Tracks : /\ Binds(BaseRecords(all, t), t, base(t))
                                /\ Binds(FragmentRecords(all, t), t, own(t))
           THEN /\ surface' = [t \in Tracks |->
                     Bound(BaseRecords(all, t), t, base(t))
                       \o Bound(FragmentRecords(all, t), t, own(t))]
                /\ UNCHANGED lost
           ELSE surface' = all /\ lost' = TRUE
  /\ UNCHANGED <<doc, loaded, edits>>

\* The end of every patch: the tree is now d.
Commit(records, d) ==
  /\ doc' = d
  /\ surface' = [t \in Tracks |-> Reconciled(records[t], t, d)]
  /\ counts' = [t \in DOMAIN counts |-> CountOf(t, d)]
  /\ starts' = [t \in Tracks |-> Len(surface'[t])]
  /\ bases' = counts'
  /\ staged' = <<>>
  /\ edits' = edits + 1
  /\ UNCHANGED <<loaded, lost>>

\* The nodes of a statement from place i to place j; none when j = i - 1.
Spans(s) == {<<i, j>> \in (1..(Len(doc[s]) + 1)) \X (0..Len(doc[s])) : i <= j + 1}
Splice(s, i, j, nodes) ==
  [doc EXCEPT ![s] = SubSeq(@, 1, i - 1) \o nodes \o SubSeq(@, j + 1, Len(@))]

\* The fragment takes the place of the nodes from i to j.
Install(s, i, j) ==
  /\ staged # <<>> /\ ~lost
  /\ Commit(surface, Splice(s, i, j, staged))

\* insert_column: one default for every row.  Each row gets a copy, and the
\* fragment itself is freed before the commit.
InstallCopies(s, i, j) ==
  /\ staged # <<>> /\ ~lost
  /\ i < j
  /\ Cardinality(NodesOf(doc)) + 3 * Len(staged) <= MaxNodes
  /\ LET used == Addresses(NodesOf(doc) \union Range(staged))
         one == Place(staged, used)
         two == Place(staged, used \union Addresses(Range(one)))
         records == [t \in Tracks |->
                      Copied(surface[t], t, staged \o staged, one \o two)]
     IN Commit(records, Splice(s, i, j - 1, one \o SubSeq(doc[s], i, j - 1) \o two))

\* A fragment that turns out to be of no use, as for a table without rows.
DropFragment ==
  /\ staged # <<>> /\ ~lost
  /\ Commit(surface, doc)

\* Copying an assignment: bind again, copy the nodes from i to j with their
\* records, put the copy in before place k.
CopyNodes(s, i, j, k) ==
  /\ loaded /\ staged = <<>> /\ ~lost /\ edits < MaxEdits
  /\ i <= j /\ k \notin (i + 1)..j
  /\ Cardinality(NodesOf(doc)) + j - i + 1 <= MaxNodes
  /\ LET copy == Place(SubSeq(doc[s], i, j), Addresses(NodesOf(doc)))
     IN IF WholeBinds(surface, doc)
        THEN LET bound == WholeBound(surface, doc)
                 records == [t \in Tracks |->
                              Copied(bound[t], t, SubSeq(doc[s], i, j), copy)]
             IN Commit(records, Splice(s, k, k - 1, copy))
        ELSE lost' = TRUE /\ UNCHANGED <<doc, surface, counts, starts, bases, staged, loaded, edits>>

RemoveNodes(s, i, j) ==
  /\ loaded /\ staged = <<>> /\ ~lost /\ edits < MaxEdits
  /\ i <= j
  /\ Commit(surface, Splice(s, i, j, <<>>))

Next ==
  \/ EnsureAst
  \/ DiscardAst
  \/ UseClone
  \/ DropFragment
  \/ \E s \in DOMAIN doc :
       \/ \E f \in Fragments : ParseFragment(f, s)
       \/ \E span \in Spans(s) :
            \/ Install(s, span[1], span[2])
            \/ InstallCopies(s, span[1], span[2])
            \/ RemoveNodes(s, span[1], span[2])
            \/ \E k \in 1..(Len(doc[s]) + 1) : CopyNodes(s, span[1], span[2], k)

Spec == Init /\ [][Next]_vars

-----------------------------------------------------------------------------
Alive == NodesOf(doc) \union Range(staged)

\* The state has its shape.  Between calls every record has a number, no two
\* nodes share an address, and the last fragment's range is empty.
TypeOK ==
  /\ \A n \in Alive : IsShape([kind |-> n.kind, dress |-> n.dress])
  /\ DOMAIN surface = Tracks
  /\ loaded \in BOOLEAN /\ lost \in BOOLEAN /\ edits \in 0..MaxEdits
  /\ loaded => Cardinality(Addresses(Alive))
                 = Len(FlattenSeq(doc)) + Len(staged)
  /\ ~loaded => Addresses(Alive) \subseteq {NULL}
  /\ \A t \in Tracks :
       /\ starts[t] \in 0..Len(surface[t])
       /\ \A i \in DOMAIN surface[t] :
            /\ surface[t][i].key # Unnumbered
            /\ surface[t][i].owner \in IF loaded /\ ~lost THEN 1..MaxNodes ELSE {NULL} \union 1..MaxNodes
  /\ \A t \in DOMAIN counts : bases[t] <= counts[t]

\* No bind reports that the tree lacks a record's node
\* (sqlparser_mysql_bind_surface_range, "surface AST owner is missing").  While a tree is loaded, the records a node owns are the decorations its
\* text had, in their order, and no record belongs to freed memory: an
\* address used again must not inherit what its last node wore.
OwnersWearTheirDress ==
  /\ ~lost
  /\ loaded =>
       \A t \in Tracks :
         /\ \A i \in DOMAIN surface[t] : surface[t][i].owner \in Addresses(Alive)
         /\ \A n \in Alive :
              n.kind = t =>
                LET mine == SelectSeq(surface[t], LAMBDA r : r.owner = n.at)
                IN [i \in DOMAIN mine |-> mine[i].text] = n.dress

\* Between calls, deparsing writes every decoration at the node it was given
\* to and nowhere else, whatever patches moved, copied or removed around it.
SurfaceIsKept ==
  staged = <<>> /\ ~lost =>
    \A t \in Tracks :
      LET v == Visits("text", t, doc, 1, 0)
      IN /\ \A i \in DOMAIN v : Restored(surface[t], v[i].key) = v[i].node.dress
         /\ \A i \in DOMAIN surface[t] : \E p \in DOMAIN v : v[p].key = surface[t][i].key
=============================================================================
