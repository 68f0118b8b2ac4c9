------------------------- MODULE IdentifierSpelling -------------------------
(***************************************************************************)
(* The spelling arena of a handle (sqlparser_core.c): the exact text of    *)
(* every identifier that came with a patch, kept outside the parse tree.   *)
(* A generated node has no place in the source; its location field is a    *)
(* number made of a group of the arena and of a component of that group.   *)
(* The arena cannot see who holds such a number: after each committed      *)
(* patch it walks the tree and frees the groups it did not meet, and the   *)
(* next fragment takes the first hole.                                     *)
(*                                                                         *)
(* Numbers also live where the walk does not go: in fragments parsed but   *)
(* not installed, in the packed tree while no tree is unpacked, and in the *)
(* records that remember an alias's first spelling.  Whoever reads one of  *)
(* these must find the text that was stored for it, never another's.       *)
(***************************************************************************)
EXTENDS Integers, FiniteSets, SequencesExt

CONSTANTS
  Owners,         \* nodes of the statement that may hold a location
  Aliases,        \* those of them that are aliases, which can be renamed
  Texts,          \* spellings
  Messages,       \* the spellings a generated node may have, in order
  Components,     \* SQLPARSER_PROTO_IDENTIFIER_SPELLING_COMPONENTS
  MaxGroups,      \* SQLPARSER_PROTO_IDENTIFIER_SPELLING_GROUP_MAX + 1
  FirstCapacity,  \* capacity of the first allocation
  MaxEdits,       \* bound: commits over the life of the handle
  MaxHeld,        \* bound: fragments an edit holds at once
  NULL

ASSUME AliasAssumption == Aliases \subseteq Owners
ASSUME MessageAssumption == Messages \subseteq Seq(Texts) \ {<<>>}
ASSUME SizeAssumption ==
  {Components, MaxGroups, FirstCapacity, MaxEdits, MaxHeld} \subseteq Nat \ {0}
ASSUME CapacityAssumption == FirstCapacity <= MaxGroups
ASSUME NullAssumption == NULL \notin Nat \cup Texts

VARIABLES
  arena,    \* the arena: groups, capacity, free, build, status
  tree,     \* the locations of the unpacked AST, NULL when it is not loaded
  wire,     \* the locations of the packed tree
  held,     \* the locations of fragments not yet installed
  records,  \* original_alias_location of the handle's mutation records
  phase,    \* "idle" or inside an edit: "marking" a fragment, "editing"
  batch,    \* is serialization put off to the end of a list of patches?
  dirty,    \* does the AST hold changes that the wire lacks?
  swept,    \* nothing was built or dropped since the last complete sweep
  edits     \* commits so far, for the bound

vars == <<arena, tree, wire, held, records, phase, batch, dirty, swept, edits>>

(***************************************************************************)
(* A group is a sequence of texts; the empty sequence is a hole.  Groups   *)
(* are numbered from 1 (the code starts at 0).  A location names a first   *)
(* component; a path of k identifiers reads k components from there on.    *)
(* stored is what the fragment spelled, never read by the code.            *)
(***************************************************************************)
Group == SeqOf(Texts, Components)
Node == [group : 1..MaxGroups, component : 1..Components,
         stored : Seq(Texts)]
AreNodes(f) == DOMAIN f \subseteq Owners /\ f \in [DOMAIN f -> Node]
ASSUME TreeAssumption == \A S \in SUBSET Owners : NULL \notin [S -> Node]
\* The nodes of new installed over those of old, and one node of them.
Installed(new, old) ==
  [o \in DOMAIN new \cup DOMAIN old |-> IF o \in DOMAIN new THEN new[o] ELSE old[o]]
WithNode(nodes, o, n) == [p \in DOMAIN nodes \cup {o} |-> IF p = o THEN n ELSE nodes[p]]
Statuses == {"OK", "NO_MEMORY", "RESOURCE_LIMIT"}

Count(a) == Len(a.groups)

\* sqlparser_handle_identifier_spelling, for the k-th identifier of a node.
SpellingAt(a, n, k) ==
  IF n.group <= Count(a) /\ n.component + k - 1 <= Len(a.groups[n.group])
  THEN a.groups[n.group][n.component + k - 1] ELSE NULL

-----------------------------------------------------------------------------
(* Building a group.                                                       *)

Begin(a) == [a EXCEPT !.build = NULL]

Holes(a) == {g \in 1..Count(a) : a.groups[g] = <<>>}

\* The first hole from the remembered place on, or the place after the last.
FirstHole(a) ==
  LET ahead == {g \in Holes(a) : g >= a.free}
  IN  IF ahead = {} THEN Count(a) + 1 ELSE CHOOSE g \in ahead : \A h \in ahead : g <= h

NewCapacity(a) == IF a.capacity = 0 THEN FirstCapacity ELSE 2 * a.capacity

\* Mutant: the limit on the groups is missed by the capacity check.
TakeUnlimited(a) ==
  LET g == FirstHole(a)
  IN  [a EXCEPT !.groups = IF g <= Count(a) THEN @ ELSE Append(@, <<>>),
                !.build = g, !.free = g + 1,
                !.capacity = IF Count(a) = @ THEN NewCapacity(a) ELSE @]

\* Mutant: room left in the array is not looked at.
TakeOnlyByDoubling(a) ==
  LET g == FirstHole(a)
  IN  IF g <= Count(a) THEN [a EXCEPT !.build = g, !.free = g + 1]
      ELSE IF Count(a) >= MaxGroups THEN [a EXCEPT !.status = "RESOURCE_LIMIT"]
      ELSE IF NewCapacity(a) > MaxGroups THEN [a EXCEPT !.status = "NO_MEMORY"]
      ELSE [a EXCEPT !.groups = Append(@, <<>>), !.build = g, !.free = g + 1,
                     !.capacity = NewCapacity(a)]

TakeGroup(a) ==
  LET g == FirstHole(a)
  IN  IF g <= Count(a) THEN [a EXCEPT !.build = g, !.free = g + 1]
      ELSE IF Count(a) >= MaxGroups THEN [a EXCEPT !.status = "RESOURCE_LIMIT"]
      ELSE IF Count(a) = a.capacity /\ NewCapacity(a) > MaxGroups
        THEN [a EXCEPT !.status = "NO_MEMORY"]
      ELSE [a EXCEPT !.groups = Append(@, <<>>), !.build = g, !.free = g + 1,
                     !.capacity = IF Count(a) = @ THEN NewCapacity(a) ELSE @]

AppendSpelling(a, text) ==
  IF a.status # "OK" THEN a
  ELSE LET b == IF a.build = NULL THEN TakeGroup(a) ELSE a
       IN  IF b.status # "OK" THEN b
           ELSE IF Len(b.groups[b.build]) >= Components
             THEN [b EXCEPT !.status = "RESOURCE_LIMIT"]
           ELSE [b EXCEPT !.groups[b.build] = Append(@, text)]

\* The copy of the text fails; the group just taken stays empty.
AppendFails(a) ==
  LET b == IF a.build = NULL /\ a.status = "OK" THEN TakeGroup(a) ELSE a
  IN  IF b.status = "OK" THEN [b EXCEPT !.status = "NO_MEMORY"] ELSE b

\* A whole message; it has a spelling location when a group was taken.
Spelled(a, texts) ==
  LET built[k \in 0..Len(texts)] ==
        IF k = 0 THEN Begin(a) ELSE AppendSpelling(built[k - 1], texts[k])
  IN  built[Len(texts)]

FinishSpelling(a) == [a EXCEPT !.status = "OK", !.build = NULL]

-----------------------------------------------------------------------------
(* The sweep.                                                              *)

GroupsIn(nodes) == {nodes[o].group : o \in DOMAIN nodes}

\* Mutant: the records are no roots.
MarkTreeOnly(nodes, recs) == GroupsIn(nodes)

MarkedGroups(nodes, recs) == GroupsIn(nodes) \cup GroupsIn(recs)

\* Mutant: holes are not looked for again.
SweptForgetsHoles(a, used, grant) ==
  LET kept == [g \in 1..Count(a) |-> IF g \in used THEN a.groups[g] ELSE <<>>]
      live == {g \in 1..Count(a) : kept[g] # <<>>}
      last == IF live = {} THEN 0 ELSE CHOOSE g \in live : \A h \in live : h <= g
  IN  [a EXCEPT !.groups = SubSeq(kept, 1, last), !.free = last + 1,
        !.capacity = IF last = 0 THEN 0 ELSE IF grant /\ @ > 2 * last THEN last ELSE @]

\* Unmarked groups are freed, holes at the end dropped, and the array is shrunk
\* (grant is whether the smaller array was granted).
Swept(a, used, grant) ==
  LET kept == [g \in 1..Count(a) |-> IF g \in used THEN a.groups[g] ELSE <<>>]
      live == {g \in 1..Count(a) : kept[g] # <<>>}
      last == IF live = {} THEN 0 ELSE CHOOSE g \in live : \A h \in live : h <= g
      holes == 1..last \ live
  IN  [a EXCEPT
        !.groups = SubSeq(kept, 1, last),
        !.capacity = IF last = 0 THEN 0 ELSE IF grant /\ @ > 2 * last THEN last ELSE @,
        !.free = IF holes = {} THEN last + 1
                 ELSE CHOOSE g \in holes : \A h \in holes : g <= h]

-----------------------------------------------------------------------------
EmptyArena == [groups |-> <<>>, capacity |-> 0, free |-> 1, build |-> NULL,
               status |-> "OK"]

Init ==
  /\ arena = EmptyArena
  /\ tree = NULL /\ wire = <<>> /\ held = <<>> /\ records = <<>>
  /\ phase = "idle" /\ batch = FALSE /\ dirty = FALSE
  /\ swept = TRUE /\ edits = 0

EnsureAst ==
  /\ tree = NULL /\ phase # "failed"
  /\ tree' = wire
  /\ UNCHANGED <<arena, wire, held, records, phase, batch, dirty, swept, edits>>

\* After a read the unpacked copy of the wire is dropped.
DiscardAstAdapter ==
  /\ phase = "idle" /\ tree # NULL /\ ~dirty
  /\ tree' = NULL
  /\ UNCHANGED <<arena, wire, held, records, phase, batch, dirty, swept, edits>>

\* Marking a node of a fragment that will become o: its group is built, and its
\* location names a first component of it.
MarkMessage(o, texts, c) ==
  /\ tree # NULL /\ edits < MaxEdits
  /\ o \notin DOMAIN held /\ Cardinality(DOMAIN held) < MaxHeld
  /\ c <= Len(texts)
  /\ LET b == Spelled(arena, texts)
     IN  /\ arena' = b
         /\ held' = IF b.build = NULL THEN held
                    ELSE WithNode(held, o, [group |-> b.build, component |-> c,
                                            stored |-> SubSeq(texts, c, Len(texts))])
  /\ phase' = "marking" /\ swept' = FALSE
  /\ UNCHANGED <<tree, wire, records, batch, dirty, edits>>

MarkMessageFails ==
  /\ tree # NULL /\ edits < MaxEdits
  /\ arena' = AppendFails(Begin(arena))
  /\ phase' = "marking" /\ swept' = FALSE
  /\ UNCHANGED <<tree, wire, held, records, batch, dirty, edits>>

\* A node copied inside the tree shares the group of the original.
CloneProtoNode(o, p) ==
  /\ tree # NULL /\ phase # "marking" /\ edits < MaxEdits
  /\ o \in DOMAIN tree /\ p \notin DOMAIN held
  /\ Cardinality(DOMAIN held) < MaxHeld
  /\ held' = WithNode(held, p, tree[o])
  /\ phase' = "editing"
  /\ UNCHANGED <<arena, tree, wire, records, batch, dirty, swept, edits>>

FinishGeneratedSource ==
  /\ phase = "marking" /\ arena.status = "OK"
  /\ arena' = FinishSpelling(arena)
  /\ phase' = "editing"
  /\ UNCHANGED <<tree, wire, held, records, batch, dirty, swept, edits>>

\* A failed step destroys what the handle held.
ReleaseContents ==
  /\ arena' = EmptyArena /\ tree' = NULL /\ wire' = <<>> /\ held' = <<>>
  /\ records' = <<>> /\ phase' = "failed" /\ batch' = FALSE /\ dirty' = FALSE
  /\ swept' = TRUE /\ UNCHANGED edits

FinishFails == phase = "marking" /\ arena.status # "OK" /\ ReleaseContents

\* A fragment parsed only to validate it is freed without a sweep.
ClearIdentifierPath ==
  /\ phase = "editing"
  /\ held' = <<>> /\ phase' = "idle"
  /\ swept' = (swept /\ arena.groups = <<>>)
  /\ UNCHANGED <<arena, tree, wire, records, batch, dirty, edits>>

\* The AST was changed to nodes: it is packed unless a batch puts that off, then
\* the arena a is swept, unless the mark bits cannot be allocated.
CommitAst(a, nodes, recs) ==
  /\ edits < MaxEdits
  /\ tree' = nodes /\ held' = <<>> /\ phase' = "idle" /\ edits' = edits + 1
  /\ wire' = IF batch THEN wire ELSE nodes
  /\ dirty' = batch /\ UNCHANGED batch
  /\ \/ arena' = a /\ swept' = FALSE
     \/ /\ \E grant \in BOOLEAN :
             arena' = Swept(a, MarkedGroups(nodes, recs), grant)
        /\ swept' = TRUE

\* Mutant: the sweep comes before the records are bound again.
InstallThenRebind ==
  /\ phase = "editing" /\ held # <<>>
  /\ records' = Restrict(records, DOMAIN records \ DOMAIN held)
  /\ CommitAst(arena, Installed(held, tree), records)

\* The records of replaced or removed names go when the commit rebinds them.
InstallFragments ==
  /\ phase = "editing" /\ held # <<>>
  /\ records' = Restrict(records, DOMAIN records \ DOMAIN held)
  /\ CommitAst(arena, Installed(held, tree), records')

\* A patch removes the node, or a rename tags a name with a quoting style.
RemoveNode(o) ==
  /\ phase = "idle" /\ tree # NULL
  /\ o \in DOMAIN tree
  /\ records' = Restrict(records, DOMAIN records \ {o})
  /\ CommitAst(arena, Restrict(tree, DOMAIN tree \ {o}), records')

-----------------------------------------------------------------------------
(* Renaming an alias.                                                      *)

\* Groups are never written again, since copies of a node share them: a renamed
\* alias gets a group of its own, equal but for its own component.
StageAlias(a, n, text) ==
  Spelled(a, ReplaceAt(a.groups[n.group], n.component, text))

OriginalOf(o) == IF o \in DOMAIN records THEN records[o] ELSE tree[o]

SetAlias(o, text) ==
  /\ phase = "idle" /\ tree # NULL
  /\ o \in Aliases \cap DOMAIN tree
  /\ LET n == tree[o]
         b == StageAlias(arena, n, text)
         renamed == [group |-> b.build, component |-> n.component,
                     stored |-> ReplaceAt(n.stored, 1, text)]
     IN  IF b.status = "OK"
         THEN /\ records' = WithNode(records, o, OriginalOf(o))
              /\ CommitAst(FinishSpelling(b), WithNode(tree, o, renamed), records')
         ELSE edits < MaxEdits /\ ReleaseContents

\* Back to its first value, without a spelling: the first group serves again, and
\* the record is removed once the commit has swept.
RestoreAlias(o) ==
  /\ phase = "idle" /\ tree # NULL
  /\ o \in DOMAIN records
  /\ records' = Restrict(records, DOMAIN records \ {o})
  /\ CommitAst(arena, WithNode(tree, o, records[o]), records)

-----------------------------------------------------------------------------
\* A list of patches packs the tree once, at its end.
BeginBatch ==
  /\ phase = "idle" /\ tree # NULL /\ ~batch
  /\ batch' = TRUE
  /\ UNCHANGED <<arena, tree, wire, held, records, phase, dirty, swept, edits>>

EndBatch ==
  /\ phase = "idle" /\ batch
  /\ wire' = IF dirty THEN tree ELSE wire
  /\ batch' = FALSE /\ dirty' = FALSE
  /\ UNCHANGED <<arena, tree, held, records, phase, swept, edits>>

\* The array is as long as its groups, holes included.
CloneArena(a) == [a EXCEPT !.capacity = Count(a), !.build = NULL]

\* The clone goes on with a copy of the packed tree.
Clone ==
  /\ phase = "idle" /\ ~batch
  /\ arena' = CloneArena(arena)
  /\ tree' = NULL
  /\ UNCHANGED <<wire, held, records, phase, batch, dirty, swept, edits>>

Next ==
  \/ EnsureAst \/ DiscardAstAdapter
  \/ \E o \in Owners, texts \in Messages, c \in 1..Components : MarkMessage(o, texts, c)
  \/ MarkMessageFails
  \/ \E o, p \in Owners : CloneProtoNode(o, p)
  \/ FinishGeneratedSource \/ FinishFails \/ ClearIdentifierPath
  \/ InstallFragments
  \/ \E o \in Owners : RemoveNode(o) \/ RestoreAlias(o)
  \/ \E o \in Owners, text \in Texts : SetAlias(o, text)
  \/ BeginBatch \/ EndBatch \/ Clone

Spec == Init /\ [][Next]_vars

-----------------------------------------------------------------------------
TypeOK ==
  /\ Count(arena) <= MaxGroups /\ Range(arena.groups) \subseteq Group
  /\ arena.capacity \in Count(arena)..MaxGroups
  /\ arena.free \in 1..Count(arena) + 1
  /\ arena.build \in (1..Count(arena)) \cup {NULL}
  /\ arena.status \in Statuses
  /\ tree # NULL => AreNodes(tree)
  /\ AreNodes(wire) /\ AreNodes(held) /\ AreNodes(records)
  /\ DOMAIN records \subseteq Aliases
  /\ phase \in {"idle", "marking", "editing", "failed"}
  /\ {batch, dirty, swept} \subseteq BOOLEAN
  /\ edits \in 0..MaxEdits

ReadsItsSpelling(nodes) ==
  \A o \in DOMAIN nodes : \A k \in DOMAIN nodes[o].stored :
    SpellingAt(arena, nodes[o], k) = nodes[o].stored[k]

\* Every location that can still be read yields the text stored for it: in the
\* tree, in the packed tree it would be reloaded from, in fragments not yet
\* installed (once marking has ended well), and in the records of renamed aliases.
NamesReadTheirSpelling ==
  /\ tree # NULL => ReadsItsSpelling(tree)
  /\ ~dirty => ReadsItsSpelling(wire)
  /\ phase # "marking" => ReadsItsSpelling(held)
  /\ ReadsItsSpelling(records)

HeldGroups ==
  GroupsIn(IF tree = NULL THEN wire ELSE tree) \cup GroupsIn(held) \cup GroupsIn(records)

\* A complete sweep leaves nothing behind: the groups in use are those that the
\* tree or a record names, and the arena ends with one of them.
SweptArenaIsExact ==
  swept => /\ 1..Count(arena) \ Holes(arena) \subseteq HeldGroups
           /\ Count(arena) \notin Holes(arena)

\* The arena grows only when it has no hole left, wherever building, sweeping and
\* cloning moved the index from which holes are searched; and
\* a patch is refused for the size of the arena only when more than half of the
\* groups that locations can number are there (capacity doubles, from any size a
\* sweep shrank it to).  A text that cannot be copied is another matter: its
\* group was taken.
ArenaIsUsedUp ==
  [][/\ Count(arena') > Count(arena) => Holes(arena) = {}
     /\ arena.status = "OK" /\ arena'.status # "OK" /\ arena'.build = NULL
          => 2 * Count(arena) > MaxGroups]_vars
=============================================================================
