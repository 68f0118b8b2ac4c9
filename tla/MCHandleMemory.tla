--------------------------- MODULE MCHandleMemory ---------------------------
(* The memory of a handle for TLC: its spelling arena, which grows, is swept *)
(* and leaves holes, and its blocks, which are copied one by one.  The two   *)
(* models share no state, so one of them moves while the other rests: the    *)
(* arena as it is first, the blocks with no handle to copy.                  *)
EXTENDS IdentifierSpelling, HandleClone

VARIABLE moving  \* the component that moves

\* A qualified name, and a path too long for a group.
TwoMessages == {<<"a", "b">>, <<"a", "a", "a">>}

Shape(has, compact, alias, spellings, groups) ==
  [has |-> has, compact |-> compact, alias |-> alias,
   records |-> Len(spellings), spelled |-> {i \in DOMAIN spellings : spellings[i]},
   groups |-> Len(groups),
   parts |-> [g \in 1..Elements |-> IF g \in DOMAIN groups THEN groups[g] ELSE 0]]

SomeShapes == {
  Shape({"state", "origins"}, FALSE, FALSE, <<TRUE, FALSE>>, <<0, 2>>),
  Shape({"edits", "control"}, FALSE, TRUE, <<FALSE, TRUE>>, <<1, 0>>),
  Shape({}, TRUE, TRUE, <<>>, <<>>)}

MemoryInit ==
  /\ Init
  /\ \/ moving = "blocks" /\ HandlesInit
     \/ /\ moving = "arena"
        /\ heap = {} /\ handle = [h \in Handles |-> NoHandle]
        /\ step = "idle" /\ wild = FALSE

BlocksRest == moving = "arena" /\ UNCHANGED <<moving, handleVars>>
ArenaRests == moving = "blocks" /\ UNCHANGED <<moving, vars>>

\* The disjuncts of both next-state relations.
MemoryNext ==
  \/ BlocksRest /\ EnsureAst
  \/ BlocksRest /\ DiscardAstAdapter
  \/ \E o \in Owners, texts \in Messages, c \in 1..Components : BlocksRest /\ MarkMessage(o, texts, c)
  \/ BlocksRest /\ MarkMessageFails
  \/ \E o, p \in Owners : BlocksRest /\ CloneProtoNode(o, p)
  \/ BlocksRest /\ FinishGeneratedSource
  \/ BlocksRest /\ FinishFails
  \/ BlocksRest /\ ClearIdentifierPath
  \/ BlocksRest /\ InstallFragments
  \/ \E o \in Owners : BlocksRest /\ RemoveNode(o)
  \/ \E o \in Owners : BlocksRest /\ RestoreAlias(o)
  \/ \E o \in Owners, text \in Texts : BlocksRest /\ SetAlias(o, text)
  \/ BlocksRest /\ BeginBatch
  \/ BlocksRest /\ EndBatch
  \/ BlocksRest /\ Clone
  \/ ArenaRests /\ Promote
  \/ ArenaRests /\ BeginClone
  \/ ArenaRests /\ ClonePart
  \/ ArenaRests /\ CloneOriginal
  \/ ArenaRests /\ CloneSpelling
  \/ ArenaRests /\ ClonePartOfGroup
  \/ \E s \in Shapes : ArenaRests /\ ParseReplacement(s)
  \/ \E h \in Handles : ArenaRests /\ Destroy(h)
  \/ \E h \in Handles : ArenaRests /\ ReplaceContents(h)

MemorySpec == MemoryInit /\ [][MemoryNext]_<<vars, moving, handleVars>>

\* Types of both components, and the counts of the handles.
MemoryTypeOK == TypeOK /\ HandlesTypeOK
=============================================================================
