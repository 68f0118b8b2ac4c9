--------------------------- MODULE HandleLifecycle ---------------------------
(***************************************************************************)
(* One handle from parse to destroy: the calls of its owner                *)
(* (sqlparser_core.c, sqlparser_view.c) and the stages of a patch list     *)
(* (sqlparser_apply_patch in sqlparser_patch.c).  A patch may change the   *)
(* tree, a source edit, both in lockstep, or leave its source edit pending *)
(* so that one rebuild serves several patches; the list may stop with an   *)
(* error between any two of these.                                         *)
(***************************************************************************)
EXTENDS HandleContents

CONSTANTS
  MaxPatches,     \* bound: patches of one list
  MaxDocument,    \* bound: patches over the life of the handle
  RepeatRebuilds  \* may a list rebuild a multi-table INSERT twice in a row?

ASSUME BoundAssumption ==
  MaxPatches \in Nat /\ MaxDocument \in Nat /\ RepeatRebuilds \in BOOLEAN

VARIABLES
  handle,    \* the handle, NULL once destroyed
  document,  \* version the patches so far should have produced
  batch,     \* the patch list being applied, or NULL
  view,      \* a graph view the caller still holds, or NULL
  answer     \* document version the last call showed the caller, or NULL

vars == <<handle, document, batch, view, answer>>

\* What a patch selects, as far as the stages tell it apart.  "cell" is a cell of
\* an INSERT, "value" any other literal or assignment value, "columns" the column
\* list of an INSERT or of a branch, "assignment" a whole assignment.
Kinds == {"cell", "value", "expression", "relation_name", "relation_sql",
          "columns", "assignment", "other"}
Stages == {"next", "surface", "defer", "surface_plan", "multi", "operate",
           "end", "tail", "rhs", "commit"}

Batch ==
  [left : Nat, original : Nat, before : Version, edits : SourceEdits \cup {NULL}, complete : BOOLEAN,
   pending : 0..2, defer : 0..2, rhs : BOOLEAN, stage : Stages,
   kind : Kinds, source : BOOLEAN]
View == [generation : Nat, text : Version]

ASSUME NoListIsNull == NULL \notin Batch /\ NULL \notin View

\* Control flow only in plain documents; the compact form only for INSERTs.
Init ==
  /\ \E r \in {"LEGACY_WIRE", "OWNED_AST", "COMPACT_INSERT"}, multi, control \in BOOLEAN :
       /\ multi => r = "LEGACY_WIRE" /\ ~control
       /\ control => r # "COMPACT_INSERT"
       /\ handle = Parsed(0, r, multi, control)
  /\ document = 0
  /\ batch = NULL
  /\ view = NULL
  /\ answer = NULL

Live == handle # NULL /\ ~handle.failed
Idle == Live /\ batch = NULL

-----------------------------------------------------------------------------
(* Reading.                                                                *)

Deparse ==
  /\ Idle
  /\ HasRepresentation(handle) /\ CanFlush(handle)
  /\ answer' = DeparseText(handle)
  /\ handle' = DeparseHandle(handle)
  /\ UNCHANGED <<document, batch, view>>

\* Any failure of deparse is terminal.
DeparseFails ==
  /\ Idle
  /\ handle' = MarkFailed(handle)
  /\ answer' = NULL
  /\ UNCHANGED <<document, batch, view>>

\* The caller may keep the view it had or the new one.
ReadGraph ==
  /\ Idle /\ HasRepresentation(handle)
  /\ handle' \in GraphReads(handle)
  /\ answer' = handle'.graph.text
  /\ view' \in {view, [generation |-> handle'.generation, text |-> answer']}
  /\ UNCHANGED <<document, batch>>

\* A view is followed into the cache, not the cache it came from.
ViewIsAccepted(h, v) ==
  /\ v # NULL /\ h # NULL /\ h.graph # NULL
  /\ v.generation = h.generation /\ h.graph.generation = v.generation

FollowView ==
  /\ Idle /\ ViewIsAccepted(handle, view)
  /\ answer' = handle.graph.text
  /\ UNCHANGED <<handle, document, batch, view>>

ReadBinds ==
  /\ Idle /\ HasRepresentation(handle)
  /\ handle' = EnsureBinds(handle)
  /\ answer' = handle'.binds.text
  /\ UNCHANGED <<document, batch, view>>

\* Views of statements and fields read the tree; view JSON drops what it loaded.
ReadTree ==
  /\ Idle /\ HasRepresentation(handle)
  /\ LET loaded == EnsureAst(handle)
     IN  /\ answer' = loaded.ast
         /\ \/ handle' = loaded
            \/ /\ handle.ast = NULL /\ handle.graph = NULL
               /\ handle' = DiscardAstAdapter(loaded)
  /\ UNCHANGED <<document, batch, view>>

\* A read whose promotion, unpacking or binding fails keeps the handle usable.
ReadTreeFails ==
  /\ Idle /\ HasRepresentation(handle)
  /\ handle' \in {handle, PromoteCompact(handle), EnsureAstFailed(handle)}
  /\ answer' = NULL
  /\ UNCHANGED <<document, batch, view>>

-----------------------------------------------------------------------------
(* Patch lists that a certified fast path applies in one step.             *)

Counts(least) == {n \in least..MaxPatches : document + n <= MaxDocument}

FastPathAllowed == Idle /\ handle.flags = {} /\ ~handle.control /\ handle.edits = NULL

CommittedAtOnce(n) ==
  /\ document' = document + n
  /\ answer' = NULL
  /\ UNCHANGED <<batch, view>>

CertifiedGraphUsable(h) ==
  /\ GraphIsCurrent(h)
  /\ \/ h.graph.certified = "wire"
     \/ h.graph.certified = "compact" /\ h.compact # NULL

ApplyToWire ==
  /\ FastPathAllowed /\ CertifiedGraphUsable(handle) /\ handle.ast = NULL
  /\ \E n \in Counts(1) :
       LET text == IF handle.graph.text = document
                   THEN Patched(handle.sql, document, n) ELSE Garbage
       IN  /\ handle' = IF handle.graph.certified = "compact"
                        THEN CommitCompactInsert(handle, text)
                        ELSE CommitInsertWire(handle, text)
           /\ CommittedAtOnce(n)

\* sqlparser_patch_try_readonly_oracle_strings
ApplyToBranches ==
  /\ FastPathAllowed /\ GraphIsCurrent(handle) /\ CanCommitStrings(handle)
  /\ \E n \in Counts(1) :
       LET done == CommitMultiInsertStrings(handle, Patched(handle.sql, document, n))
       IN  /\ handle' = CertifySource(DiscardAstAdapter(
                          [done EXCEPT !.generation = handle.generation + 1]))
           /\ CommittedAtOnce(n)

\* sqlparser_patch_try_readonly_insert_strings
ApplyToStrings ==
  /\ FastPathAllowed
  /\ handle.generation = 0 \/ handle.complete
  /\ handle.multi = NULL
  /\ LET h == IF CertifiedGraphUsable(handle) THEN EnsureAst(handle) ELSE handle
     IN  /\ h.ast # NULL
         /\ \E n \in Counts(2) :
              LET text == IF h.ast = document
                          THEN Patched(h.sql, document, n) ELSE Garbage
              IN  /\ \/ handle' = CommitInsertStrings(h, text)
                     \/ \E r \in ParserChoices(h) : handle' = Reparse(h, text, r)
                  /\ CommittedAtOnce(n)

ApplyNothing == Idle /\ answer' = NULL /\ UNCHANGED <<handle, document, batch, view>>

-----------------------------------------------------------------------------
(* The general path.                                                       *)

\* The handle a list starts from.  Whether the statements have right-hand side
\* expressions is asked of the graph, unless the list can bring its own.
BatchHandles(h, introduces) ==
  LET loaded == IF CertifiedGraphUsable(h) /\ h.ast = NULL THEN EnsureAst(h) ELSE h
      promoted == PromoteCompact(loaded)
      asked == IF h.control \/ introduces THEN {promoted} ELSE GraphReads(promoted)
  IN  {[g EXCEPT !.edits = NULL, !.complete = FALSE,
                 !.flags = {"ACTIVE", "IN_PLACE"}] : g \in asked}

BeginApply ==
  /\ Idle /\ HasRepresentation(handle)
  /\ \E n \in Counts(1), rhs, introduces \in BOOLEAN :
       /\ introduces => rhs
       /\ handle.control => ~rhs
       /\ LET complete == handle.generation = 0 \/ handle.complete
          IN  batch' = [left |-> n, original |-> handle.generation,
                        before |-> document,
                        edits |-> IF complete THEN handle.edits ELSE NULL,
                        complete |-> complete, pending |-> 0, defer |-> 0,
                        rhs |-> rhs, stage |-> "next", kind |-> "other",
                        source |-> FALSE]
       /\ handle' \in BatchHandles(handle, introduces)
  /\ answer' = NULL
  /\ UNCHANGED <<document, view>>

At(stage) == batch # NULL /\ batch.stage = stage
Moved(stage) == [batch EXCEPT !.stage = stage]
Quiet == UNCHANGED <<view, answer>>

PatchDone == document' = document + 1

\* The source edit of this patch, over the text that the other edits index.
PlannedEdit(source) ==
  [base |-> IF batch.edits = NULL THEN handle.sql ELSE batch.edits.base,
   text |-> IF source = document
            THEN Patched(Edited(handle.sql, batch.edits), document, 1) ELSE Garbage]

Rebuilds(h, text) ==
  {Reparse(h, text, r) : r \in ParserChoices(h)}
    \cup (IF CanCommitStrings(h) THEN {CommitMultiInsertStrings(h, text)} ELSE {})
    \cup (IF CanRebase(h) THEN {CommitRebasedSource(h, text)} ELSE {})

\* Mutant: the edits stay in the list after the rebuild.
MaterializeKeepsEdits(edits, next) ==
  /\ edits # NULL /\ handle.edits = NULL
  /\ handle' \in Rebuilds(handle, Edited(handle.sql, edits))
  /\ batch' = [next EXCEPT !.complete = TRUE, !.pending = 0]

\* sqlparser_patch_materialize_surface_edits
MaterializeEdits(edits, next) ==
  /\ edits # NULL /\ handle.edits = NULL
  /\ handle' \in Rebuilds(handle, Edited(handle.sql, edits))
  /\ batch' = [next EXCEPT !.edits = NULL, !.complete = TRUE, !.pending = 0]

\* sqlparser_patch_materialize_current_sql
MaterializeCurrent(next) ==
  \/ MaterializeEdits(batch.edits, next)
  \/ /\ batch.edits = NULL /\ batch.complete
     /\ handle' = [handle EXCEPT !.complete = TRUE]
     /\ batch' = next
  \/ /\ batch.edits = NULL /\ ~batch.complete /\ CanFlush(handle)
     /\ \E r \in ParserChoices(handle) :
          handle' = Reparse(DeparseHandle(handle), DeparseText(handle), r)
     /\ batch' = [next EXCEPT !.complete = TRUE]

\* Mutant: the loop runs once too often.
TakeOneMore ==
  /\ At("next") /\ batch.left >= 0
  /\ batch' = [Moved("surface") EXCEPT !.left = @ - 1, !.kind = "other", !.source = FALSE]
  /\ Quiet /\ UNCHANGED <<handle, document>>

TakePatch ==
  /\ At("next") /\ batch.left > 0
  /\ \E kind \in Kinds, source \in BOOLEAN :
       /\ source => kind \in {"cell", "value", "columns", "assignment", "other"}
       /\ batch' = [Moved("surface") EXCEPT !.left = @ - 1, !.kind = kind, !.source = source]
  /\ Quiet /\ UNCHANGED <<handle, document>>

-----------------------------------------------------------------------------
(* A patch that can be an edit of the text alone: the edit is planned and  *)
(* may stay pending; the tree then lags behind until the text is rebuilt.  *)

\* What sqlparser_patch_can_defer_surface may answer: 0 no, 1 while ordinals
\* last, 2 for strings.  A pending 1 is kept by anything, a pending 2 by 2 only.
DeferChoices ==
  IF handle.control THEN {0}
  ELSE CASE batch.kind = "cell" /\ (batch.source \/ handle.multi # NULL) -> {0, 1}
         [] batch.kind \in {"cell", "value"} /\ ~batch.source -> {0, 1, 2}
         [] batch.kind = "expression" -> {0, 1}
         [] OTHER -> {0}

\* Expressions are looked up in the graph.
Consulted ==
  IF batch.kind = "expression" /\ ~handle.control THEN GraphReads(handle) ELSE {handle}

KeepPending ==
  /\ At("surface") /\ batch.pending # 0
  /\ \E d \in DeferChoices \ {0} :
       /\ batch.pending = 1 \/ d = 2
       /\ batch' = [Moved("surface_plan") EXCEPT !.defer = d]
  /\ handle' \in Consulted
  /\ Quiet /\ UNCHANGED document

EndPending ==
  /\ At("surface") /\ batch.pending # 0
  /\ MaterializeEdits(batch.edits, batch)
  /\ Quiet /\ UNCHANGED document

OpenSurface ==
  /\ At("surface") /\ batch.pending = 0
  /\ \/ batch.kind = "expression" /\ MaterializeCurrent(Moved("defer"))
     \/ /\ batch.kind # "expression"
        /\ LET eligible == /\ batch.kind \in {"cell", "value"}
                           /\ batch.complete /\ batch.edits = NULL
                           /\ "MULTI_INSERT_DIRTY" \notin handle.flags
           IN  batch' = Moved(IF eligible THEN "defer" ELSE "multi")
        /\ UNCHANGED handle
  /\ Quiet /\ UNCHANGED document

ChooseDefer ==
  /\ At("defer")
  /\ \E d \in DeferChoices :
       batch' = [Moved(IF d # 0 \/ batch.kind = "expression" THEN "surface_plan" ELSE "multi")
                   EXCEPT !.defer = d]
  /\ handle' \in Consulted
  /\ Quiet /\ UNCHANGED document

\* A source cell is read in a span no pending edit touches.
PlanSurface ==
  /\ At("surface_plan")
  /\ LET planned == PlannedEdit(document)
         next == [Moved("next") EXCEPT !.edits = planned, !.defer = 0]
     IN  \/ \E preserves \in {batch.defer} \ {0} :
              /\ batch' = [next EXCEPT !.pending = IF @ = 1 THEN 1 ELSE preserves]
              /\ UNCHANGED handle
         \/ MaterializeEdits(planned, next)
  /\ PatchDone /\ Quiet

\* Mutant: the retry is planned over the same pending edits.
SurfaceRetries ==
  /\ At("surface_plan")
  /\ \/ batch.pending # 0 /\ batch' = [Moved("defer") EXCEPT !.defer = 0]
     \/ /\ batch.pending = 0 /\ batch.kind # "expression"
        /\ batch' = [Moved("multi") EXCEPT !.defer = 0]
  /\ Quiet /\ UNCHANGED <<handle, document>>

SurfaceUnsupported ==
  /\ At("surface_plan")
  /\ \/ batch.pending # 0 /\ MaterializeEdits(batch.edits, [Moved("defer") EXCEPT !.defer = 0])
     \/ /\ batch.pending = 0 /\ batch.kind # "expression"
        /\ batch' = [Moved("multi") EXCEPT !.defer = 0]
        /\ UNCHANGED handle
  /\ Quiet /\ UNCHANGED document

-----------------------------------------------------------------------------
(* A patch that changes the tree, in lockstep with a planned edit when the *)
(* text is still complete; a multi-table INSERT keeps its branches in the  *)
(* side state and either defers or rebuilds.                               *)

\* A rebuild leaves the handle complete although the batch is not: a second one
\* then takes the text for the whole truth.
MayRebuild == RepeatRebuilds \/ batch.complete \/ ~handle.complete

ChooseMultiInsert ==
  /\ At("multi")
  /\ \/ /\ handle.multi # NULL /\ batch.kind \in {"cell", "columns"}
        /\ batch' = [Moved("operate") EXCEPT !.defer = 1]
        /\ UNCHANGED handle
     \/ /\ IF handle.multi # NULL /\ "MULTI_INSERT_DIRTY" \in handle.flags
           THEN MaterializeCurrent(Moved("operate"))
           ELSE batch' = Moved("operate") /\ UNCHANGED handle
        /\ batch.kind \in {"cell", "columns"} /\ handle.multi # NULL => MayRebuild
  /\ Quiet /\ UNCHANGED document

\* The batch gives its source edits up: from now on the tree is the document.
WithoutSource(b) == [b EXCEPT !.edits = NULL, !.complete = FALSE]

Finished(b) == [b EXCEPT !.stage = "next", !.defer = 0]

TreeChanged(h) ==
  LET loaded == EnsureAst(h)
  IN  CommitAst(loaded, Patched(loaded.ast, document, 1))

RenameRelation ==
  /\ At("operate") /\ batch.kind = "relation_name"
  /\ batch' = Finished(WithoutSource(batch))
  /\ handle' = TreeChanged([handle EXCEPT !.complete = FALSE])
  /\ PatchDone /\ Quiet

\* sqlparser_patch_set_relation_sql
RewriteRelation ==
  /\ At("operate") /\ batch.kind = "relation_sql"
  /\ \/ /\ batch.complete
        /\ batch' = Finished([batch EXCEPT !.edits = PlannedEdit(document)])
     \/ batch' = Finished(WithoutSource(batch))
  /\ handle' = TreeChanged(handle)
  /\ PatchDone /\ Quiet

Operates == At("operate") /\ batch.kind \notin {"relation_name", "relation_sql", "expression"}

\* Earlier edits become text before a source value is read, or when an edit of
\* an INSERT shape cannot be planned over them.
MaterializeEarlier ==
  /\ Operates /\ batch.complete /\ batch.edits # NULL
  /\ batch.source \/ (handle.multi = NULL /\ batch.kind \in {"columns", "value"})
  /\ MaterializeEdits(batch.edits, batch)
  /\ Quiet /\ UNCHANGED document

ReadyToOperate == Operates /\ (batch.source /\ batch.complete => batch.edits = NULL)

IsBranchCell == handle.multi # NULL /\ batch.kind = "cell"

\* A source value is read from the text while the handle is complete.
SourceText(h) ==
  IF h.generation = 0 \/ h.complete THEN Edited(h.sql, h.edits)
  ELSE IF h.multi # NULL THEN h.multi ELSE EnsureAst(h).ast

Changed(h, content) ==
  IF batch.source /\ SourceText(h) # document THEN Garbage
  ELSE Patched(content, document, 1)

RewriteBranchCell ==
  /\ ReadyToOperate /\ IsBranchCell /\ batch.complete
  /\ MaterializeEdits(PlannedEdit(IF batch.source THEN SourceText(handle) ELSE document),
                      Finished(batch))
  /\ PatchDone /\ Quiet

\* Mutant: a handle left complete by a rebuild is not reset when the batch gives
\* up its source edits.
OperatedOnStale(supported) ==
  IF batch.complete /\ batch.source /\ supported
  THEN [handle EXCEPT !.complete = TRUE] ELSE handle

\* The handle as the operation finds it.
OperatedOn(supported) ==
  IF ~batch.complete THEN handle
  ELSE IF ~supported THEN [handle EXCEPT !.complete = FALSE]
  ELSE IF batch.source THEN [handle EXCEPT !.complete = TRUE]
  ELSE handle

BatchAfter(supported) ==
  IF ~batch.complete THEN batch
  ELSE IF supported THEN [batch EXCEPT !.edits = PlannedEdit(document)]
  ELSE WithoutSource(batch)

\* The first change that is deferred is measured by deparsing it.
Sized(h) ==
  IF "MULTI_INSERT_DIRTY" \in handle.flags THEN h ELSE DeparseHandle(h)

\* ACTIVE is off while a multi-table INSERT changes without deferring.
Operated(h) ==
  LET eager == [h EXCEPT !.flags = @ \ {"ACTIVE"}]
      tree(g) == CommitAst(EnsureAst(g), Changed(g, EnsureAst(g).ast))
      rebuilt == RebuildFromState(eager, Changed(h, h.multi))
  IN  IF handle.multi = NULL THEN {tree(h)}
      ELSE IF batch.kind \notin {"cell", "columns"} THEN {tree(eager)}
      ELSE IF batch.defer = 0 THEN {rebuilt}
      ELSE {Sized(CommitDeferredState(h, Changed(h, h.multi)))}
             \cup (IF batch.kind = "cell" /\ MayRebuild THEN {rebuilt} ELSE {})

Operate ==
  /\ ReadyToOperate
  /\ \E supported \in BOOLEAN, reversed \in BOOLEAN :
       /\ supported => /\ batch.complete
                       /\ handle.multi # NULL => batch.kind \notin {"cell", "columns"}
       /\ reversed => batch.kind = "assignment" /\ handle.multi = NULL
       /\ \E h \in Operated(OperatedOn(supported)) :
            handle' = [h EXCEPT !.flags = @ \cup {"ACTIVE"},
                                !.complete = @ /\ ~batch.source]
       /\ batch' = Finished(IF reversed THEN WithoutSource(batch) ELSE BatchAfter(supported))
  /\ PatchDone /\ Quiet

-----------------------------------------------------------------------------
(* The end of a list.                                                      *)

EndOfPatches ==
  /\ At("next") /\ batch.left = 0
  /\ \/ batch.pending # 0 /\ MaterializeEdits(batch.edits, Moved("end"))
     \/ batch.pending = 0 /\ batch' = Moved("end") /\ UNCHANGED handle
  /\ Quiet /\ UNCHANGED document

Flush ==
  /\ At("end") /\ CanFlush(handle)
  /\ handle' = [FlushAst(handle) EXCEPT !.flags = @ \ {"ACTIVE"}]
  /\ batch' = Moved("tail")
  /\ Quiet /\ UNCHANGED document

\* Mutant: the flag is dropped and the text is not rebuilt.
DirtyForgotten ==
  /\ At("tail")
  /\ batch' = Moved("rhs")
  /\ Quiet /\ UNCHANGED <<handle, document>>

\* Branches that changed in the side state alone need their text.
RebuildDirty ==
  /\ At("tail")
  /\ IF "MULTI_INSERT_DIRTY" \in handle.flags
     THEN MaterializeCurrent(Moved("rhs"))
     ELSE batch' = Moved("rhs") /\ UNCHANGED handle
  /\ Quiet /\ UNCHANGED document

\* Right-hand side expressions are only complete in a parsed text.
RebuildRhs ==
  /\ At("rhs")
  /\ IF /\ batch.rhs /\ handle.generation # batch.original
        /\ batch.edits # NULL \/ ~batch.complete
     THEN MaterializeCurrent(Moved("commit"))
     ELSE batch' = Moved("commit") /\ UNCHANGED handle
  /\ Quiet /\ UNCHANGED document

Committed(h) ==
  DiscardAstAdapter(InvalidateDerived([h EXCEPT !.generation = batch.original + 1]))

FinalText(h) ==
  IF batch.complete THEN [h EXCEPT !.edits = batch.edits, !.complete = TRUE] ELSE h

\* Mutants: IN_PLACE is left set, or the steps of the list count as generations.
CommitLeavesFlag ==
  /\ At("commit")
  /\ handle' = Committed(FinalText(handle))
  /\ batch' = NULL
  /\ Quiet /\ UNCHANGED document
CommitCountsSteps ==
  /\ At("commit")
  /\ handle' = DiscardAstAdapter(InvalidateDerived([FinalText(handle) EXCEPT !.flags = {}]))
  /\ batch' = NULL
  /\ Quiet /\ UNCHANGED document

CommitBatch ==
  /\ At("commit")
  /\ LET h == [FinalText(handle) EXCEPT !.flags = @ \ {"IN_PLACE"}]
     IN  handle' = IF SourceIsCurrent(h) THEN CertifySource(Committed(h)) ELSE Committed(h)
  /\ batch' = NULL
  /\ Quiet /\ UNCHANGED document

\* Any error stops the list; some come after a step has moved the generation.
ApplyFails ==
  /\ Live
  /\ \E moved \in {0, 1} : handle' = MarkFailed([handle EXCEPT !.generation = @ + moved])
  /\ document' = IF batch = NULL THEN document ELSE batch.before
  /\ batch' = NULL
  /\ answer' = NULL
  /\ UNCHANGED view

\* A failed handle refuses every call but destroy.
Destroy ==
  /\ handle # NULL /\ batch = NULL
  /\ handle' = NULL /\ view' = NULL /\ answer' = NULL
  /\ UNCHANGED <<document, batch>>

Destroyed == handle = NULL /\ UNCHANGED vars

BatchStep ==
  \/ TakePatch \/ KeepPending \/ EndPending \/ OpenSurface \/ ChooseDefer
  \/ PlanSurface \/ SurfaceUnsupported \/ ChooseMultiInsert \/ RenameRelation
  \/ RewriteRelation \/ MaterializeEarlier \/ RewriteBranchCell \/ Operate
  \/ EndOfPatches \/ Flush \/ RebuildDirty \/ RebuildRhs \/ CommitBatch

Reading ==
  Deparse \/ DeparseFails \/ ReadGraph \/ FollowView \/ ReadBinds \/ ReadTree \/ ReadTreeFails

Applying == ApplyToWire \/ ApplyToBranches \/ ApplyToStrings \/ ApplyNothing \/ BeginApply

Next == Reading \/ Applying \/ BatchStep \/ ApplyFails \/ Destroy \/ Destroyed

Spec == Init /\ [][Next]_vars

\* A list that was begun runs on by itself: one call on one thread.
FairSpec == Spec /\ WF_vars(BatchStep)

-----------------------------------------------------------------------------
(* Properties.                                                             *)

TypeOK ==
  /\ handle \in Handle \cup {NULL}
  /\ document \in 0..MaxDocument
  /\ batch \in Batch \cup {NULL}
  /\ view \in View \cup {NULL}
  /\ answer \in VersionOrNull

\* Whatever a call shows the caller (deparsed SQL, graph, bind occurrences, a
\* view it kept, statement fields) is the document with every patch so far:
\* sqlparser_deparse, sqlparser_query_graph, sqlparser_bind_occurrences.
AnswersAreCurrent == answer # NULL => answer = document

\* Between calls some form of the document is the authority, and each form the
\* next call may choose as such holds the document: the source text while the
\* handle is complete, the tree or compact form, the side state of a
\* multi-table INSERT.
SourceIsDocument(h) ==
  h.generation = 0 \/ h.complete => Edited(h.sql, h.edits) = document

TreeIsDocument(h) ==
  CASE h.representation = "COMPACT_INSERT" ->
         /\ h.compact = document /\ h.sql = document /\ h.edits = NULL
         /\ h.compactGeneration = h.generation /\ h.wire = NULL /\ h.ast = NULL
    [] h.representation = "OWNED_AST" -> h.ast = document /\ h.compact = NULL
    [] h.representation = "LEGACY_AST" -> h.wire = document /\ h.ast = document /\ h.compact = NULL
    [] h.representation = "LEGACY_WIRE" -> h.wire = document /\ h.ast = NULL /\ h.compact = NULL
    [] OTHER -> FALSE

AuthorityIsDocument ==
  Idle => /\ SourceIsDocument(handle) /\ TreeIsDocument(handle)
          /\ handle.multi \in {NULL, document}

\* Derived data that would be served again is of this document: the regenerated
\* SQL has no stamp of its own, graph and binds have one, and so does the
\* certificate that lets branch strings be committed into the source text.
DerivedIsDocument ==
  Idle =>
    /\ handle.current # NULL => handle.current.text = document
    /\ GraphIsCurrent(handle) => handle.graph.text = document
    /\ handle.binds # NULL /\ handle.binds.generation = handle.generation
         => handle.binds.text = document
    /\ SourceIsCurrent(handle) => handle.sql = document

\* A view kept from an earlier call is followed only into a graph of the same
\* document: a list or a failure in between makes every older view invalid,
\* also when the list is abandoned halfway (sqlparser_query_graph_is_current).
StaleViewsAreRejected ==
  view # NULL /\ handle # NULL /\ batch = NULL /\ view.generation = handle.generation =>
    Live /\ view.text = document

\* The pending edits of a list index the text the handle has now, and stand for
\* the whole list: the rebuild that ends them (materialize_surface_edits) would
\* otherwise apply old ranges to new text, or drop a patch.
PendingEditsFit ==
  Live /\ batch # NULL /\ batch.complete =>
    /\ handle.edits = NULL
    /\ Edited(handle.sql, batch.edits) = document
    /\ batch.pending # 0 => batch.edits # NULL

\* With the source text given up, the tree or the side state has all patches.
TreeStandsForList ==
  Live /\ batch # NULL /\ ~batch.complete =>
    /\ batch.edits = NULL /\ batch.pending = 0
    /\ IF handle.multi # NULL THEN handle.multi = document
       ELSE document \in {handle.ast, handle.wire}
    /\ "AST_DIRTY" \in handle.flags => handle.ast = document

\* The changed side state is never forgotten: no list ends, and no source text is
\* trusted, while MULTI_INSERT_DIRTY is set.
DirtyIsRebuilt ==
  Live /\ "MULTI_INSERT_DIRTY" \in handle.flags =>
    batch # NULL /\ ~batch.complete /\ ~handle.complete

\* Between calls every copy of the document that a later call may serve or start
\* from holds the document with all patches so far: whichever form has become the
\* authority, and whatever was derived before the last list and still counts.
CopiesAreCurrent == AuthorityIsDocument /\ DerivedIsDocument

\* No patch of a running list is only where the list will not look: in edits of
\* another text, in a tree the text stands for, in a forgotten side state.
NothingIsLost == PendingEditsFit /\ TreeStandsForList /\ DirtyIsRebuilt

\* Between lists no batch flag is left, the AST is bound only when there is one,
\* and a failed handle holds nothing (sqlparser_handle_mark_failed).
CallsLeaveNoTrace ==
  handle # NULL =>
    /\ batch = NULL => handle.flags = {}
    /\ handle.bound => handle.ast # NULL
    /\ handle.failed => /\ batch = NULL
                        /\ handle = [Released(handle) EXCEPT !.generation = handle.generation]

\* A list that was begun always returns, committed or failed.
ApplyReturns == batch # NULL ~> batch = NULL

\* To its owner the handle is one document that lists change as a whole.
Promise == INSTANCE PatchedDocument WITH
  status <- IF handle = NULL THEN "destroyed" ELSE IF handle.failed THEN "failed" ELSE "live",
  version <- IF batch # NULL THEN batch.before ELSE document,
  generation <- IF handle = NULL THEN 0
                ELSE IF batch # NULL THEN batch.original ELSE handle.generation

ImplementsPromise == Promise!Spec
=============================================================================
