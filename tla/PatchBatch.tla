------------------------------ MODULE PatchBatch ------------------------------
(***************************************************************************)
(* The surface branch of sqlparser_apply_patch_in_place: edits of values    *)
(* and function arguments are collected as ranges of the text the handle    *)
(* was parsed from, and made together when a patch comes that they could    *)
(* mislead.  Selectors of deferred patches are resolved in the old text,    *)
(* although they mean the text after the patches before them.               *)
(*                                                                          *)
(* Bounds: MaxPatches patches in a list, and the given texts and patches.   *)
(* Left out: statement lists, multi-table INSERT (HandleLifecycle has its   *)
(* deferral), positional binds, limits.  A patch that goes past this branch *)
(* is one step that gives the text it makes.                                *)
(***************************************************************************)
EXTENDS PatchText

CONSTANTS Sources, Patches, MaxPatches

ASSUME SourcesAssumption == \A t \in Sources : LiteralsOf(t) # <<>>

VARIABLES
  given,   \* the text of the handle when the list was handed over
  source,  \* handle->sql, the text the deferred edits are ranges of
  edits,   \* surface_edits of this branch
  pending, \* surface_edits_pending: 0 nothing deferred, 1 any edit, 2 strings only
  clean,   \* surface_complete, and no edit or branch of the general planner waits
  patch,   \* the patch last taken
  count,   \* patches taken
  failed   \* the handle is dead

vars == <<given, source, edits, pending, clean, patch, count, failed>>

-------------------------------------------------------------------------------
(* A batch: source, edits, pending and clean, as one value. *)

Edit(range, text) == [from |-> range.from, to |-> range.to, text |-> text]

Batch == [source |-> source, edits |-> edits, pending |-> pending, clean |-> clean]

\* The text a batch stands for: its source with all edits made.
Restored(b) ==
  LET piece(i) ==
        LET new  == {e \in b.edits : e.from = i}
            gone == \E e \in b.edits : e.from <= i /\ i < e.to
        IN  (IF new = {} THEN <<>> ELSE (CHOOSE e \in new : TRUE).text)
              \o (IF i > Len(b.source) \/ gone THEN <<>> ELSE <<b.source[i]>>)
  IN  FlattenSeq([i \in 1..(Len(b.source) + 1) |-> piece(i)])

RangesOverlap(l, r) ==
  IF l.from = l.to THEN r.from <= l.from /\ l.from <= r.to
  ELSE IF r.from = r.to THEN l.from <= r.from /\ r.from <= l.to
  ELSE l.from < r.to /\ r.from < l.to

\* Mutant: the edits are forgotten but not the state they were in.
MaterializedStill(b) ==
  [source |-> Restored(b), edits |-> {}, pending |-> b.pending, clean |-> TRUE]

\* Make the edits and parse the text they give.
Materialized(b) ==
  [source |-> Restored(b), edits |-> {}, pending |-> 0, clean |-> TRUE]

-------------------------------------------------------------------------------
(* Which patches may wait. *)

\* Mutant: a borrowed payload is read when its patch is made.
InputLate(p) ==
  IF p.borrowed = 0 THEN p.payload
  ELSE <<[source[LiteralsOf(source)[p.borrowed]] EXCEPT !.depth = 0]>>

\* sqlparser_patch_snapshot_inputs: payloads are copied before the first patch.
Input(p) ==
  IF p.borrowed = 0 THEN p.payload
  ELSE <<[given[LiteralsOf(given)[p.borrowed]] EXCEPT !.depth = 0]>>

\* A string is put in the place of a string.
GivesString(p) ==
  /\ p.target \in {"literal", "cell"} /\ p.source = 0
  /\ Len(Input(p)) = 1 /\ Input(p)[1].kind = "string"

\* Mutant: any literal is as good as a string.
NativeLiteralTarget(b, p) ==
  GivesString(p) /\ Node(b.source, p) # 0 /\ b.source[Node(b.source, p)].kind \in Literals

NativeStringTarget(b, p) ==
  GivesString(p) /\ Node(b.source, p) # 0 /\ b.source[Node(b.source, p)].kind = "string"

\* A pending edit of the range that does not leave the arguments of the
\* function where they are.
Disturbs(e, range, p) ==
  /\ RangesOverlap(e, range)
  /\ \/ p.target # "argument"
     \/ e.from = e.to
     \/ e.text = <<>>
     \/ e.from <= range.from /\ range.to <= e.to

\* Mutant: edits that wait are not looked at.
NotLookedAt(b, p) == TRUE

Undisturbed(b, p) ==
  \A e \in b.edits : ~Disturbs(e, ValueRange(b.source, Node(b.source, p)), p)

\* Mutant: a nested expression may be replaced too.
ReplacesAnything(b, p) == TRUE

\* No expression may vanish with what the patch replaces.
ReplacesOnlyPlain(b, p) ==
  LET t == b.source
      replaced == CASE p.target = "expression" ->
                         {q \in DOMAIN t : \E i \in DOMAIN ArgumentsOf(t, Node(t, p)) :
                                             q = ArgumentsOf(t, Node(t, p))[i]}
                    [] p.target \in {"argument", "delete"} -> {Argument(t, p)}
                    [] p.target = "insert" -> {}
  IN  \A q \in replaced : t[q].kind \in Literals \cup {"bind", "field"}

SourceCellStands(b, p) ==
  LET n == At(CellsOf(b.source), p.source)
  IN  /\ b.pending # 0 => b.source[n].kind \in Literals
      /\ \A e \in b.edits : ~RangesOverlap(e, ValueRange(b.source, n))

\* sqlparser_patch_can_defer_surface: 2 for strings, 1 for other edits.
Deferral(b, p) ==
  LET t == b.source
      n == Node(t, p)
      cell == /\ p.target = "cell" /\ n # 0
              /\ b.pending # 0 \/ p.source # 0
              /\ t[n].kind \in Literals
              /\ p.source # 0 => SourceCellStands(b, p)
      expression == /\ IsExpressionPatch(p) /\ n # 0 /\ p.source = 0
                    /\ t[n].kind = "function"
                    /\ Undisturbed(b, p)
                    /\ ReplacesOnlyPlain(b, p)
  IN  IF NativeStringTarget(b, p) THEN 2 ELSE IF cell \/ expression THEN 1 ELSE 0

\* The question itself fails when it meets a selector that names nothing.
CannotAsk(b, p) ==
  \/ GivesString(p) /\ Node(b.source, p) = 0
  \/ /\ p.target = "cell" /\ (b.pending # 0 \/ p.source # 0)
     /\ Node(b.source, p) = 0 \/ (p.source # 0 /\ At(CellsOf(b.source), p.source) = 0)
  \/ IsExpressionPatch(p) /\ Node(b.source, p) = 0
  \/ /\ p.target \in {"argument", "delete"}
     /\ b.source[Node(b.source, p)].kind = "function"
     /\ Undisturbed(b, p) /\ Argument(b.source, p) = 0

\* General edits can change the enumeration of literals.
Asks(b, p) == ~(b.pending = 1 /\ p.target = "literal") /\ p.target # "column"

-------------------------------------------------------------------------------
(* A patch that is planned as an edit. *)

Plain(text) == Len(text) = 1 /\ text[1].kind \in Literals \cup {"bind"}

\* sqlparser_patch_validate_expression_sql: whether the new text keeps the
\* ordinals of everything the selectors of later patches may name.
Preserves(defer, p, text) ==
  LET arguments == {i \in DOMAIN text : text[i].depth = text[1].depth + 1 /\ text[i].kind # "close"}
  IN  CASE p.target = "delete" -> defer
        [] p.target = "expression" ->
             IF text[1].kind = "function" /\ \A i \in arguments : text[i].kind \in Literals \cup {"bind"}
             THEN defer ELSE 0
        [] OTHER -> IF Plain(text) THEN defer ELSE 0

\* An edit of the same range takes the place of the earlier one.
WithEdit(b, e) ==
  [b EXCEPT !.edits = {d \in @ : d.from # e.from \/ d.to # e.to} \cup {e}]

PlannedEdit(b, p) == Edit(Target(b.source, p), Replacement(b.source, p, Input(p)))

\* What the branch makes of the batch before it plans: edits that could mislead
\* the patch are made first, and an expression is always resolved in a text.
Opened(b, p) ==
  LET defer   == IF Asks(b, p) THEN Deferral(b, p) ELSE 0
      misled  == b.pending # 0 /\ (defer = 0 \/ (b.pending = 2 /\ defer # 2))
      settled == IF misled THEN Materialized(b) ELSE b
  IN  IF settled.pending = 0 /\ IsExpressionPatch(p) THEN Materialized(settled) ELSE settled

\* The branch plans an edit; otherwise the patch goes on to the general planner.
Plans(b, p) ==
  IsExpressionPatch(p) \/ ((b.pending # 0 \/ b.clean) /\ Asks(b, p) /\ Deferral(b, p) # 0)

-------------------------------------------------------------------------------
(* The steps of a list. *)

Init ==
  /\ given \in Sources /\ source = given
  /\ edits = {} /\ pending = 0 /\ clean = TRUE
  /\ patch = NoPatch
  /\ count = 0 /\ failed = FALSE

Take(p) ==
  /\ ~failed /\ count < MaxPatches
  /\ patch' = p
  /\ count' = count + 1
  /\ UNCHANGED given

Leave(b) ==
  /\ source' = b.source /\ edits' = b.edits
  /\ pending' = b.pending /\ clean' = b.clean
  /\ UNCHANGED failed

Asked(p) == Asks(Batch, p) => ~CannotAsk(Batch, p)

\* The edit waits for the end of the list or for a patch it could mislead.
DeferPatch(p) ==
  /\ Take(p) /\ Asked(p)
  /\ \E b \in {Opened(Batch, p)} :
       /\ Resolves(b.source, p) /\ Plans(b, p)
       /\ LET edit == PlannedEdit(b, p)
              keep == Preserves(Deferral(b, p), p, edit.text)
          IN  /\ keep # 0
              /\ Leave([WithEdit(b, edit) EXCEPT !.pending = IF @ # 1 THEN keep ELSE @])

\* The edit changes ordinals, so all edits are made at once.
PatchAtOnce(p) ==
  /\ Take(p) /\ Asked(p)
  /\ \E b \in {Opened(Batch, p)} :
       /\ Resolves(b.source, p) /\ Plans(b, p)
       /\ Preserves(Deferral(b, p), p, PlannedEdit(b, p).text) = 0
       /\ \E made \in {Materialized(WithEdit(b, PlannedEdit(b, p)))} : Leave(made)

\* The general planner: the tree is patched, by selectors that are resolved in it.
Operate(p) ==
  /\ Take(p) /\ Asked(p)
  /\ \E b \in {Opened(Batch, p)} :
       /\ Resolves(b.source, p) /\ ~Plans(b, p)
       /\ Leave([source |-> Applied(b.source, p, Input(p)), edits |-> {},
                 pending |-> 0, clean |-> FALSE])

\* A selector that names nothing ends the list and the handle.
Refuse(p) ==
  /\ Take(p)
  /\ \/ ~Asked(p)
     \/ Asked(p) /\ \E b \in {Opened(Batch, p)} : ~Resolves(b.source, p)
  /\ failed' = TRUE
  /\ UNCHANGED <<source, edits, pending, clean>>

\* The end of the list: what still waits is kept as edits of the source.
Finished == (failed \/ count = MaxPatches) /\ UNCHANGED vars

Next ==
  \/ \E p \in Patches : DeferPatch(p) \/ PatchAtOnce(p) \/ Operate(p) \/ Refuse(p)
  \/ Finished

Spec == Init /\ [][Next]_vars

-------------------------------------------------------------------------------

Values == {"string", "number", "bind", "field", "function", "opaque"}

\* Texts are tokens in their nesting, edits are ranges of the source, and edits
\* wait exactly while the branch says so (sqlparser_apply_patch_in_place).
TypeOK ==
  /\ \A i \in DOMAIN source : source[i].depth \in Nat /\ source[i].kind \in Values \cup {"close"}
  /\ \A e \in edits : 1 <= e.from /\ e.from <= e.to /\ e.to <= Len(source) + 1
  /\ pending \in 0..2 /\ (pending = 0 <=> edits = {})
  /\ count \in 0..MaxPatches /\ clean \in BOOLEAN /\ failed \in BOOLEAN

\* Edits that wait stay good for the patches behind them.  A planned edit never
\* meets one that waits: the retry after a refused insertion
\* (sqlparser_patch_apply_surface_batch) is not needed by any list.  And while
\* only strings wait, every literal keeps its number and its kind, which is what
\* lets literal[n] be resolved in the old text.
DeferredEditsStand ==
  /\ \A e, d \in edits : e = d \/ ~RangesOverlap(e, d)
  /\ pending = 2 =>
       LET now == Restored(Batch)
           kinds(t) == [i \in DOMAIN LiteralsOf(t) |-> t[LiteralsOf(t)[i]].kind]
       IN  kinds(now) = kinds(source)

\* Patches that wait are the patches one by one: the list does to the text what
\* PatchSequence promises, and fails exactly where it does.
Promise == INSTANCE PatchSequence WITH
  document <- IF failed THEN Failed ELSE Restored(Batch)

ListTakesEffectInOrder == Promise!Spec
=============================================================================
