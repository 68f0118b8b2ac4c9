--------------------------- MODULE HandleContents ---------------------------
(***************************************************************************)
(* The contents of a handle (sqlparser_core.c) and what the internal       *)
(* operations of the library do to them.  One document lives in several    *)
(* places: the SQL text the handle was parsed from, the source edits over  *)
(* it, the parse tree as protobuf wire, as unpacked AST or as compact      *)
(* INSERT, the dialect's side state, the regenerated SQL and the query     *)
(* graph.  Which of them is the authority changes from call to call.       *)
(*                                                                         *)
(* Each place carries the version of the document it holds; the document   *)
(* gains a version with every patch.  Operators map a handle to the handle *)
(* after a successful operation; failures are in HandleLifecycle.          *)
(***************************************************************************)
EXTENDS Integers

CONSTANT NULL   \* the C null pointer

\* No version at all: the result of editing a text or tree that is out of date.
Garbage == -1
Version == Nat \cup {Garbage}
VersionOrNull == Version \cup {NULL}

Flags == {"ACTIVE", "IN_PLACE", "AST_DIRTY", "MULTI_INSERT_DIRTY"}
Representations ==
  {"EMPTY", "LEGACY_WIRE", "LEGACY_AST", "OWNED_AST", "COMPACT_INSERT"}

\* Source edits are byte ranges of one text: base is the version of that text,
\* text the version the edits turn it into.
SourceEdits == [base : Version, text : Version]
RegeneratedSql == [text : Version, parser : BOOLEAN]
\* A certified graph was proved against the wire or the compact form.
CachedGraph ==
  [generation : Nat, text : Version, certified : {"no", "wire", "compact"}]
BindOccurrences == [generation : Nat, text : Version]

Handle ==
  [failed : BOOLEAN, generation : Nat, representation : Representations,
   compact : VersionOrNull, compactGeneration : Nat,
   wire : VersionOrNull, ast : VersionOrNull, bound : BOOLEAN,
   multi : VersionOrNull,         \* the side state of a multi-table INSERT
   control : BOOLEAN,
   sql : VersionOrNull, edits : SourceEdits \cup {NULL}, complete : BOOLEAN,
   flags : SUBSET Flags, current : RegeneratedSql \cup {NULL},
   graph : CachedGraph \cup {NULL}, binds : BindOccurrences \cup {NULL},
   certificate : Nat \cup {NULL}]  \* generation of oracle_source_provenance

\* The null pointer is no version and points to no object.
ASSUME NullAssumption ==
  /\ NULL \notin Int
  /\ NULL \notin SourceEdits /\ NULL \notin RegeneratedSql
  /\ NULL \notin CachedGraph /\ NULL \notin BindOccurrences
  /\ NULL \notin Handle

\* Patches applied to a text or tree that should hold version "before".
Patched(content, before, count) ==
  IF content = before THEN before + count ELSE Garbage

Edited(sql, edits) ==
  IF edits = NULL THEN sql
  ELSE IF edits.base = sql THEN edits.text ELSE Garbage

HasRepresentation(h) ==
  /\ ~h.failed
  /\ \/ h.representation = "COMPACT_INSERT" /\ h.compactGeneration = h.generation
     \/ h.wire # NULL
     \/ h.ast # NULL

-----------------------------------------------------------------------------
(* Releasing and invalidating.                                             *)

ClearAst(h) ==
  IF h.ast = NULL THEN [h EXCEPT !.bound = FALSE]
  ELSE [h EXCEPT !.ast = NULL, !.bound = FALSE,
                 !.representation = CASE @ = "LEGACY_AST" -> "LEGACY_WIRE"
                                      [] @ = "OWNED_AST" -> "EMPTY"
                                      [] OTHER -> @]

DiscardAstAdapter(h) ==
  IF h.representation = "OWNED_AST" THEN h ELSE ClearAst(h)

\* Mutant: the regenerated SQL survives.
InvalidateKeepsSql(h) ==
  [h EXCEPT !.graph = NULL, !.binds = NULL, !.certificate = NULL]

InvalidateDerived(h) ==
  [h EXCEPT !.current = NULL, !.graph = NULL, !.binds = NULL, !.certificate = NULL]

\* handle->failed and the limits are all that release_contents leaves.
Released(h) ==
  [failed |-> h.failed, generation |-> 0, representation |-> "EMPTY",
   compact |-> NULL, compactGeneration |-> 0, wire |-> NULL, ast |-> NULL,
   bound |-> FALSE, multi |-> NULL, control |-> FALSE, sql |-> NULL,
   edits |-> NULL, complete |-> FALSE, flags |-> {}, current |-> NULL,
   graph |-> NULL, binds |-> NULL, certificate |-> NULL]

\* Mutant: the generation starts again.
MarkFailedFromZero(h) == [Released(h) EXCEPT !.failed = TRUE]

MarkFailed(h) ==
  IF h.failed THEN h
  ELSE [Released(h) EXCEPT !.generation = h.generation + 1, !.failed = TRUE]

-----------------------------------------------------------------------------
(* Moving between representations.                                         *)

\* Flushing needs the AST whenever it is dirty.
CanFlush(h) == "AST_DIRTY" \in h.flags => h.ast # NULL

\* Mutant: the flag is cleared without packing the AST.
FlushWithoutPack(h) == [h EXCEPT !.flags = @ \ {"AST_DIRTY"}]

FlushAst(h) ==
  IF "AST_DIRTY" \notin h.flags THEN h
  ELSE [h EXCEPT !.flags = @ \ {"AST_DIRTY"},
                 !.wire = IF h.representation = "OWNED_AST" THEN @ ELSE h.ast]

\* The compact INSERT is retired for an AST parsed from parser_sql.
PromoteCompact(h) ==
  IF h.compact = NULL THEN h
  ELSE [h EXCEPT !.ast = h.sql, !.compact = NULL, !.bound = FALSE,
                 !.representation = "OWNED_AST"]

EnsureAst(h) ==
  LET p == PromoteCompact(h)
  IN  IF p.ast = NULL
      THEN [p EXCEPT !.ast = p.wire, !.bound = TRUE, !.representation = "LEGACY_AST"]
      ELSE [p EXCEPT !.bound = TRUE]

\* Binding failed after the AST was there: an owned AST only loses its binding.
EnsureAstFailed(h) ==
  LET p == PromoteCompact(h)
  IN  IF p.representation = "OWNED_AST" THEN [p EXCEPT !.bound = FALSE]
      ELSE ClearAst(p)

-----------------------------------------------------------------------------
(* Rendering.                                                              *)

\* The tree that deparse walks: an owned AST itself, otherwise the wire; the
\* branches of a multi-table INSERT come from the side state.
RenderedTree(h) ==
  IF h.multi # NULL THEN h.multi
  ELSE IF h.representation = "OWNED_AST" THEN h.ast ELSE h.wire

\* Rendering control units binds the AST and leaves it loaded; otherwise only
\* an owned AST stays bound, a wire adapter is dropped again.
RenderingHandle(h) ==
  IF h.control \/ h.representation = "OWNED_AST" THEN EnsureAst(h) ELSE h

\* ensure_current_sql_text.  SQL rendered from edits has no parser text, which
\* an incomplete handle without control flow needs.
EnsureCurrentSql(h) ==
  LET f == FlushAst(h)
      usable == /\ f.current # NULL
                /\ f.complete \/ f.control \/ f.current.parser
  IN  IF f.generation = 0 \/ usable THEN f
      ELSE IF f.complete
        THEN [f EXCEPT !.current = [text |-> Edited(f.sql, f.edits), parser |-> FALSE]]
        ELSE [RenderingHandle(f) EXCEPT
                !.current = [text |-> RenderedTree(f), parser |-> ~f.control]]

UsesCurrentSql(h) == h.generation # 0 /\ (h.control \/ h.current # NULL)

\* Mutant: original bytes are copied whatever the generation.
DeparseOriginal(h) == FlushAst(h).sql

\* What deparse_current returns, and the handle it leaves.
DeparseText(h) ==
  LET f == FlushAst(h)
  IN  IF f.generation = 0 THEN f.sql
      ELSE IF UsesCurrentSql(f) THEN EnsureCurrentSql(f).current.text
      ELSE IF f.complete THEN Edited(f.sql, f.edits)
      ELSE RenderedTree(f)

DeparseHandle(h) ==
  LET f == FlushAst(h)
  IN  IF UsesCurrentSql(f) THEN EnsureCurrentSql(f)
      ELSE IF f.generation = 0 \/ f.complete THEN f
      ELSE RenderingHandle(f)

-----------------------------------------------------------------------------
(* Derived data, stamped with the generation it was built at.              *)

\* The graph is kept while its generation is the handle's.
GraphIsCurrent(h) == h.graph # NULL /\ h.graph.generation = h.generation

\* A compact form is its own certificate; wire is certified against the text it
\* was parsed from, which must be the whole truth.
CanCertify(h) ==
  \/ h.representation = "COMPACT_INSERT" /\ h.compactGeneration = h.generation
  \/ /\ h.representation = "LEGACY_WIRE"
     /\ h.generation = 0 \/ h.complete
     /\ h.edits = NULL /\ h.current = NULL
     /\ h.flags = {} /\ ~h.control /\ h.multi = NULL

CertifiedGraph(h) ==
  [h EXCEPT !.graph =
     [generation |-> h.generation,
      text |-> IF h.compact # NULL THEN h.compact ELSE h.wire,
      certified |-> IF h.compact # NULL THEN "compact" ELSE "wire"]]

AstGraph(h) ==
  LET a == EnsureAst(h)
  IN  [a EXCEPT !.graph = [generation |-> h.generation, text |-> a.ast,
                           certified |-> "no"]]

\* The handles a query of the graph may leave: a certificate is optional.
GraphReads(h) ==
  IF GraphIsCurrent(h) THEN {h}
  ELSE (IF CanCertify(h) THEN {CertifiedGraph(h)} ELSE {})
         \cup (IF h.compact = NULL THEN {AstGraph(h)} ELSE {})

\* Bind occurrences are scanned in the regenerated SQL.
EnsureBinds(h) ==
  LET c == EnsureCurrentSql(h)
  IN  IF h.binds # NULL /\ h.binds.generation = h.generation THEN h
      ELSE [c EXCEPT !.binds =
              [generation |-> h.generation,
               text |-> IF c.generation = 0 THEN c.sql ELSE c.current.text]]

\* oracle_multi_insert_source_is_current
SourceIsCurrent(h) ==
  /\ h.multi # NULL /\ h.certificate = h.generation /\ h.wire # NULL
  /\ h.edits = NULL /\ h.flags \cap {"AST_DIRTY", "MULTI_INSERT_DIRTY"} = {}

CertifySource(h) ==
  [h EXCEPT !.certificate = IF h.multi # NULL THEN h.generation ELSE NULL]

-----------------------------------------------------------------------------
(* Commits: the handle moves to other text or to another tree.             *)

\* A parsed text, in the representation r the parser chose.
Parsed(text, r, multi, control) ==
  [failed |-> FALSE, generation |-> 0, representation |-> r,
   compact |-> IF r = "COMPACT_INSERT" THEN text ELSE NULL, compactGeneration |-> 0,
   wire |-> IF r = "LEGACY_WIRE" THEN text ELSE NULL,
   ast |-> IF r = "OWNED_AST" THEN text ELSE NULL, bound |-> FALSE,
   multi |-> IF multi THEN text ELSE NULL, control |-> control,
   sql |-> text, edits |-> NULL, complete |-> FALSE, flags |-> {},
   current |-> NULL, graph |-> NULL, binds |-> NULL,
   certificate |-> IF multi THEN 0 ELSE NULL]

\* reparse_destructive parses into the same allocation, never a compact form.
Reparse(h, text, r) ==
  CertifySource([Parsed(text, r, h.multi # NULL, h.control) EXCEPT
    !.generation = h.generation + 1, !.complete = TRUE,
    !.flags = h.flags \cap {"ACTIVE", "IN_PLACE"}])

ParserChoices(h) ==
  IF h.multi # NULL THEN {"LEGACY_WIRE"} ELSE {"LEGACY_WIRE", "OWNED_AST"}

\* New SQL and the wire packed for it replace everything.
CommitInsertWire(h, text) ==
  [Released(h) EXCEPT !.generation = h.generation + 1, !.sql = text,
                      !.wire = text, !.representation = "LEGACY_WIRE",
                      !.complete = TRUE]

CommitCompactInsert(h, text) ==
  [Released(h) EXCEPT !.generation = h.generation + 1, !.sql = text,
                      !.compactGeneration = h.generation + 1,
                      !.compact = text, !.representation = "COMPACT_INSERT",
                      !.complete = TRUE]

\* The caller changed the string literals in the AST: an owned AST stays, an
\* adapter is packed to wire and dropped.
CommitInsertStrings(h, text) ==
  LET kept == [Released(h) EXCEPT !.generation = h.generation + 1, !.sql = text,
                                  !.complete = TRUE]
  IN  IF h.representation = "OWNED_AST"
      THEN [kept EXCEPT !.ast = text, !.representation = "OWNED_AST"]
      ELSE [kept EXCEPT !.wire = text, !.representation = "LEGACY_WIRE"]

\* The caller finds every edited literal at its old place in the owned AST,
\* installs the new ones and shifts the locations.
CanRebase(h) ==
  /\ h.representation = "OWNED_AST" /\ ~h.control /\ h.multi = NULL
  /\ h.ast = h.sql

CommitRebasedSource(h, text) ==
  [InvalidateDerived(h) EXCEPT
     !.sql = text, !.ast = text, !.edits = NULL, !.wire = NULL, !.bound = TRUE,
     !.generation = @ + 1, !.complete = TRUE,
     !.flags = IF "ACTIVE" \in @ THEN @ \cup {"AST_DIRTY"} ELSE @ \ {"AST_DIRTY"}]

\* The side state of a multi-table INSERT takes the change alone: the tree only
\* holds its source SELECT, which stays as current as it was.
WithState(h, state) ==
  [h EXCEPT !.multi = state,
            !.wire = IF @ = h.multi THEN state ELSE @,
            !.ast = IF @ = h.multi THEN state ELSE @]

CanCommitStrings(h) ==
  SourceIsCurrent(h) /\ ~h.control /\ h.flags \subseteq {"ACTIVE", "IN_PLACE"}

CommitMultiInsertStrings(h, text) ==
  CertifySource([InvalidateDerived(WithState(h, text)) EXCEPT
    !.sql = text, !.complete = TRUE, !.generation = @ + 1])

\* commit_ast: the AST already has the change.  Serialization waits for the
\* end of the batch while ACTIVE is set.  tree is what the AST now holds.
CommitAst(h, tree) ==
  LET changed == [h EXCEPT !.ast = tree, !.flags = @ \cup {"AST_DIRTY"},
                           !.multi = IF @ = NULL THEN @ ELSE tree]
      stored == IF "ACTIVE" \in h.flags THEN changed ELSE FlushAst(changed)
  IN  InvalidateDerived([stored EXCEPT !.generation = @ + 1, !.edits = NULL,
                                       !.complete = FALSE])

\* A cell or branch of a multi-table INSERT changes in the side state only.
CommitDeferredState(h, state) ==
  InvalidateDerived([WithState(h, state) EXCEPT
    !.generation = @ + 1, !.complete = FALSE,
    !.flags = @ \cup {"MULTI_INSERT_DIRTY"}])

\* Outside a deferred run the text is rebuilt from the side state at once.
RebuildFromState(h, state) ==
  LET edited == InvalidateDerived([WithState(h, state) EXCEPT !.generation = @ + 1])
  IN  Reparse(edited, DeparseText(edited), "LEGACY_WIRE")
=============================================================================
