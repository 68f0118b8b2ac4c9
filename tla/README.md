# Verification of sqlparser

`sqlparser` is a C library that parses one SQL text (thirteen dialect entries over
the vendored PostgreSQL parser `libpg_query`), shows it through views and selectors,
applies lists of patches to it and deparses it.  This directory holds TLA+ models of
its own core logic, the TLC configurations that check them on small instances, and
proofs that TLAPS checks for every value of the constants.  Paths are relative to the
root of the repository; line numbers are those of the commit the models were read from.

1. Inventory - 2. Plan - 3. Source edits - 4. A handle from parse to destroy -
5. Names - 6. Deferred patches - 7. Copies of handles - 8. The MySQL dialect -
9. The query graph - 10. Results of data-modifying statements - 11. Runs -
12. Bounds and fairness - 13. Proofs - 14. Findings - 15. What is not modelled

## 1. Inventory

A handle has one owner and every call is synchronous; apart from one `pthread_once`
in initialisation there is no concurrency inside the library.  What makes it hard is
*sequence*: a handle keeps several representations of the same document (source
bytes, pending source edits, protobuf wire, unpacked AST, compact INSERT form,
dialect side state, regenerated SQL, query graph, bind occurrences), each patch
updates some of them and defers the others, and every allocation and sub-parse may
fail in the middle.

| component | source | state | operations | hard behaviour | what makes it correct |
| --- | --- | --- | --- | --- | --- |
| handle contents | `src/core/sqlparser_core.c` | representation, generation, wire, AST, compact form, source completeness, batch flags, caches, failed mark | parse, deparse, flush, promote, ensure AST, commit, reparse, mark failed, release | several authorities, of which a flag decides; caches without a stamp; rewound generations | every form a call may choose as the authority holds the document; derived data that is served is current |
| patch application | `src/core/sqlparser_patch.c` | the running list: edits, completeness, pending mode, original generation | apply, certified fast paths, planners, materialize | deferral of source edits and side state, retries, errors between any two steps | a list takes effect as a whole and in order, or the handle is dead |
| query graph and views | `src/core/sqlparser_view.c` | graph with a generation; views hold a generation and an index | build, query, follow a view, export JSON | a view followed into a later cache | a stale view is refused |
| bind occurrences | `sqlparser_bind_occurrence.c`, `_bind_role.c` | occurrences with a generation | scan, query | scanned in regenerated SQL | as the document; markers in source order |
| certified INSERT | `sqlparser_wire_insert.c`, `_wire_insert_batch.inc`, `_certified_insert_pack.c` | wire or compact cells, certificate of a graph | certify, edit cells, pack | edits bytes that were never unpacked | the packed bytes are the message with the cells replaced |
| multi-table INSERT | `sqlparser_dialect_multi_insert.c`, `_oracle.c`, `_dameng.c` | branches beside the tree, dirty flag, provenance certificate | parse, patch cell / columns / branch, rebuild | the tree holds only the source SELECT | no branch change is forgotten |
| source edit lists | `src/core/sqlparser_surface.c`, planners of `sqlparser_patch.c` | sorted edits and their buffers | insert, deduplicate, batch length, column and pair plans, clone, restore | neighbour check, buffer ownership, limits | an unambiguous simultaneous edit of the source |
| identifier spelling | `sqlparser_core.c` 480-1009, `sqlparser_ast.c`, `sqlparser_ast_identifier.c`, `sqlparser_ast_statement.c` | arena of spelling groups named by AST locations; mutations named by AST pointers | begin, append, finish, sweep, lookup, rebind | reuse of a group or an address that something still names | a name resolves to the spelling it was given |
| identifier origins | `sqlparser_identifier_origin.c` | map from parser to source positions | record, compose, look up | composition of rewrites | composition is the map of the composed rewrite |
| selectors | `sqlparser_selector.c` | none | parse, format | a selector goes stale inside a list | parse after format is the identity |
| statement and gap scanning | `sqlparser_surface.c` 276-1607 | cursor, quote and comment state | split statements, find terminators and gaps | comments, quotes and dollar quotes that hide delimiters | statements and gaps partition the text |
| control flow units | `sqlparser_control.c`, `_sqlserver_control.c` | tree of units | parse, enter, render | nesting, ELSE binding | rendering visits every unit once, in order |
| AST operations | `sqlparser_ast*.c` | one tree | edit of a node, bulk renames | failure after half an edit | all or nothing, or the handle is failed |
| DML results | `sqlparser_ast_dml_result.c`, `sqlparser_dialect_dml_result.c`, `sqlparser_dialect_sqlserver_output.c` | channels, sinks, `$action` marks and pairs beside the tree | select, replace, insert, delete a target; sinks; clone; write back | two channels share one list of the tree; two ways of finding a node | a selector names what the deparse writes there; a patch edits one channel |
| AST rebase | `sqlparser_ast_rebase.c` | locations | shift after edits | order of shifts | locations name the same tokens |
| deparse spelling | `sqlparser_deparse_spelling.c`, `_render_scaffold.c` | alignment of two token streams | align, splice | ambiguous alignment | only spelling differs |
| dialect registry and shared rewrites | `sqlparser_dialect_registry.c`, `_minus.c`, `_like_escape.c`, `_national_literal.c` | rewrite tables | rewrite, restore | two rewrites of one span | restore after rewrite is the identity |
| MySQL, SQL Server, PostgreSQL, Vastbase dialects | `src/dialect/*.c` | dialect state of the handle | preprocess, restore | tokens in quotes | as above |
| view JSON, CLI, benchmark, `libpg_query` | `sqlparser_view.c`, `tools/`, `vendor/` | - | formatting, I/O, third party | - | - |

Interaction: the owner calls the API; a patch list calls planners (source edits), AST
operations and dialect hooks, which change tree, side state and edits of the handle
and invalidate its caches; a rebuild renders SQL, runs the dialect's preprocessing and
`libpg_query` over it and installs the result in the same allocation; views and graph
queries read whatever the handle then holds.

`PROJECT.json` lists the components with their status, and under `hazards` the places
where a test hardly reaches. Where a passing run leaves out part of such a case, because
the code goes wrong there, the hazard's note says which part and where it is shown
(sections 12 and 14).

## 2. Plan

Done in this order, most important behaviour first.

| module | models | abstract specification / composition | runs | theorems |
| --- | --- | --- | --- | --- |
| `SurfaceEdits` (done) | source edit lists | simultaneous edit `Piece` | `surface_edits` | every property, the bisection, rendering (done) |
| `HandleContents`, `HandleLifecycle` (done) | handle, calls, patch lists | `PatchedDocument` by refinement | `handle_*` | every invariant, `ImplementsPromise` (done, without repeated rebuilds) |
| `IdentifierMutations` (done) | records of changed names, bound to the strings of a tree | the spelling each name is due | `identifier_mutations`, `identifier_renames` | every property (done, without the troubles `Admitted` lists) |
| `IdentifierSpelling` (done) | arena of spelling groups: append, finish, sweep | a map from locations to spellings | `handle_memory` | every property (done) |
| `HandleClone` (done) | clone and `replace_contents` | blocks with one owner each | `handle_memory` | every property (done) |
| `PatchText`, `PatchSequence`, `PatchBatch` (done) | deferral of source edits of values and arguments | `PatchSequence`, the list applied one by one, by refinement | `patch_batch` | to do: lemmas on ranges of `PatchText` |
| `MySqlSurface` (done) | hints, straight joins, comma limits, national literals beside the tree | decorations that stay with their nodes | `mysql_dialect` | - |
| `MySqlUpdateJoins` (done) | UPDATE of several tables: rewriting, flags, restoring, attribution | the statement as it was patched | `mysql_dialect`, `mysql_conditions` | `RestoreWritesTheStatement` (done) |
| `QueryGraph` (done) | the walk that builds the graph of a statement | the scoping of SQL | `query_graph`, `query_renames` | - |
| `DmlResults` (done) | OUTPUT, RETURNING, RETURNING INTO | `OutputChannels` by refinement | `dml_results` | pairs, tiles, moved selectors, `StateInvariant`, `SelectorsReadWhatIsWritten`, the refinement (done) |
| `MultiInsertBranches` | parse, patch and rendering of branches; Dameng without a certificate | a sequence of branches | two branches, two cells | - |
| `CompactInsert`, `WireInsert` | compact cells, offsets of wire fields | a matrix of cells | two rows | offsets stay inside the message |
| `BindOccurrences` | marker scan, roles | positions of markers outside quotes | texts up to length 6 | - |
| `IdentifierOrigin`, `RebasePlan` | position maps, location shifts | composition of functions | three segments | composition |
| `StatementScan`, `SpellingRestore`, `PositionalRewrite` | scanners and rewrites | partition of the text | texts up to length 6 | partition |
| `Selector`, `ControlUnits`, `ValidationArena`, `TreeEdits` | the rest of the core | as in the table above | small | - |

Modules that are proved about use recursive functions or folds; parameters are
CONSTANTS with named assumptions; invariants are conjunctions of named parts.

## 3. Source edits

`SurfaceEdits` is the list of source edits (`sqlparser_surface_source_edits_t`) and
the planners that fill it. While a list of patches keeps the source text complete, the
SQL to come is the original bytes under these edits and nothing else.

| module | code |
| --- | --- |
| `list[h]` (`items`, `capacity`) | `surface_source_edits` of a handle; `items` in source order |
| `heap`, `owned` | replacement buffers that live, and the one a caller rendered and has not handed over |
| `running[h]` | `in_out_sql_length` of `sqlparser_patch_batch_surface_edit` |
| `plan` | the insertions a checked plan still has to make, between two calls of the insertion |
| `PlainInsert`, `DeduplicatedInsert`, `BatchInsert` | `source_edits_insert(_owned)`, `surface_edit_insert_deduplicated`, `batch_surface_edit`; each may also fail to allocate |
| `PlanColumns`, `PlanPair`, `PlanStep` | `plan_insert_columns_surface_edit` (one edit per row) and the pair of a MERGE insert: check first, then insert one by one |
| `Clone`, `Release`, `Restore` | `source_edits_clone`, `_release`, `surface_restore_source_edits` |

The bytes of the source are numbers and replacements are sequences of bytes, because
what a rendering writes is compared byte by byte with `Piece`, the text of a simultaneous
edit. `last` is what the last call returned.

## 4. A handle from parse to destroy

`HandleContents` describes the contents of a handle as a record and what the internal
operations of `sqlparser_core.c` do to it, as operators from handles to handles: flush,
promote, ensure AST, deparse, the caches, the commits, reparse, mark failed. Each place
that holds the document (source text, edits, wire, AST, compact form, side state of a
multi-table INSERT, regenerated SQL, graph, binds) carries the number of the version it
holds, and an edit of something out of date yields `Garbage`. So the model does not know
what SQL is, but knows which patch each copy has seen.

`HandleLifecycle` is the machine: `handle`, `document` (patches the owner applied),
`batch` (the local variables of a running `sqlparser_apply_patch`), `view` (a graph view
the owner kept), `answer` (the version the last call showed).

| actions | code |
| --- | --- |
| `Deparse`, `ReadGraph`, `FollowView`, `ReadBinds`, `ReadTree` and their failures | the reading calls of the API |
| `ApplyToWire`, `ApplyToBranches`, `ApplyToStrings`, `ApplyNothing` | the certified fast paths and the empty list |
| `BeginApply`, `TakePatch`, `OpenSurface` .. `SurfaceUnsupported` | the start of the loop and the surface branch: defer, plan, retry after a rebuild |
| `ChooseMultiInsert`, `RenameRelation`, `RewriteRelation`, `MaterializeEarlier`, `RewriteBranchCell`, `Operate` | the generic branch of the loop, in the order of the code |
| `EndOfPatches`, `Flush`, `RebuildDirty`, `RebuildRhs`, `CommitBatch` | after the loop |
| `ApplyFails`, `Destroy` | any error stops the list; a failed handle can only be destroyed |

`batch.stage` is the place in the code, so that the steps of a list happen in its order
and `ApplyFails` may come between any two. `PatchedDocument` is what this
promises the owner: one document that a list changes as a whole with one new generation,
or a dead handle. `ImplementsPromise` states that `HandleLifecycle` implements it; the
mapping shows, while a list runs, the document and generation it began with.

## 5. Names

For every name a patch changes the handle keeps a record: the address of the field, the
address of the string in it, the ordinal of the string in the statement, the text it had
at first, the spelling it was given, and a group that ties the parts of one relation
together. `IdentifierMutations` is the list of these records over one statement.

| module | code |
| --- | --- |
| `tree` | the strings `sqlparser_walk_message_strings` visits, in its order; `id` and `part` make the address of a field, `cell` is the address of the string |
| `records` | `handle->identifier_mutations`; `slot`, `cell`, `index` are `slot`, `value`, `string_index` |
| `loaded`, `backing` | whether the AST is unpacked, and whether the handle owns it |
| `SetName` | `sqlparser_statement_set_name_spelling`: prepare a record, replace, refresh, commit, drop |
| `SetRelation` | `sqlparser_replace_relation_and_bound_qualifiers`: schema and name under one group, then the qualifiers of bound columns node by node |
| `Restructure` | any other patch: nodes are freed and those of a fragment put in their place, then `sqlparser_handle_commit_ast` |
| `DiscardAstAdapter`, `EnsureAst`, `Reparse` | between lists: the AST is dropped and unpacked again, or parsed anew without records |
| `Rebind`, `Prepare`, `GroupOf`, `Tagged`, `Written` | the functions of these names' code, as operators |

Two fields of a string are not in the code: `first`, the text it came with, and `due`,
the spelling the patches asked for. The code never reads them, the properties do. The
allocator hands out the lowest free address, which reuses freed addresses as early as
an allocator can; empty strings of an unpacked tree share address 0, as they share
`protobuf_c_empty_string`.

`IdentifierSpelling` is the arena behind the spellings: a generated node has no place in
the source, so its location field is a number made of a *group* of the arena and a
*component* of it (the form of an unpacked or packed tree; compact forms have none).

| module | code |
| --- | --- |
| `arena` | `identifier_spellings`: groups, capacity, the hole search starts at, the group being built |
| `tree`, `wire`, `held`, `records` | the places that hold locations: the unpacked AST, the packed one, fragments not yet installed, `original_alias_location` of mutation records |
| `MarkMessage`, `FinishGeneratedSource`, `ClearIdentifierPath` | begin, append, finish and cancel a group |
| `InstallFragments`, `RemoveNode`, `SetAlias`, `RestoreAlias` | patches; each commits, rebinds the records and sweeps |
| `Swept`, `TakeGroup`, `SpellingAt` | `identifier_spellings_sweep`, the search for a hole, the lookup |

A failing step ends in phase `failed`, since a failure destroys the handle. After a sweep
the capacity is any number the code may shrink it to; doubling from there may be
refused just past half of the limit (core.c:799), which `ArenaIsUsedUp` states.

## 6. Deferred patches

While only values and arguments change, `sqlparser_patch_apply_surface_batch` does not
touch the text: it keeps edits as ranges of the text the handle was parsed from, and
resolves the selectors of later patches *in that text*, although they mean the text after
the patches before them. `PatchText` is a text of tokens and the effect of one patch;
`PatchSequence` applies a list one patch at a time; `PatchBatch` is the code:

| module | code |
| --- | --- |
| `edits`, `pending`, `clean` | `surface_edits`, `surface_edits_pending`, whether the general planner left the text complete |
| `Deferral`, `Asks` | `sqlparser_patch_can_defer_surface` and the conditions under which it is asked |
| `Opened`, `Materialized` | edits that could mislead the patch are made first |
| `PlannedEdit`, `WithEdit` | `plan_expression_surface_edit`, the deduplicated insertion |
| `Input` | strings of the patches, copied before anything they may point into changes |
| `PatchAtOnce`, `Operate` | the branch for one patch, the general planner (one step that gives the text it makes) |

`ListTakesEffectInOrder` is the refinement of `PatchSequence`. Insertions refused for an
overlap, and the retry after them, are in `HandleLifecycle`; here `DeferredEditsStand`
shows that deferred edits never overlap. Targets of ASSIGNMENT, SELECT_TARGET and MERGE
strings stand behind `cell` and `literal`.

## 7. Copies of handles

Dialects with multi-table INSERT try a change on a copy. `HandleClone` copies a handle
block by block (`heap` is the set of blocks in use, `handle` the fields of the three
handles, `step` what is copied next) and lets every allocation fail; the partial copy is
destroyed by the routine for whole handles, which believes the counts it finds.
`ReplaceContents` moves all blocks of one handle into another and leaves a husk, which is
destroyed like any handle. `at` maps each place of a handle (a field, a string of a record,
a component of a group) to the block it points to; `Released` and `Destroyed` are the places
that `release_contents` and `destroy` reach by the counts.

## 8. The MySQL dialect

The parser is PostgreSQL's, so MySQL's preprocessing cuts hints, partitions,
STRAIGHT_JOIN, comma limits and national literals out of the text and files them under
numbers counted in the text. `MySqlSurface`: `surface` are the records of each kind,
`doc` the nodes of the statements with their addresses, `staged` the fragment of a patch.
`EnsureAst` binds records to nodes by counting nodes, `ParseFragment` appends the
records of a fragment, `Install`, `CopyNodes` and `RemoveNodes` are patches with their
commit (`Reconciled` turns owners back into numbers), and `Restored` is what deparse
writes at a node. One fragment is staged at a time.

MySQL updates several tables in one statement, PostgreSQL's tree one table from a list of
others. `MySqlUpdateJoins` is the way there and back:

| module | code |
| --- | --- |
| `sql` | the statement as the program wrote it and patched it: the join, the tables, the qualifiers of the assignments, the terms of WHERE |
| `tree` | the UPDATE of the tree: the table to update, FROM, assignments, WHERE, in which a call stands for the ON of the first join |
| `shape` | the flags of `sqlparser_mysql_dml_shape_t` |
| `Admitted`, `Parse` | `rewrite_update_join_statement` with `select_update_join_target` and `append_update_join_assignments` |
| `Valid`, `Reconciled` | `validate_update_shapes`, `reconcile_update_shapes`: the ends of every commit |
| `CanRestore`, `Restored` | `rewrite_update_from_to_join`, `rewrite_update_from_to_comma`, and the qualifiers that `resolve_assignment_qualifier` writes again |
| `Reading` | the tables that the query graph gives the statement and its assignments |
| `InsertAssignment`, `DeleteAssignment`, `ReplaceAssignment` | the patches, the last with `reorient_replaced_update_join` |
| `AppendCondition`, `ReplaceWhere` | patches of WHERE, after which the handle is parsed again from what it wrote (`CommitAndParse`, patch.c:13692) |
| `Reread` | the program parses an answer: the source with the edits spliced in, or the statement written back |

A table has a name, an alias and a schema, so a qualifier may be an alias, the name behind
an alias (which the text knows and the tree does not), or a path. The model was compared
with the library on ten thousand random lists of patches: answers, attributions and errors
agreed, up to the choice between an alias and a name that `Reread` leaves open.

## 9. The query graph

`QueryGraph` is the walk of one statement by `sqlparser_view.c` as a stack machine:
`work` is what the recursion has still to do, `scope` the chain of blocks in which names
are looked up, `entry` the CTEs met so far. A block is named by its path in the
statement, and its text is chosen when the walk opens it, so one run covers every
statement of a size.

| action | code |
| --- | --- |
| `OpenBlock` | `build_select`, `build_update_dml`, `build_insert_dml`: block, scope, target, and the order of the parts (`TasksOf`) |
| `AddTable`, `AddDerived`, `LinkSource` | the items of `build_from_item` |
| `BuildCte`, `ShareCte`, `CteIsNotRegistered`, `FinishCte` | the branches of `ensure_cte_block` |
| `ResolveField` | `add_column_ref_field` with `resolve_relation` |
| `EnterSubquery`, `AddResult`, `LeaveBlock` | sublinks, the block of RETURNING, `pop_scope` |

The properties compare its result with `Lexical` and `LexicalCte`, the scoping of SQL
read off the text. They differ in a known way: a CTE is walked in the scopes of its first
reference, a derived table sees its own alias, an ON sees the items before its join and
the ORDER BY of a set sees the block around it. `NamesAreLexical` therefore speaks
of references that are nested through expressions alone, and of all others when no
relation of their name is out of sight; `query_renames` shows what happens otherwise.

## 10. Results of data-modifying statements

The parser's tree has one RETURNING list per data-modifying node. SQL Server's OUTPUT has
up to two channels, `$action`, sinks with columns, and DMLs nested in the FROM of an
INSERT, so its dialect rewrites the text (a nested DML becomes a CTE with a made-up name,
the targets of both channels one list, `$action` a column with a made-up name) and keeps
the rest beside the tree. Oracle's RETURNING INTO is one list of targets and binds and a
number of pairs; PostgreSQL keeps nothing. `DmlResults` goes from the parse to the clauses
the deparse writes.

| module | code |
| --- | --- |
| `tree` | the DML nodes of each statement in the order of a walk, each with its RETURNING list |
| `dmls` | `sqlparser_sqlserver_output_state_t`: DMLs with their statement, CTE name and channels |
| `pairs` | `sqlparser_dialect_returning_into_state_t` |
| `Parse` | `sqlserver_output_preprocess` in its two passes (`NestedPass`, `StatementPass`), Oracle's `returning_into_validate` and `_append` |
| `NodeOf`, `ChannelsOf`, `TargetSql` | `sqlparser_get_dml_result_message`, `dml_result_channel_at`, `dml_result_target_sql`: what a selector finds |
| `ReplaceTarget`, `InsertTarget`, `InsertPair`, `InsertTargetSinkColumn`, `DeleteTarget`, `SetSink`, `SetSinkColumn`, `InsertSinkColumn`, `DeleteSinkColumn` | the operations of `sqlparser_ast_dml_result.c` |
| `Adjusted`, `Marked`, `Cloned` | `sqlserver_output_adjust_target_count`, `_channel_set_action`, `_clone` |
| `Deparsed` | `sqlserver_output_postprocess`, `returning_into_postprocess` |

`OutputChannels` is the promise: the SQL that is written has the channels that were parsed,
and a patch edits the channel it names and nothing else. The mapping is `Deparsed`. A patch
that is refused destroys the handle, which is `Destroy`. A target is a sequence of words,
since `$action` and a clash of made-up names are all that is read of it.

## 11. Runs

| run | asks | shows |
| --- | --- | --- |
| `surface_edits` | is a list always one unambiguous edit of the source, and who frees a buffer? | the check of two neighbours excludes every overlap; refusals are justified; checked plans never stop half-way; one pass with two cursors renders the simultaneous edit; the batch's running length is exact; every buffer has one owner, over hand-overs, duplicates, clones and failing allocations |
| `handle_lifecycle` | does every call show the document with all patches, and does a list end? | yes, for one rebuild of a complete handle per list: authorities and caches stay current, old views are refused, nothing is left in a copy that the next step ignores, the whole implements `PatchedDocument`, and retries make progress |
| `handle_rebuilds` (violation) | and with several such rebuilds in a list? | the second patch is lost, see findings |
| `patch_batch` | do deferred patches mean what they would mean one by one? | yes, with their ordinals, their strings and their failures |
| `identifier_mutations` | do records follow their strings, and is every name written as it is due? | yes, over patches outside the three troubles of section 14 |
| `identifier_renames` (violation) | and when a fragment's relation is renamed? | the old name is written |
| `handle_memory` | does a location always read the text stored for it, and who frees a block of a copied handle? | a full sweep is exact, holes are reused, and refusals come past half of the limit only; every block has one owner, wherever a copy fails |
| `mysql_dialect` | is a multi-table UPDATE written back as it was patched, and do decorations stay with their nodes? | yes: joins, order, qualifiers and WHERE come back, and a qualified assignment is given to the table it names; decorations survive insertions, copies, removals and reloads, where every FROM introduces a table |
| `mysql_conditions` (violation) | does a condition appended to an UPDATE with a join take effect? | it ends in an internal error, see findings |
| `query_graph` | is the graph the statement's? | every block once, every CTE built once and shared, and the owners SQL gives where nothing of a name is out of sight |
| `dml_results` | does a patch of OUTPUT or RETURNING edit the one channel it names? | yes, for two channels with `$action`, nested DMLs, pairs of RETURNING INTO and PostgreSQL's nodes: channels divide the list of their node, and selectors read what is written |
| `query_renames` (violation) | does a rename keep what columns refer to? | not past a derived table or CTE, see findings |

`handle_memory` and `mysql_dialect` each hold two models that share no state: one moves
while the other rests, which shows of each what a run of its own would.

Every property of a passing run has a mutant, a change of one definition of the kind a
slip in the code would make, under which TLC finds that property violated.

## 12. Bounds and fairness

`surface_edits`: two source bytes hold two nonempty ranges that touch, a range that spans
both, and an empty range inside and at both ends; three buffers give three edits in a list,
so an insertion between two neighbours that are not the whole list, or a clone of one edit
into the other list. Deletion and a two-byte text make the SQL shorter and longer;
`MaxRows` = 2 makes a plan with three insertions. `InitialCapacity` = 1 lets arrays grow at
once (4 in the code; the theorem holds for any). Buffers are interchangeable and so are
lists, hence the symmetry. The constraint `ReportsAreNotFollowed` stops at the states that
only differ in what a call which changed nothing has reported: they are checked, and since
no action reads `last` their successors are those of the state before the call.

`handle_lifecycle`: lists of up to `MaxPatches` = 3 and documents of `MaxDocument` = 3
patches in all: one patch before, one between and one after any rebuild, or several
lists. `RepeatRebuilds` = FALSE leaves out exactly the lists of the finding
`handle_rebuilds`: `MayRebuild` is false when the batch has given the source up and a
rebuild has declared the handle complete. Generations are not bounded by themselves;
they follow the number of steps.

`identifier_mutations`: three statements (a relation in a subquery, a qualified column,
two relations one of which has a schema) of up to five strings, names `a` and `b` and the
schema `s`, three patches (`MaxSteps`; four in the violation run). One record can be made
by the first patch, moved by the second and misread by the third. `Admitted` = {} leaves
out three kinds of patches, each named at the guard that excludes it:
`remove_renamed`, `rename_introduced`, `undo_spelled` (section 14).

`handle_memory`: `MaxGroups` = 4 groups of two components and a first capacity of 2,
so that the arena grows once and is then full; two nodes and two held fragments give
locations that outlive a sweep, three edits a group that is freed and taken again.
For copies three shapes of handles and 45 blocks, more than the three handles ever use
together.

`mysql_dialect`: two patches and ten nodes, over texts with two decorated nodes of a kind
in one statement and one in the next. For updates `MaxSteps` = 3 patches and `MaxSet` = 3
assignments: one patch makes a single update a multiple one, the second undoes it, the
third meets what the flags remember. Every kind of join with either table or both assigned
to, a list of three tables, a chain of two joins, a table joined to itself and a table of
another schema; one term under WHERE or none, and a plain or a parenthesised term to add.

`patch_batch`: one row with a function in a function, three
patches: one deferred, one that moves what it named, one resolved behind both.
`dml_results`: `MaxTargets` = 5 targets and receivers in a handle and `MaxColumns` = 2
columns of a sink; the largest document is parsed with four or fewer, so that each list can
grow by an insertion before, between and behind its targets. `MaxDmls` = 8 (64 in the code, a limit the caller may set)
is less than the DMLs of `TooMany` and more than those of any other document.
`query_graph`: `MaxParts` = 4 and one column reference (a property of a reference needs
no second one; a rename is judged for each), enough for a correlated subquery with a CTE
that is referenced twice; of two names, since three would only add relations that nothing
can be confused with.

Fairness is assumed in `handle_lifecycle` only: `FairSpec` is weak fairness of `BatchStep`,
the steps of a list that was begun. They are one call on one thread, which runs on by
itself. Nothing is assumed of the owner, who may never call again.
`handle_memory` and `mysql_dialect` may stop when their bounds are
used up, so deadlocks are not looked for there; in the others a destroyed handle or a
finished walk stutters by an action of its own.

## 13. Proofs

Six components are proved as far as the runs check them, for every value of their
constants: source edit lists, the handle from parse to destroy, copies of handles, the
records of changed names, the spelling arena, and DML results with the refinement of
`OutputChannels`. Of MySQL's UPDATE of several tables it is proved that the statement is
written back.

| modules | specification | theorems that state a property of a run |
| --- | --- | --- |
| `SurfaceEditsProofs` | `SurfaceEdits` | `InvariantHolds`, `EditsNeverConflict`, `RefusalsAreJustified`, `BatchLengthsAreExact`, `EveryEditIsRestored` |
| `HandleLifecycleProofs` | `HandleLifecycle` | `TypesHold`, `AnswersStayCurrent`, `CopiesStayCurrent`, `StaleViewsStayRejected`, `NothingGetsLost`, `CallsLeaveNothing`, `PromiseIsKept` |
| `HandleCloneProofs` | `HandleClone` | `NothingIsSharedAndNothingLeaks`, `CopyingTakesNothing`, `CountsNeverPassTheArrays` |
| `IdentifierMutationsProofs` | `IdentifierMutations` | `TypeOKHolds`, `RecordsFollow`, `GroupsStayTogether`, `NamesAreWritten`, `SpellingIsGiven` |
| `IdentifierSpellingProofs` | `IdentifierSpelling` | `NamesAreRead`, `SweepsAreExact`, `ArenaGrowsLast` |
| `MySqlUpdateJoinsProofs` | `MySqlUpdateJoins` | `StatementsAreWrittenBack` |
| `DmlResultsProofs` | `DmlResults` | `StateIsInvariant`, `SelectorsAgreeWithTheDeparse`, `OutputIsWrittenBack` |
| `RecursionFacts` | - | induction and operators on sequences, for the others |

**Induction.** The library states induction for operators, which the provers cannot
instantiate. `RecursionFacts` states it for sets instead: every set of naturals has a least
element (from well-foundedness), so a set with 0 and the successor of each of its members
has all of them (`SetInduction`), and what is proved of all numbers is that the set of the
good ones is closed. A recursive function is unfolded by proving, in the same way, that a
function with its equation exists, since `f[n \in S] == e` is the choice of one.

### Source edits

For any source, texts, limits, set of handles and set of buffers, and any first capacity.
`InvariantHolds` is `Spec => []ListInvariant`, which is `TypeOK`, `NoTwoEditsConflict`,
`EveryBufferHasOneOwner` and `PlanStaysAvailable`; `TypesHold`, `EditsNeverConflict`,
`BuffersHaveOneOwner` and `PlansComplete` (`PlannedInsertionsFit`) follow.

The items are sorted by their starts and pairwise free of conflicts, so a range that
conflicts with any of them conflicts with the neighbour of its place on that side
(`NeighbourCheckSuffices`); an insertion that passes the neighbour check therefore
conflicts with nothing and keeps the order (`InsertionKeepsConflictFree`). Replacing the
buffer of a duplicate leaves the ranges alone (`ReplaceFacts`), and a clone has the
ranges of its original with fresh buffers (`CloneFacts`). `PlannedInsertionsFit` is not
inductive: that the head of a plan fits says nothing of the rest after one more edit.
`PlanStaysAvailable` says it for all remaining insertions and among themselves, which
each `PlanStep` preserves because what it inserts was free of conflicts with the rest.

- The bisection that an insertion begins with returns the first edit that does not start
  before the range (`SearchFinds`, by induction over the width of the interval), also where
  the shortcut for appending is taken, and it meets a duplicate if there is one
  (`SearchFindsDuplicates`). Hence a refusal always has a conflict (`RefusalsAreJustified`).
- The batch counts the length of the SQL to come by differences. `BatchesExact`, an
  invariant on top of `ListInvariant`, says that the counter is the source's length plus
  the sum over the edits; the sum is the length of what the two-cursor pass writes
  (`RenderedLength`), so the counter is that length (`BatchLengthsAreExact`).
- `RenderedIsFlattened`: the pass over a conflict-free list writes the same as the pieces of
  all positions one after another, by induction over the edits (each writes the stretch
  of source before it and its text) and within a stretch over its bytes. With the limit
  checked on the way this is `EveryEditIsRestored`.

Assumptions: the module's. Bytes and limits are numbers, a plan has a row, `NULL` is not
a buffer.

### The handle

For any length of lists and any number of patches, under `~RepeatRebuilds`: with repeated
rebuilds `AnswersAreCurrent` is false, which is the finding `handle_rebuilds`, so a theorem
without the hypothesis would be too. The hypothesis is a constant of the model; it
excludes nothing but the second rebuild in a row of a list that has given up the source.

- The first part of `HandleLifecycleProofs`: a handle is `Sound` for a version when the form its
  representation names holds it, the source text with its edits does if it counts as
  complete, and each derived thing (regenerated SQL, graph, binds, certificate) does if its
  generation makes it count. Each operation of `sqlparser_core.c` is one lemma: flush, promote, ensure and deparse keep the
  version, commits and rebuilds go to the next (`DeparseFacts`, `GraphReadsFacts`,
  `RebaseFacts`, `RebuildFromStateFacts` are those that the calls rest on).
- The rest of it: the inductive `HandleInvariant`. Between lists the handle is sound
  for the document, no flag is set, and a kept view is of no later generation
  (`BetweenLists`). Within a list (`WithinList`) the tree may be behind the document by
  exactly the edits that are pending, so the handle is sound for the version of its text
  and the edits lead from there to the document (`HandleDuring`); the stage says which of
  the two the code after it relies on (`StageHolds`), e.g. that nothing is pending when an
  operation is made on the tree; and `Counted` relates the document to the patches left.
- Every action keeps it, one lemma each. The properties are read off it.
  `PromiseIsKept` is `Spec => ImplementsPromise`: a step within a list changes nothing the
  owner sees, the last one is `Apply` of `PatchedDocument` with one new generation, an error
  at any stage is its failure, and each reading call answers with the document.

The properties hang together: that an answer is current needs that the copies are, and
after a list that needs that no patch of it was lost.

TLC checked `HandleInvariant` before it was proved, with the bounds of `handle_lifecycle`
and documents of four patches. Assumptions: `NULL` is no version and no object
(`NullAssumption`), no list and no view (`NoListIsNull`); bounds are naturals.
`ApplyReturns`, that a list ends, needs fairness and is only model-checked.

### Copies of handles

For any shapes of handles, any number of records, groups and components, and any heap, also
one that is exhausted at any allocation. `EveryBlockHasOneOwner` is not inductive: during a
copy it says only that nothing went wrong so far. `IInv` says why nothing will:

- `Owned`: the blocks in use are exactly those that some handle holds at some place, each at
  one place. What is held (`Holds`) is what a place points to, but for two pointers that
  `destroy` must not follow: `parser_sql` when it is `sql`, and the spelling of a record that
  is not counted yet, which is the original's;
- `Whole`: the counts of a handle are those of its arrays and reach all it holds
  (`Trim`), for every handle but a copy in progress;
- `Copying`: how far that copy is (`Done`: what later steps copy is still empty, what
  earlier ones copied is counted in full), and that its counts reach all it holds but for
  the one record or group it is at.

Once the counts of a handle reach what it holds, `destroy` frees exactly that
(`DestroyedIsHeld`). So a step that gives up keeps the invariant if the counts it leaves
behind reach the record or group it was at (`AbandonKeeps`): a group is counted with the
components it has, a record that has its first string is counted with an empty second one, a
record without strings is not counted and its pointers are ignored (`CloneOriginalKeeps`,
`CloneSpellingKeeps`, `ClonePartOfGroupKeeps`). A step that goes on adds one new block at one
place that held none (`CopyTakes`) and stops at the first part of the original that is there
(`ReadyForNext`), which passes over groups without components as it counts them
(`ReadyAfterHoles`). A parsed handle has a block of its own at every place (`NumbersDiffer`).

`NothingIsSharedAndNothingLeaks` and `CountsNeverPassTheArrays` are read off `IInv`, and
`CopyingTakesNothing` off two of its states and the step between them. TLC checked `IInv` as
an invariant of `HandleClone` first. Assumptions: the handles to copy are as `IsShape` says
(`HandlesAssumption`).

### The records of changed names

For any statements, names, schemas, number of strings and number of patches, in any order
with reloads and reparses between, under `Admitted = {}`: no patch runs into one of the
`Troubles`, as with one of them a property is false (the finding `identifier_renames`, and
the two observations in section 14). `MutationsInvariant` is

- the tree is whole (`TreeIsWhole`): a relation is its schema and its name at one address, and
  no two fields, nor two strings but for the shared empty one, have the same address;
- the records `Follow` it: each is of a string of its own, has as its original the text the
  string came with (`Describes`), and if it was given a spelling that is the one due; a
  string without a record has its first text and is due as its node says (`IsKnown`); the
  records of a relation are all in one group or in none, and no other relation is in it
  (`GroupsAgree`);
- with the AST at hand the records name the addresses of their strings (`BoundIn`),
  without it they name none (`Unbound`).

`RecordsFollowTheirStrings` alone is not inductive: what rebinding finds depends on the
addresses, what a dropped group loses on what is due, and what a spelling group holds on
which parts of a relation were changed. `Holds` is the part of the invariant about a tree
and a list of records, and is kept in the middle of a patch as well, so each step of a patch
is a lemma on trees and records: preparing a record (`PrepareFacts`), changing a string with
its record (`ChangedHolds`), grouping (`RegroupedHolds`), dropping records of unchanged
strings (`DroppedHolds`), requalifying a column (`RequalifyHolds`, and all of them by
induction over the statement), exchanging nodes (`SpliceMoves`, `MovedHolds`).

- Rebinding after an exchange of nodes finds the strings that stayed by both addresses, and
  nothing of those that went: the fragment was built before they were freed, so none of its
  addresses is one of theirs (`FragmentFacts`). The shared empty string is the exception,
  which is why a renamed relation that is removed is one of the troubles.
- A group that is new is above all others (`GroupsEnd`), and a relation is never in two, so the
  "provenance is inconsistent" branch of `SetRelation` is not taken.
- What deparse writes follows the order of its choices (`WrittenAsDue`): a record's spelling
  is the one due; without one the name is due as its node says, and a name that a
  fragment brought is then unchanged and is the only nonempty string of its node
  (`FragmentSpellingFacts`), so the component found by counting is its own.

TLC checked `MutationsInvariant` on the instance of `identifier_mutations` first.
Assumptions: every source is a parsed statement (`IsParsed`), no name is empty, and `NULL`
is no address and no spelling.

### The spelling arena

For any texts, messages, numbers of components, groups, nodes and edits. `SpellingInvariant` is

- the arena is `Sound`: typed, the group being built is one of its groups, and no hole is
  before the index from which the next is searched, unless building has failed;
- `Stage`: which of the tree, the wire and the held fragments exist in which phase, and that
  the unpacked tree is the packed one unless a batch has put packing off;
- `Locations`: every location reads what its fragment spelled, in the tree, the fragments,
  the records, and the wire unless it is about to be replaced;
- `SweptArenaIsExact`.

Between two sweeps groups are only added to (`Extends`): building a message, identifier by
identifier (`SpelledFacts`), takes a hole or a new place and writes to it alone, so what a
location reads stays (`ReadWhileExtended`). The sweep empties groups, but no marked one
(`SweptFacts`), and marks those of the new tree and of the records that are left, so every
patch is the one lemma `CommitSpelling`. This is where the order of rebinding
and sweeping enters: the tree that is marked is the tree that is left. A refusal comes from
doubling past the limit, or from its half on: with no hole left
(the search index says where holes may be) the groups in use fill the capacity, hence
`ArenaGrowsLast`. TLC checked the invariant on the instance of `handle_memory` first.

Assumptions: `NULL` is no number and no text, and no set of nodes is `NULL`
(`TreeAssumption`: the tree that is not loaded is told from an empty one); a message has an
identifier; the first capacity is within the limit. The theorems are about the `Spec` of
`IdentifierSpelling`; `handle_memory` runs that machine beside `HandleClone`, one of them moving.

### UPDATE of several tables

For any statements, patches and bounds, under `StatementAssumption` and `PatchAssumption`:
words are strings, none of them is the value that stands for no alias, a clause in
parentheses is not empty, and nobody writes the call that stands for an ON.

The flags change with every patch and the statement is parsed again from its own answers,
so nothing can be said of `Restored` without saying how a statement lies in a tree at all.
`Kept(s, u, flags)` does: whichever table the tree updates, the other one heads FROM; the
marker of the join says its kind from there (`Invert`, `Marker`), with the flag `INNER` for
the word that it cannot say; WHERE is the clause itself in a list, else the clause in
parentheses behind the marker; and an assignment is shown as it was written, or under the
visible name of a table whose name or alias it was written with. `JoinsInvariant` is that
`tree` and `shape` keep `sql` so, at any time.

- `ParseKeeps`: a parsed statement is kept. A qualifier is cut off only where all of them
  name one table (`SingleTarget`), so the target's name may take its place.
- `RestoredIs`: what is written back of a kept statement is a statement, with its joins,
  its assignments as shown, and its clause. `StatementsAreWrittenBack` follows.
- `ParsedAgain`: the answer, parsed, keeps the statement it was written for. The name shown
  may be another than the one written, but it is a name of the same table, and if the
  answer is cut again no other table has it.
- `InsertKeeps`, `DeleteKeeps`, `ReplaceKeeps` for patches of the assignments; `TurnKeeps`
  for the tables that go back to the order of the text, which is allowed for the one
  marker that means the same in both orders.
- `AddedToJoin`: of all terms that a patch may add to a join, restoring accepts one case, a
  group where there was no clause, and then it is the clause.

### DML results

For any documents, fragments, receivers, markers and bounds:

- `StateIsInvariant`: `Spec => []StateInvariant`;
- `SelectorsAgreeWithTheDeparse`: `Spec => []SelectorsReadWhatIsWritten`;
- `OutputIsWrittenBack`: `Spec => ImplementsOutputChannels`, the refinement of
  `OutputChannels`;
- `PairsStayWhole`: `Spec => []PairsAreWhole`;
- `GrownTiles`, `ShrunkTiles`, `MarkedTiles`: what the code does to the channels of a DML
  when a target is inserted, deleted or marked keeps them a division of the list, whatever
  the number of channels, of targets and of `$action` marks;
- `InsertionKeepsTargets`, `DeletionKeepsTargets`: a selector of any other target, moved by
  one if it follows in the same channel, reads after the patch what it read before.

The invariant is `DmlInvariant` (`FitIsInvariant`). Neither property is inductive: a patch that reached the
wrong node would break the list of a DML it does not name, so what must be known is where
every selector leads. `Fits` says it of SQL Server: each DML of the state is, by its ordinal
among those of its statement, the node of that number (`Placed`), of the same kind and name,
its list tiled by its channels (`Matches`), and no two nodes of a statement have one name
(`Named`). From the first it follows that counting nodes of a kind leads to that node, from
the second that looking for the name of the CTE leads to it too. `PairsInvariant` says it of
Oracle: pairs are Oracle's, its statements have one node each, and the second half of a list
with pairs is made of receivers.

The parse is most of the proof. The two passes over the SQL make the state in another order
than the walk makes the tree, so it is shown of `NestedPass` and `StatementPass` that the
DMLs of each statement come in the order of its nodes, whatever lies between them. What the
loops of the code count is stated with `Nth` over sets of numbers, and the lemmas on it
(`NthFacts`, `UpToInjective`) are those a count needs: the k-th exists and is the only one.

The refinement follows from `DmlInvariant` alone. The mapping is `Deparsed`, which the
invariant allows to be read node by node: the clause of a node is `TextOf` the one DML that
is placed there, or the plain list where there is none, and the running count of the deparse
(`Before`) equals the offsets (`BeforeFacts`). Then, step by step:

- a patch changes the clause of one node (`SqlServerDiffers`, `ListDiffers`) and in it one
  channel (`ReplacedText`, `InsertedText`, `DeletedText`, `ResunkText`: what is written for
  every other channel is what it was, though its offset has moved), and the new channel is
  one that `OutputChannels` allows (`ReplacedIsEdit` and those that follow it). A pair is
  put into the list in two places; `PairInserted` shows that its halves are then the targets
  and the receivers with one more each;
- a parse writes the text of the document (`ParseWrites`). Targets come back because a
  marker is none of the words it stands among (`TargetComesBack`), clauses because channels
  tile the joined list (`ClauseComesBack`), and no clause is lost because every DML that has
  one, and every INSERT with DMLs nested in it, is given a state by one pass or the other
  (`StateIsComplete`);
- a clone has the same state (`ClonedState`), and what ends a handle takes its text along.

The assumptions on the constants are that SQL has been scanned to the records of `Texts`
with no empty channel, that a document of Oracle or PostgreSQL has the clauses its SQL knows
(`SqlOf`: one RETURNING INTO and nothing nested, or one RETURNING to each DML), that `None`
is none of the values it stands beside, and that for every list there is a marker which its
words do not contain; the code makes one by counting up until that is so.

### What is only model-checked

- Liveness: `ApplyReturns`. The provers have no rule for fairness.
- `MySqlUpdateJoins`: `QualifiedAssignmentsReadBack`. It depends on the names in the
  statement: `b.x.c` in `UPDATE b JOIN x` is cut to `x.c` by its first word and means `x`
  when the statement becomes a multiple one, so for every set of names it is false, and the
  run shows it for statements whose qualifiers are plain.
- `MySqlSurface`, and `PatchBatch` with its refinement: tokens and records are selected and
  sorted by tests that are given as operators (`SelectSeq`, `SortSeq`). The provers cannot
  instantiate such parameters, and the library has no theorem on either.
- `MemoryTypeOK` and `DialectTypeOK` put the types of two components side by side for one
  run. Those of `IdentifierSpelling`, `HandleClone` and `MySqlUpdateJoins` are proved
  (`SpellingTypes`, `CountsNeverPassTheArrays`, `JoinsTypeIsInvariant`), that of `MySqlSurface` is not.
- `QueryGraph`: no proof has been begun. Its properties compare the graph a walk builds with
  the scoping of the whole statement, and need lemmas on the walk first.

## 14. Findings

Each was reproduced with a build of the library; inputs are in `PROJECT.json`.

- `handle_rebuilds`: a patch of a multi-table INSERT that cannot be deferred is made in
  the side state and the SQL rebuilt at once. The rebuild marks the handle's source
  complete (core.c:6018) while the list goes on without it. The next such patch is
  rebuilt from a copy of the old text (oracle.c:9762, core.c:6130) and disappears, and
  apply reports success.
- `identifier_renames`: a relation brought by a fragment and renamed by value in the
  same list keeps the location of the fragment's spelling, so deparse writes the old name
  (deparse_spelling.c:2520), or fails when the new value has a schema.
- `query_renames`: a derived table is registered before its own query is walked
  (view.c:19675) and a CTE is walked at its first reference, so a rename of the outer `t`
  in `SELECT t.a FROM t WHERE EXISTS (SELECT 1 FROM (SELECT t.c) t)` leaves `t.c`
  behind, and one of `s.t` may take along a column of another `t`.

- `mysql_conditions`: the WHERE clause of an UPDATE with a join is `join_on(..) AND (w)` in
  the tree, and restoring it takes the text behind the first AND for the one group
  (mysql.c:12646). A condition appended without parentheses, a second one, or one with OR
  fails with INTERNAL_ERROR and destroys the handle.

Also seen while modelling, without a run of their own:

- MySQL: an unqualified assignment of an UPDATE with a join is given to the table that was
  chosen for the others, or to none, as the flags remember; a parse of the answer may say
  otherwise, and after a patch of WHERE the handle itself does. `UPDATE a JOIN b ON .. SET
  q=1`, `b.t=1` inserted and `(a.w=9)` appended moves `q` from `a` to `b`.
  `AnswersReadBackTheSame` of `MySqlUpdateJoins` says otherwise and TLC refutes it in
  `MCMySqlDialect`. Some answers the parser refuses: a self-join with an assignment whose
  qualifier is the name behind the other side's alias, or `s.b.q = 5`.

- `max_output_bytes` is compared with the length after each edit in source order
  (surface.c:1370): an insertion before a deletion may exceed it although the SQL does
  not (`src/doc/api_reference.en.md`:275 speaks of the generated SQL).
- A renamed relation without a schema is removed: the record of its empty schema is
  rebound to the empty schema of another relation, because both are one shared string
  (core.c:994); renaming that relation again stops with "relation identifier provenance is
  inconsistent". `Admitted` of `IdentifierMutations` can bring it back.
- When a relation has its first name again all its records are dropped
  (ast_statement.c:2620), also the spelling a fragment has just given.
- MySQL: a FROM that introduces no table is counted in the text and not in the tree.
  After any patch of the tree `SELECT EXTRACT(YEAR FROM d) FROM t USE INDEX (i)` fails with
  "MySQL surface AST owner is missing", and replacing the target of
  `SELECT a FROM t USE INDEX (i)` by `a IS DISTINCT FROM (SELECT b FROM u ORDER BY c LIMIT 1)`
  writes the hint after `u` (mysql.c:11884).
- `WITH u AS (UPDATE t SET a = u.a FROM u RETURNING t.a) SELECT * FROM u` has no graph:
  "recursive CTE block is not registered" (view.c:17246), as a data-modifying CTE gets its
  block only when it is built, and a CTE that is not recursive finds itself.

## 15. What is not modelled

Of the modelled parts: the envelope of comments around a statement; limits other than the
output length; what an operation does to the tree (one new version in `HandleLifecycle`,
one exchange of nodes in `IdentifierMutations`, one given text in `PatchBatch`);
`relation[0]` of a multi-table INSERT; Dameng's multi-table INSERT apart from Oracle's (it
has no certificate). In `IdentifierMutations` steps do not fail, since a failure destroys
the handle, which `HandleLifecycle` covers; catalogs are treated like schemas and left
out, as are assignment qualifiers, names the source encodes and bulk renames.
`HandleLifecycle` knows nothing of spelling, so its promise says nothing about names.
`PatchBatch` leaves out statement lists, positional binds, limits, and comments, spaces
and commas of the text. `MySqlSurface` leaves out the rewriting of tokens itself, texts
whose order differs from the tree's (joins of an UPDATE) and the numbering of positional
parameters. `MySqlUpdateJoins` leaves out the conditions of joins, parameters, ORDER BY and
LIMIT (refused), tables that are queries, and the tails of DELETE with joins. `QueryGraph` leaves out targets, values, predicates,
assignments, USING columns, qualifiers of several parts, ON CONFLICT, MERGE and the
target rules of SQL Server; a DELETE is walked like the UPDATE it models, and a rename
gives a name the statement does not use.

`DmlResults` leaves out the rewriting of DELETE aliases and TOP, the rules for `inserted.` and
`deleted.` columns and for aggregates, the spelling of RETURN and RETURNING, failing
allocations, SQL Server statements inside control-flow units (whose statement numbers are
those of the unit), patches of other kinds that add or remove DML nodes, Dameng's RETURNING
INTO (as Oracle's) and Vastbase's RETURNING (as PostgreSQL's).

Not modelled yet: scanning of statements and gaps, rewriting of the other dialects,
selectors, control units, wire readers and writers, position maps and location
arithmetic (section 2). Not to be modelled: the tools (file input and printing), view
JSON (formatting), the vendored parser and deparser.
