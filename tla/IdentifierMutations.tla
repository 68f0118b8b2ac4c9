------------------------- MODULE IdentifierMutations -------------------------
(***************************************************************************)
(* Identifier mutations (sqlparser_ast_statement.c, sqlparser_core.c): for *)
(* every name a patch changed, the handle keeps a record of the text it    *)
(* had in the source and of the spelling it was given, which deparse needs *)
(* to write the one or the other.  A record names its string in the tree   *)
(* three times: by the address of the field, by the address of the string  *)
(* and by its ordinal in the statement.  Structural patches free nodes and *)
(* strings and shift ordinals, so each commit binds the records again.     *)
(*                                                                         *)
(* A failed step destroys the handle (HandleLifecycle), so steps succeed   *)
(* here, except for the error that reports records gone wrong.             *)
(***************************************************************************)
EXTENDS Integers, SequencesExt

CONSTANTS
  Sources,   \* trees a parse may yield
  Names,     \* texts of nonempty identifiers
  Schemas,   \* texts of schemas
  Backings,  \* subset of {"owned_postgresql", "owned", "legacy"}
  MaxStrings, \* bound: strings of the tree
  MaxSteps,  \* bound: patches over the life of the handle
  Admitted,  \* which of the Troubles a patch may run into
  NULL

\* Patches that the records cannot follow: a renamed relation is removed, a
\* relation that a fragment brought is renamed by value, the last change of a
\* relation is undone while a spelling given to a part of it stands.
Troubles == {"remove_renamed", "rename_introduced", "undo_spelled"}

NoText == ""

ASSUME NamesAssumption == NoText \notin Names \cup Schemas
ASSUME BackingAssumption == Backings \subseteq {"owned_postgresql", "owned", "legacy"}
ASSUME BoundAssumption == MaxStrings \in Nat /\ MaxSteps \in Nat
ASSUME TroubleAssumption == Admitted \subseteq Troubles

VARIABLES
  tree,     \* the identifier strings of a statement, in walking order
  records,  \* handle->identifier_mutations
  loaded,   \* is the AST unpacked?
  backing,  \* what owns the tree between lists
  status,   \* what the last patch returned
  steps     \* patches so far, for the bound

vars == <<tree, records, loaded, backing, status, steps>>

(***************************************************************************)
(* A string belongs to a node at address id: a RangeVar ("relation", with  *)
(* a schema and a name; the catalog is handled like the schema and left    *)
(* out), a String or ResTarget ("name"), or the String that qualifies a    *)
(* column with its relation ("qualifier").  The location of the node says  *)
(* where the spelling of an unchanged name is found: in the source, in the *)
(* spelling group of the fragment it came from, or in a quoting style.     *)
(*                                                                         *)
(* cell is the address of the string.  first is the text it came with and  *)
(* due the spelling the patches asked for: what deparse must write, never  *)
(* read by the code.                                                       *)
(***************************************************************************)
Kinds == {"relation", "name", "qualifier"}
Locations == {"source", "fragment", "style"}
Texts == Names \cup Schemas \cup {NoText}
Forms == {"source", "fragment", "default", "given"}
Spelling == [form : Forms, of : Texts]
String == [id : Nat, part : {1, 2}, kind : Kinds, location : Locations,
           cell : Nat, text : Texts, first : Texts, due : Spelling]
Record == [index : Nat \ {0}, group : Nat, slot : (Nat \X Nat) \cup {NULL},
           cell : Nat \cup {NULL}, original : Texts, present : BOOLEAN,
           spelling : Spelling \cup {NULL}]

ASSUME NullAssumption == NULL \notin Nat \cup (Nat \X Nat) \cup Spelling

-----------------------------------------------------------------------------
(* Strings and addresses.                                                  *)

\* Every empty string that came with the tree is this one, shared by all nodes.
EmptyCell == 0

Address(t, k) == <<t[k].id, t[k].part>>
Ids(t) == {t[k].id : k \in DOMAIN t}
Cells(t) == {t[k].cell : k \in DOMAIN t}

\* The allocator hands out the lowest free address: it reuses what was freed as
\* early as it can.
LowestFree(used) ==
  CHOOSE n \in 1..(Cardinality(used) + 1) \ used : \A m \in 1..(n - 1) : m \in used

Spell(form, text) == [form |-> form, of |-> text]

\* Where a name that no record changes is spelled.
OwnSpelling(location, text) ==
  Spell(IF location = "style" THEN "default" ELSE location, text)

NewString(id, part, kind, location, cell, text) ==
  [id |-> id, part |-> part, kind |-> kind, location |-> location, cell |-> cell,
   text |-> text, first |-> text, due |-> OwnSpelling(location, text)]

\* The strings of a parsed statement: a relation is its schema and its name, any
\* other node is one string, and all are found in the source.
IsParsed(t) ==
  /\ t \in Seq(String)
  /\ \A k \in DOMAIN t :
       /\ t[k] = NewString(t[k].id, t[k].part, t[k].kind, "source", t[k].cell, t[k].text)
       /\ t[k].part = 2 => k > 1 /\ t[k - 1].part = 1 /\ {t[k - 1].kind, t[k].kind} = {"relation"}
       /\ t[k].kind = "relation" /\ t[k].part = 1 => k < Len(t) /\ t[k + 1].part = 2
ASSUME SourcesAssumption == \A source \in Sources : IsParsed(source)

\* A tree unpacked from wire: new addresses, shared empty strings.
Unpacked(t) ==
  [k \in DOMAIN t |->
     [t[k] EXCEPT !.id = k + 1 - t[k].part,
                  !.cell = IF t[k].text = NoText THEN EmptyCell ELSE k]]

-----------------------------------------------------------------------------
(* The records.                                                            *)

Smallest(S) == CHOOSE n \in S : \A m \in S : n <= m

\* Where the string of a record is now, if anywhere: the field with that string
\* in it, else the first field with that string; by its ordinal after a reload.
FoundAt(t, r) ==
  LET named == {k \in DOMAIN t : t[k].cell = r.cell}
      exact == {k \in named : Address(t, k) = r.slot}
  IN  IF r.slot = NULL THEN {r.index} \cap DOMAIN t
      ELSE IF exact # {} THEN exact ELSE named

BoundTo(t, r, k) == [r EXCEPT !.index = k, !.slot = Address(t, k), !.cell = t[k].cell]

\* The records at the positions in S, in their order.
Selected(recs, S) ==
  LET kept[n \in 0..Len(recs)] ==
        IF n = 0 THEN <<>>
        ELSE IF n \in S THEN Append(kept[n - 1], recs[n]) ELSE kept[n - 1]
  IN  kept[Len(recs)]

Without(recs, gone) == Selected(recs, DOMAIN recs \ gone)

\* Mutant: records whose string is gone are kept.
RebindKeepsDead(t, recs) ==
  [j \in DOMAIN recs |->
     IF FoundAt(t, recs[j]) = {} THEN [recs[j] EXCEPT !.index = 0]
     ELSE BoundTo(t, recs[j], Smallest(FoundAt(t, recs[j])))]

\* sqlparser_handle_rebind_identifier_mutations
Rebind(t, recs) ==
  LET kept == Selected(recs, {j \in DOMAIN recs : FoundAt(t, recs[j]) # {}})
  IN  [j \in DOMAIN kept |-> BoundTo(t, kept[j], Smallest(FoundAt(t, kept[j])))]

NewRecord(t, k) ==
  [index |-> k, group |-> 0, slot |-> Address(t, k), cell |-> t[k].cell,
   original |-> t[k].text, present |-> t[k].text # NoText /\ t[k].location = "source",
   spelling |-> NULL]

RecordsOf(t, recs, k) ==
  {j \in DOMAIN recs : recs[j].slot = Address(t, k) \/ recs[j].index = k}

\* Mutant: records of unchanged strings are not found again.
PrepareAnew(t, recs, k) ==
  IF {j \in RecordsOf(t, recs, k) : recs[j].original # t[k].text} # {}
  THEN recs ELSE Append(recs, NewRecord(t, k))

\* sqlparser_handle_prepare_identifier_mutation
Prepare(t, recs, k) ==
  IF RecordsOf(t, recs, k) # {} THEN recs ELSE Append(recs, NewRecord(t, k))

RecordIndex(t, recs, k) == Smallest(RecordsOf(t, recs, k))

\* Mutant: the string of the record is not brought up to date.
RefreshedSlot(t, recs, j, k, spelling) ==
  [recs EXCEPT ![j].slot = Address(t, k), ![j].spelling = spelling]

\* The record at j after its string and spelling were replaced.
Refreshed(t, recs, j, k, spelling) ==
  [recs EXCEPT ![j].slot = Address(t, k), ![j].cell = t[k].cell, ![j].spelling = spelling]

-----------------------------------------------------------------------------
(* What deparse writes (sqlparser_deparse_spelling.c).                     *)

\* Records deparse uses: not of an empty string, nor of one that nothing changed.
Tagged(t, recs) ==
  {j \in DOMAIN recs :
     LET text == t[recs[j].index].text
     IN  /\ text # NoText
         /\ recs[j].group # 0 \/ recs[j].spelling # NULL \/ text # recs[j].original}

\* Spellings of a fragment are stored by component, empty parts left out.
FragmentSpelling(t, k) ==
  LET before == {q \in 1..k : t[q].id = t[k].id}
      component == Cardinality({q \in before : t[q].text # NoText})
      stored == {q \in DOMAIN t : t[q].id = t[k].id /\ t[q].first # NoText}
  IN  IF component <= Cardinality(stored)
      THEN Spell("fragment",
             t[CHOOSE q \in stored :
                 Cardinality({p \in stored : p <= q}) = component].first)
      ELSE NULL

Written(t, recs, k) ==
  LET s == t[k]
      mine == {j \in Tagged(t, recs) : recs[j].index = k}
      r == recs[Smallest(mine)]
      own == IF s.location = "fragment" THEN FragmentSpelling(t, k)
             ELSE IF s.text = s.first THEN OwnSpelling(s.location, s.text)
             ELSE Spell("default", s.text)
  IN  IF mine = {} THEN own
      ELSE IF r.spelling # NULL THEN r.spelling
      ELSE IF r.present /\ s.text = r.original THEN Spell("source", r.original)
      ELSE IF s.location # "fragment" THEN Spell("default", s.text)
      ELSE own

\* Two records on one string, a spelling that no group holds, or an original
\* that is not at its place in the source.
DeparseFails(t, recs) ==
  \/ \E j, k \in Tagged(t, recs) : j # k /\ recs[j].index = recs[k].index
  \/ \E k \in DOMAIN t : t[k].text # NoText /\ Written(t, recs, k) = NULL
  \/ \E j \in Tagged(t, recs) : recs[j].present /\ t[recs[j].index].first # recs[j].original

-----------------------------------------------------------------------------
(* Patches.                                                                *)

Init ==
  /\ \E source \in Sources : tree = Unpacked(source)
  /\ records = <<>>
  /\ loaded = TRUE
  /\ backing \in Backings
  /\ status = "ok"
  /\ steps = 0

Patching == loaded /\ status = "ok" /\ steps < MaxSteps

\* The string after a patch gave it text t.  Its spelling is due as given, as it
\* came, or as the dialect spells such a text by default.
Changed(s, text, cell, given) ==
  [s EXCEPT !.text = text, !.cell = cell,
            !.due = IF given THEN Spell("given", text)
                    ELSE IF text = s.first THEN OwnSpelling(s.location, text)
                    ELSE Spell("default", text)]

\* A scalar name keeps every address, so an owned PostgreSQL tree is not bound again.
CommitScalar(t, recs) == IF backing = "owned_postgresql" THEN recs ELSE Rebind(t, recs)

\* Mutant: the fragment's spelling is kept.
RetaggedNever(s, r, text, given) == s

\* A fragment's spelling of a String is given up for its quoting style.
Retagged(s, r, text, given) ==
  IF /\ s.text # text /\ ~given /\ ~r.present
     /\ s.kind # "relation" /\ s.location = "fragment"
  THEN [s EXCEPT !.location = "style"] ELSE s

GroupRestored(t, recs, group) ==
  \A j \in DOMAIN recs : recs[j].group = group => t[recs[j].index].text = recs[j].original

\* sqlparser_statement_set_name_spelling: one string gets a new text, by value or
\* with the spelling of an SQL fragment.
SetName(k, text, given) ==
  LET s == tree[k]
      prepared == Prepare(tree, records, k)
      at == RecordIndex(tree, prepared, k)
      r == prepared[at]
      spelling == IF given THEN Spell("given", text) ELSE NULL
      cell == IF s.text # text THEN LowestFree(Cells(tree)) ELSE s.cell
      written == [tree EXCEPT ![k] = Changed(Retagged(s, r, text, given), text, cell, given)]
      bound == CommitScalar(written, Refreshed(written, prepared, at, k, spelling))
      group == {j \in DOMAIN bound : r.group # 0 /\ bound[j].group = r.group}
      restored == GroupRestored(written, bound, r.group)
  IN  /\ Patching
      /\ s.text # NoText
      /\ s.text # text \/ (given /\ r.spelling # spelling)
      /\ ~given /\ s.kind = "relation" /\ s.location = "fragment"
           => "rename_introduced" \in Admitted
      /\ restored /\ (\E j \in group : bound[j].spelling # NULL)
           => "undo_spelled" \in Admitted
      /\ tree' = written
      /\ records' = IF ~given /\ r.group = 0 /\ r.original = text THEN Without(bound, {at})
                    ELSE IF restored THEN Without(bound, group) ELSE bound
      /\ steps' = steps + 1
      /\ UNCHANGED <<loaded, backing, status>>

\* Mutant: the next group is the last one.
GroupOfLast(recs, mine) ==
  LET groups == {recs[j].group : j \in mine} \ {0}
  IN  IF groups # {} THEN Smallest(groups)
      ELSE Max({1} \cup {recs[j].group : j \in DOMAIN recs})

\* The parts of a relation share one group of their own.
GroupOf(recs, mine) ==
  LET groups == {recs[j].group : j \in mine} \ {0}
  IN  IF groups # {} THEN Smallest(groups)
      ELSE 1 + Max({0} \cup {recs[j].group : j \in DOMAIN recs})

\* Mutant: the columns keep to the source.
OutputSpellingOfSource(t, recs, k) ==
  LET mine == {j \in DOMAIN recs : recs[j].slot = Address(t, k)}
  IN  IF mine # {} /\ recs[Smallest(mine)].original # t[k].text
      THEN Spell("default", t[k].text) ELSE OwnSpelling(t[k].location, t[k].text)

\* The spelling that the columns of a relation with name k are qualified with.
OutputSpelling(t, recs, k) ==
  LET mine == {j \in DOMAIN recs : recs[j].slot = Address(t, k)}
      r == recs[Smallest(mine)]
  IN  IF mine # {} /\ r.spelling # NULL THEN r.spelling
      ELSE IF mine # {} /\ r.original # t[k].text THEN Spell("default", t[k].text)
      ELSE OwnSpelling(t[k].location, t[k].text)

IsName(s) == s.kind = "relation" /\ s.part = 2

\* Columns qualified with the relation of name k, unless another one answers to it.
BoundQualifiers(t, k) ==
  {q \in DOMAIN t :
     /\ t[q].kind = "qualifier" /\ t[q].text = t[k].text
     /\ \A m \in DOMAIN t : IsName(t[m]) /\ t[m].text = t[k].text => m = k}

\* The qualifiers are new nodes, spelled as the relation is; the records of the
\* old ones go, the others are bound to the new tree first.
Requalify(t, recs, q, name, spelling) ==
  LET node == NewString(LowestFree(Ids(t)), 1, "qualifier", "style", LowestFree(Cells(t)), name.text)
      next == [t EXCEPT ![q] = [node EXCEPT !.due = name.due]]
      others == Without(recs, {j \in DOMAIN recs : recs[j].slot = Address(t, q)})
      prepared == Prepare(next, Rebind(next, others), q)
  IN  [tree |-> next,
       records |-> [prepared EXCEPT ![RecordIndex(next, prepared, q)].spelling = spelling]]

\* Node by node, in the order of the statement.
RequalifyAll(t, recs, columns, name, spelling) ==
  LET after[n \in 0..Len(t)] ==
        IF n = 0 THEN [tree |-> t, records |-> recs]
        ELSE IF n \in columns
             THEN Requalify(after[n - 1].tree, after[n - 1].records, n, name, spelling)
             ELSE after[n - 1]
  IN  after[Len(t)]

\* sqlparser_replace_relation_and_bound_qualifiers: schema (string k) and name of a
\* relation, by value or with the spellings of an SQL fragment.
SetRelation(k, values, given) ==
  LET spelled == [p \in 1..2 |-> given /\ values[p] # NoText]
      changed == {p \in 1..2 : tree[k + p - 1].text # values[p] \/ spelled[p]}
      prepared == Prepare(tree, Prepare(tree, records, k), k + 1)
      at == [p \in 1..2 |-> RecordIndex(tree, prepared, k + p - 1)]
      mine == {at[1], at[2]}
      group == GroupOf(prepared, mine)
      undone == \A p \in 1..2 : prepared[at[p]].original = values[p] /\ ~spelled[p]
      first == IF 1 \in changed THEN LowestFree(Cells(tree)) ELSE tree[k].cell
      second == IF 2 \in changed THEN LowestFree(Cells(tree) \cup {first}) ELSE tree[k + 1].cell
      written == [tree EXCEPT
        ![k] = IF 1 \in changed THEN Changed(@, values[1], first, spelled[1]) ELSE @,
        ![k + 1] = IF 2 \in changed THEN Changed(@, values[2], second, spelled[2]) ELSE @]
      replaced == [j \in DOMAIN prepared |->
        IF j \notin mine THEN prepared[j]
        ELSE LET p == IF j = at[1] THEN 1 ELSE 2
             IN  [BoundTo(written, prepared[j], k + p - 1) EXCEPT
                    !.index = prepared[j].index,
                    !.group = group,
                    !.spelling = IF p \notin changed THEN @
                                 ELSE IF spelled[p] THEN Spell("given", values[p]) ELSE NULL]]
      kept == IF undone THEN Without(replaced, mine) ELSE replaced
      spelling == OutputSpelling(written, kept, k + 1)
      requalified == RequalifyAll(written, kept, BoundQualifiers(tree, k + 1),
                                  written[k + 1], spelling)
  IN  /\ Patching
      /\ changed # {}
      /\ ~given /\ tree[k].location = "fragment" => "rename_introduced" \in Admitted
      /\ undone /\ (\E p \in {1, 2} \ changed : prepared[at[p]].spelling # NULL)
           => "undo_spelled" \in Admitted
      /\ IF Cardinality({prepared[j].group : j \in mine} \ {0}) > 1
         THEN status' = "internal_error" /\ UNCHANGED <<tree, records>>
         ELSE /\ tree' = requalified.tree
              /\ records' = Rebind(requalified.tree, requalified.records)
              /\ UNCHANGED status
      /\ steps' = steps + 1
      /\ UNCHANGED <<loaded, backing>>

\* The strings of a fragment: a name, or a relation without a schema.
Fragment(kind, name, id, cell) ==
  IF kind = "name" THEN <<NewString(id, 1, kind, "fragment", cell, name)>>
  ELSE <<NewString(id, 1, kind, "fragment", EmptyCell, NoText),
         NewString(id, 2, kind, "fragment", cell, name)>>

\* Mutant: the old nodes are freed before the fragment is built.
RestructureFreesFirst(lo, hi, kind, name) ==
  LET left == SubSeq(tree, 1, lo - 1) \o SubSeq(tree, hi + 1, Len(tree))
      fragment == IF kind = "none" THEN <<>>
                  ELSE Fragment(kind, name, LowestFree(Ids(left)), LowestFree(Cells(left)))
      next == SubSeq(left, 1, lo - 1) \o fragment \o SubSeq(left, lo, Len(left))
  IN  /\ Patching
      /\ hi >= lo \/ fragment # <<>>
      /\ Len(next) <= MaxStrings
      /\ \A j \in DOMAIN records : records[j].cell = EmptyCell => records[j].index \notin lo..hi
      /\ tree' = next
      /\ records' = Rebind(next, records)
      /\ steps' = steps + 1
      /\ UNCHANGED <<loaded, backing, status>>

\* Any other patch: the strings lo .. hi make way for those of a fragment, which
\* is built before they are freed.
Restructure(lo, hi, kind, name) ==
  LET fragment == IF kind = "none" THEN <<>>
                  ELSE Fragment(kind, name, LowestFree(Ids(tree)), LowestFree(Cells(tree)))
      next == SubSeq(tree, 1, lo - 1) \o fragment \o SubSeq(tree, hi + 1, Len(tree))
  IN  /\ Patching
      /\ hi >= lo \/ fragment # <<>>
      /\ Len(next) <= MaxStrings
      /\ (\E j \in DOMAIN records : records[j].cell = EmptyCell /\ records[j].index \in lo..hi)
           => "remove_renamed" \in Admitted
      /\ tree' = next
      /\ records' = Rebind(next, records)
      /\ steps' = steps + 1
      /\ UNCHANGED <<loaded, backing, status>>

-----------------------------------------------------------------------------
(* Between lists.                                                          *)

\* The end of a list drops the AST where the wire is the authority.
DiscardAstAdapter ==
  /\ loaded /\ status = "ok" /\ backing = "legacy"
  /\ loaded' = FALSE
  /\ records' = [j \in DOMAIN records |-> [records[j] EXCEPT !.slot = NULL, !.cell = NULL]]
  /\ UNCHANGED <<tree, backing, status, steps>>

EnsureAst ==
  /\ ~loaded
  /\ loaded' = TRUE
  /\ tree' = Unpacked(tree)
  /\ records' = Rebind(Unpacked(tree), records)
  /\ UNCHANGED <<backing, status, steps>>

\* A list with right-hand side expressions ends in a parse of what deparse writes.
Reparse ==
  /\ loaded /\ status = "ok"
  /\ IF DeparseFails(tree, records)
     THEN status' = "internal_error" /\ UNCHANGED <<tree, records>>
     ELSE /\ tree' = Unpacked([k \in DOMAIN tree |->
               NewString(0, tree[k].part, tree[k].kind, "source", 0,
                 IF tree[k].text = NoText THEN NoText ELSE Written(tree, records, k).of)])
          /\ records' = <<>>
          /\ UNCHANGED status
  /\ UNCHANGED <<loaded, backing, steps>>

\* Ranges of whole nodes; the target of the statement, the first one, stays.
NodeRanges ==
  {r \in (3..(Len(tree) + 1)) \X (2..Len(tree)) :
     /\ r[2] >= r[1] - 1
     /\ r[1] <= Len(tree) => tree[r[1]].part = 1
     /\ r[2] >= r[1] => r[2] = Len(tree) \/ tree[r[2] + 1].part = 1}

Next ==
  \/ \E k \in DOMAIN tree, given \in BOOLEAN :
       \/ \E text \in IF tree[k].kind = "relation" /\ tree[k].part = 1 THEN Schemas ELSE Names :
            SetName(k, text, given)
       \/ /\ tree[k].kind = "relation" /\ tree[k].part = 1
          /\ \E schema \in Schemas \cup {NoText}, name \in Names :
               SetRelation(k, <<schema, name>>, given)
  \/ \E r \in NodeRanges, kind \in {"none", "relation", "name"}, name \in Names :
       Restructure(r[1], r[2], kind, name)
  \/ DiscardAstAdapter \/ EnsureAst \/ Reparse

Spec == Init /\ [][Next]_vars

-----------------------------------------------------------------------------
(* Properties.                                                             *)

\* Trees and records of the handle hold values of their types.
TypeOK ==
  /\ tree \in Seq(String)
  /\ records \in Seq(Record)
  /\ loaded \in BOOLEAN /\ backing \in Backings
  /\ status \in {"ok", "internal_error"} /\ steps \in 0..MaxSteps

\* Between patches the three names of a record agree: its ordinal is that of a
\* string of the statement, its addresses are those of this field and of the
\* string in it now, so none dangles (sqlparser_handle_rebind_identifier_mutations,
\* and the scalar name commit that leaves the rebinding out).
RecordsAreBound ==
  \A j \in DOMAIN records :
    LET r == records[j]
    IN  /\ r.index \in DOMAIN tree
        /\ IF loaded THEN r = BoundTo(tree, r, r.index) ELSE r.slot = NULL /\ r.cell = NULL

\* Each record follows its own string: a string has one record, which names it
\* and holds the text the string came with.  Deparse looks that text up in the
\* source, also after nodes were freed, addresses were used again, ordinals
\* shifted and the tree was unpacked anew.
RecordsFollowTheirStrings ==
  /\ RecordsAreBound
  /\ \A j \in DOMAIN records :
       /\ \A i \in DOMAIN records : records[i].index = records[j].index => i = j
       /\ tree[records[j].index].first = records[j].original

GroupAt(k) ==
  LET mine == {j \in DOMAIN records : records[j].index = k}
  IN  IF mine = {} THEN 0 ELSE records[Smallest(mine)].group

\* The parts of a relation share one group or have none, and no two relations
\* share one: the next change of the relation would otherwise stop with
\* "relation identifier provenance is inconsistent", or undo the other relation.
\* No patch, and no rebuild at the end of a list, stops with that error.
RelationGroupsAgree ==
  /\ status # "internal_error"
  /\ \A k, m \in DOMAIN tree :
       LET sameNode == tree[k].id = tree[m].id
       IN  IF tree[k].kind # "relation" THEN GroupAt(k) = 0
           ELSE IF sameNode THEN GroupAt(k) = GroupAt(m)
           ELSE GroupAt(k) # 0 => GroupAt(k) # GroupAt(m)

\* Whenever a list might end, deparse accepts the records and what it writes for
\* each name is a spelling of the name the tree holds: no change of a name is lost.
NamesAreWrittenAsTheyStand ==
  loaded /\ status = "ok" =>
    /\ ~DeparseFails(tree, records)
    /\ \A k \in DOMAIN tree :
         tree[k].text # NoText => Written(tree, records, k).of = tree[k].text

\* Every name is written as it is due: as the SQL fragment of the last patch that
\* named it spelled it, as the source or the inserted fragment spells it if it has
\* its first text (again), else in the spelling the dialect gives such a text.
SpellingIsTheOneGiven ==
  loaded /\ status = "ok" /\ ~DeparseFails(tree, records) =>
    \A k \in DOMAIN tree :
      tree[k].text # NoText => Written(tree, records, k) = tree[k].due
=============================================================================
