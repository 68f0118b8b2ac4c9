-------------------------- MODULE MySqlUpdateJoins --------------------------
(***************************************************************************)
(* MySQL's UPDATE of several tables (sqlparser_dialect_mysql.c).  The tree *)
(* is PostgreSQL's and knows one table to update and a FROM list, so        *)
(* preprocessing writes                                                    *)
(*     UPDATE a LEFT JOIN b ON j SET b.x = 1 WHERE w                       *)
(* as                                                                      *)
(*     UPDATE b SET x = 1 FROM a WHERE right_join_on(j) AND (w)            *)
(* and remembers in a few flags how to write it back.  Which table comes   *)
(* first, whether the qualifiers of assignments are cut off, and to which  *)
(* table an assignment without one belongs, is decided from the text once; *)
(* patches then change the assignments of the tree, and every commit has   *)
(* to bring the flags up to date.                                          *)
(*                                                                         *)
(* A table is a record, an assignment the path that qualifies its column,  *)
(* a condition a name; the join conditions are left out.                   *)
(***************************************************************************)
EXTENDS Integers, FiniteSets, SequencesExt

CONSTANTS
  Statements,   \* texts to start from, see IsStatement
  Paths,        \* qualifiers of the assignments that patches bring
  Conditions,   \* terms that patches of the WHERE clause bring
  MaxSteps,     \* bound: patches over the life of the handle
  MaxSet,       \* bound: assignments of a statement
  None          \* no alias, no schema, no table

Kinds == {"join", "inner", "left", "right", "comma"}
Flags == {"REVERSED", "MULTI", "FALLBACK", "COMMA", "INNER"}

Name(n) == [name |-> n, alias |-> None, schema |-> None]

\* A WHERE clause: terms under one operator.  A term is a condition, a
\* parenthesised clause, or the call that stands for the ON of the first join.
NoWhere == [op |-> "and", terms |-> <<>>]
Condition(c) == [what |-> "condition", is |-> c]
Group(w) == [what |-> "group", is |-> w]
On(kind) == [what |-> "on", is |-> kind]
Where(t) == [op |-> "and", terms |-> <<t>>]

IsClause(w) ==
  /\ w.op \in {"and", "or"} /\ w.terms \in Seq(Range(w.terms))
  /\ \A i \in DOMAIN w.terms : w.terms[i].what # "on"

Table == [name : STRING \ {None}, alias : STRING \union {None}, schema : STRING \union {None}]
Path == Seq(STRING)
IsStatement(s) ==
  /\ DOMAIN s = {"kind", "first", "second", "tail", "set", "where"}
  /\ s.kind \in Kinds
  /\ s.first \in Table /\ s.second \in Table
  /\ s.tail \in Seq([by : {"join", ","}, table : Table])
  /\ s.set \in Seq(Path) /\ Len(s.set) \in 1..MaxSet
  /\ IsClause(s.where)

\* What a patch of the WHERE clause brings: a condition, or some in parentheses.
IsTerm(t) ==
  \/ t = Condition(t.is)
  \/ t = Group(t.is) /\ IsClause(t.is) /\ t.is.terms # <<>>

ASSUME StatementAssumption == \A s \in Statements : IsStatement(s)
ASSUME PatchAssumption == Paths \subseteq Path /\ \A t \in Conditions : IsTerm(t)
ASSUME BoundAssumption == {MaxSteps, MaxSet} \subseteq Nat

VARIABLES
  sql,     \* the statement as the program wrote and patched it
  tree,    \* the UPDATE of the tree: target, from, set, where
  shape,   \* the flags of the statement
  status,  \* "ok", or what the call reported that destroyed the handle
  steps    \* patches so far, for the bound

vars == <<sql, tree, shape, status, steps>>

-----------------------------------------------------------------------------
(* Preprocessing.                                                          *)

\* The text knows a table by its alias and by its name.
TextNames(t) == {t.alias, t.name} \ {None}
Side(path, s) ==
  IF path = <<>> THEN {}
  ELSE {k \in {1, 2} : path[1] \in TextNames(IF k = 1 THEN s.first ELSE s.second)}

Listed(s) == s.kind = "comma" \/ s.tail # <<>>
Sides(s) == UNION {Side(s.set[i], s) : i \in DOMAIN s.set}

\* "update join assignment target": of two tables, exactly one must be meant.
Admitted(s) ==
  Listed(s) \/ \A i \in DOMAIN s.set : s.set[i] # <<>> => Cardinality(Side(s.set[i], s)) = 1

Invert(kind) == CASE kind = "left" -> "right" [] kind = "right" -> "left" [] OTHER -> kind
Marker(kind) == IF kind = "inner" THEN "join" ELSE kind

\* Mutant: the swapped tables keep the direction of their join.
ParseUninverted(s) ==
  LET multi == Listed(s) \/ Sides(s) = {1, 2}
      reversed == ~multi /\ Sides(s) = {2}
      head == IF reversed THEN s.first ELSE s.second
      w == IF s.where = NoWhere THEN <<>> ELSE <<Group(s.where)>>
  IN [tree |-> [target |-> IF reversed THEN s.second ELSE s.first,
                from |-> <<[by |-> ",", table |-> head]>> \o s.tail,
                set |-> [i \in DOMAIN s.set |->
                          [path |-> IF multi \/ s.set[i] = <<>> THEN s.set[i] ELSE Tail(s.set[i]),
                           stripped |-> ~multi /\ s.set[i] # <<>>]],
                where |-> IF s.kind = "comma" THEN s.where
                          ELSE [op |-> "and", terms |-> <<On(Marker(s.kind))>> \o w]],
      shape |-> (IF multi THEN {"MULTI"} ELSE {}) \union (IF reversed THEN {"REVERSED"} ELSE {})
                  \union (IF s.kind = "comma" THEN {"COMMA"} ELSE {})
                  \union (IF s.kind = "inner" THEN {"INNER"} ELSE {})]

\* A single table to update comes first and loses its qualifiers; of several
\* the first comes first and the assignments stay as they are.
Parse(s) ==
  LET multi == Listed(s) \/ Sides(s) = {1, 2}
      reversed == ~multi /\ Sides(s) = {2}
      kind == IF reversed THEN Invert(s.kind) ELSE s.kind
      head == IF reversed THEN s.first ELSE s.second
      w == IF s.where = NoWhere THEN <<>> ELSE <<Group(s.where)>>
  IN [tree |-> [target |-> IF reversed THEN s.second ELSE s.first,
                from |-> <<[by |-> ",", table |-> head]>> \o s.tail,
                set |-> [i \in DOMAIN s.set |->
                          [path |-> IF multi \/ s.set[i] = <<>> THEN s.set[i] ELSE Tail(s.set[i]),
                           stripped |-> ~multi /\ s.set[i] # <<>>]],
                where |-> IF s.kind = "comma" THEN s.where
                          ELSE [op |-> "and", terms |-> <<On(Marker(kind))>> \o w]],
      shape |-> (IF multi THEN {"MULTI"} ELSE {}) \union (IF reversed THEN {"REVERSED"} ELSE {})
                  \union (IF s.kind = "comma" THEN {"COMMA"} ELSE {})
                  \union (IF s.kind = "inner" THEN {"INNER"} ELSE {})]

-----------------------------------------------------------------------------
(* Commits.                                                                *)

\* The tree knows an aliased table by its alias alone, another by any end of
\* its full name.
Matches(t, path) ==
  IF t.alias # None THEN path = <<t.alias>>
  ELSE path # <<>> /\ IsSuffix(path, IF t.schema = None THEN <<t.name>> ELSE <<t.schema, t.name>>)

Tables(u) == {u.target} \union {u.from[i].table : i \in DOMAIN u.from}

\* validate_update_shapes
Valid(u) ==
  \A i \in DOMAIN u.set :
    u.set[i].path # <<>> =>
      Cardinality({t \in Tables(u) : Matches(t, u.set[i].path)}) = 1

\* The side of an assignment of the tree, by the first word of its path: the
\* target, the only other table, or unknown.
Visible(t) == IF t.alias # None THEN t.alias ELSE t.name
TreeSide(u, path) ==
  IF path = <<>> \/ path[1] = Visible(u.target) THEN "target"
  ELSE IF Len(u.from) = 1 /\ path[1] = Visible(u.from[1].table) THEN "source"
  ELSE "unknown"

\* Mutant: assignments once cut short lose the table they fall back on.
ReconciledAnew(u, flags) ==
  LET bare == \E i \in DOMAIN u.set : u.set[i].path = <<>>
      wasMulti == "MULTI" \in flags
      multi == \/ "COMMA" \in flags \/ Len(u.from) # 1
               \/ \E i \in DOMAIN u.set : TreeSide(u, u.set[i].path) # "target"
               \/ bare /\ wasMulti /\ "FALLBACK" \notin flags
  IN (flags \ {"MULTI", "FALLBACK"})
       \union (IF multi THEN {"MULTI"} ELSE {})
       \union (IF multi /\ bare /\ ~wasMulti THEN {"FALLBACK"} ELSE {})

\* reconcile_update_shapes: a statement that now names a second table is a
\* multiple one.  Its unqualified assignments fall back on the target when
\* the statement was a single one before; written in a multiple statement
\* they belong to no table, and keep it multiple.
Reconciled(u, flags) ==
  LET bare == \E i \in DOMAIN u.set : u.set[i].path = <<>>
      wasMulti == "MULTI" \in flags
      multi == \/ "COMMA" \in flags \/ Len(u.from) # 1
               \/ \E i \in DOMAIN u.set : TreeSide(u, u.set[i].path) # "target"
               \/ bare /\ wasMulti /\ "FALLBACK" \notin flags
  IN (flags \ {"MULTI", "FALLBACK"})
       \union (IF multi THEN {"MULTI"} ELSE {})
       \union (IF multi /\ bare /\ ("FALLBACK" \in flags \/ ~wasMulti)
               THEN {"FALLBACK"} ELSE {})

-----------------------------------------------------------------------------
(* Writing the statement back.                                             *)

\* The text behind WHERE is cut at its first AND: a call for the ON, then
\* one parenthesised group and nothing else.
Wrapped(w) ==
  /\ w.terms # <<>> /\ w.terms[1].what = "on"
  /\ \/ Len(w.terms) = 1
     \/ w.op = "and" /\ Len(w.terms) = 2 /\ w.terms[2].what = "group"

CanRestore(u, flags) == "COMMA" \in flags \/ Wrapped(u.where)

\* A qualifier that was cut off is written again, as the target is called.
ShownPath(u, a) == IF a.stripped THEN <<Visible(u.target)>> \o a.path ELSE a.path

RestoredKind(u, flags) ==
  LET marker == u.where.terms[1].is
      kind == IF marker = "join" /\ "INNER" \in flags THEN "inner" ELSE marker
  IN IF "COMMA" \in flags THEN "comma"
     ELSE IF "REVERSED" \in flags THEN Invert(kind) ELSE kind

Restored(u, flags) ==
  [kind |-> RestoredKind(u, flags),
   first |-> IF "REVERSED" \in flags THEN u.from[1].table ELSE u.target,
   second |-> IF "REVERSED" \in flags THEN u.target ELSE u.from[1].table,
   tail |-> IF "REVERSED" \in flags THEN <<>> ELSE Tail(u.from),
   set |-> [i \in DOMAIN u.set |-> ShownPath(u, u.set[i])],
   where |-> IF "COMMA" \in flags THEN u.where
             ELSE IF Len(u.where.terms) = 1 THEN NoWhere ELSE u.where.terms[2].is]

-----------------------------------------------------------------------------
(* The view: the table of each assignment, and of the statement.           *)

AssignmentTable(u, flags, i) ==
  LET path == u.set[i].path
      matching == {t \in Tables(u) : Matches(t, path)}
  IN CASE "MULTI" \notin flags -> u.target
       [] "MULTI" \in flags /\ path = <<>> ->
            IF "FALLBACK" \in flags THEN u.target ELSE None
       [] OTHER -> IF Cardinality(matching) = 1 THEN CHOOSE t \in matching : TRUE ELSE None

TargetTable(u, flags) ==
  LET named == {AssignmentTable(u, flags, i) : i \in DOMAIN u.set}
  IN IF Cardinality(named) = 1 THEN CHOOSE t \in named : TRUE ELSE None

Reading(u, flags) ==
  [target |-> TargetTable(u, flags),
   set |-> [i \in DOMAIN u.set |-> AssignmentTable(u, flags, i)]]

-----------------------------------------------------------------------------
Init ==
  /\ sql \in {s \in Statements : Admitted(s)}
  /\ tree = Parse(sql).tree /\ shape = Parse(sql).shape
  /\ status = "ok" /\ steps = 0

\* The end of every patch that makes the tree u, of a statement that is
\* meant to read s.  A failure destroys the handle.
Commit(u, flags, s) ==
  /\ status' = IF Valid(u) THEN "ok" ELSE "UNSUPPORTED"
  /\ sql' = s /\ tree' = u /\ shape' = Reconciled(u, flags)
  /\ steps' = steps + 1

MayPatch == status = "ok" /\ steps < MaxSteps
Bare(path) == [path |-> path, stripped |-> FALSE]

InsertAssignment(i, path) ==
  /\ MayPatch /\ i \in 1..(Len(tree.set) + 1) /\ Len(tree.set) < MaxSet
  /\ Commit([tree EXCEPT !.set = InsertAt(@, i, Bare(path))], shape,
            [sql EXCEPT !.set = InsertAt(@, i, path)])

\* The last assignment is not deleted: "update SET list cannot be empty".
DeleteAssignment(i) ==
  /\ MayPatch /\ i \in DOMAIN tree.set /\ Len(tree.set) > 1
  /\ Commit([tree EXCEPT !.set = RemoveAt(@, i)], shape, [sql EXCEPT !.set = RemoveAt(@, i)])

\* The target was chosen for the only assignment, which loses its qualifier:
\* the tables go back to the order of the text, if the join lets them.
TurnsBack(path) ==
  "REVERSED" \in shape /\ "MULTI" \notin shape /\ path = <<>> /\ Len(tree.set) = 1
InnerMarked(w) ==
  /\ w.op = "and" \/ Len(w.terms) = 1
  /\ Cardinality({i \in DOMAIN w.terms : w.terms[i] = On("join")}) = 1

\* Mutant: the tables are swapped and the flag that says so stays.
ReplaceAssignmentStillReversed(i, path) ==
  /\ MayPatch /\ i \in DOMAIN tree.set
  /\ LET s == [sql EXCEPT !.set[i] = path]
         u == [tree EXCEPT !.set[i] = Bare(path)]
         turned == [u EXCEPT !.target = u.from[1].table, !.from[1].table = u.target]
     IN IF ~TurnsBack(path) THEN Commit(u, shape, s)
        ELSE IF InnerMarked(tree.where) THEN Commit(turned, shape, s)
        ELSE status' = "UNSUPPORTED" /\ UNCHANGED <<sql, tree, shape, steps>>

ReplaceAssignment(i, path) ==
  /\ MayPatch /\ i \in DOMAIN tree.set
  /\ LET s == [sql EXCEPT !.set[i] = path]
         u == [tree EXCEPT !.set[i] = Bare(path)]
         turned == [u EXCEPT !.target = u.from[1].table, !.from[1].table = u.target]
     IN IF ~TurnsBack(path) THEN Commit(u, shape, s)
        ELSE IF InnerMarked(tree.where) THEN Commit(turned, shape \ {"REVERSED"}, s)
        ELSE status' = "UNSUPPORTED" /\ UNCHANGED <<sql, tree, shape, steps>>

\* A condition goes behind the terms under the same operator, else beside
\* the whole clause.
Added(w, op, t) ==
  IF w.terms = <<>> THEN Where(t)
  ELSE IF Len(w.terms) = 1 \/ w.op = op THEN [op |-> op, terms |-> Append(w.terms, t)]
  ELSE [op |-> op, terms |-> <<Group(w), t>>]

\* A patch of the WHERE clause may bring parameters, so the handle is parsed
\* again from the statement it wrote: the tree of u is not kept.
CommitAndParse(u, s) ==
  LET flags == Reconciled(u, shape)
      restored == Valid(u) /\ CanRestore(u, flags)
      answer == Restored(u, flags)
  IN IF restored /\ Admitted(answer)
     THEN /\ sql' = s /\ tree' = Parse(answer).tree /\ shape' = Parse(answer).shape
          /\ steps' = steps + 1 /\ UNCHANGED status
     ELSE /\ status' = IF Valid(u) /\ ~restored THEN "INTERNAL_ERROR" ELSE "UNSUPPORTED"
          /\ UNCHANGED <<sql, tree, shape, steps>>

AppendCondition(op, t) ==
  /\ MayPatch
  /\ CommitAndParse([tree EXCEPT !.where = Added(@, op, t)],
                    [sql EXCEPT !.where = Added(@, op, t)])

ReplaceWhere(t) ==
  /\ MayPatch /\ tree.where # NoWhere
  /\ CommitAndParse([tree EXCEPT !.where = Where(t)], [sql EXCEPT !.where = Where(t)])

\* The program parses an answer: the text with the patches spliced in, or the
\* statement written back.
Reread ==
  /\ MayPatch /\ steps > 0
  /\ sql' \in {sql, Restored(tree, shape)} /\ Admitted(sql')
  /\ tree' = Parse(sql').tree /\ shape' = Parse(sql').shape
  /\ UNCHANGED <<status, steps>>

Next ==
  \/ \E i \in 1..(MaxSet + 1), path \in Paths : InsertAssignment(i, path) \/ ReplaceAssignment(i, path)
  \/ \E i \in 1..MaxSet : DeleteAssignment(i)
  \/ \E op \in {"and", "or"}, t \in Conditions : AppendCondition(op, t)
  \/ \E t \in Conditions : ReplaceWhere(t)
  \/ Reread

Spec == Init /\ [][Next]_vars

-----------------------------------------------------------------------------
\* What a statement has; the parser keeps no table twice.
TypeOK ==
  /\ IsStatement(sql)
  /\ DOMAIN tree = {"target", "from", "set", "where"}
  /\ tree.from # <<>> /\ Len(tree.set) \in 1..MaxSet
  /\ Tables(tree) = {sql.first, sql.second} \union {sql.tail[i].table : i \in DOMAIN sql.tail}
  /\ shape \subseteq Flags
  /\ ~({"REVERSED", "COMMA"} \subseteq shape)
  /\ "FALLBACK" \in shape => "MULTI" \in shape
  /\ status \in {"ok", "UNSUPPORTED", "INTERNAL_ERROR"}
  /\ steps \in 0..MaxSteps

\* Names of the table t by which an assignment may call it.
Names(t, path) == Matches(t, path) \/ path[1] \in TextNames(t)
TablesNamed(path) == {t \in Tables(tree) : Names(t, path)}

\* Two texts of an assignment call the same table; a clause written back may
\* have lost the parentheses around it.
SamePath(p, q) == p = q \/ (p # <<>> /\ q # <<>> /\ \E t \in Tables(tree) : Names(t, p) /\ Names(t, q))
SameClause(a, b) == a = b \/ (a.terms # <<>> /\ b = Where(Group(a)))
SameStatement(a, b) ==
  /\ a.kind = b.kind /\ a.first = b.first /\ a.second = b.second /\ a.tail = b.tail
  /\ DOMAIN a.set = DOMAIN b.set /\ \A i \in DOMAIN a.set : SamePath(a.set[i], b.set[i])
  /\ SameClause(a.where, b.where)

\* However the flags and the order of the tables have changed, the statement
\* written back is the one that was written and patched: its joins in their
\* order and direction, its assignments, its WHERE clause.
RestoreWritesTheStatement ==
  status = "ok" => SameStatement(Restored(tree, shape), sql)

\* Every assignment calls its table by the name the tree knows, and no other
\* table of the statement has that name.
PlainlyQualified(s) ==
  \A i \in DOMAIN s.set :
    /\ Len(s.set[i]) = 1
    /\ \E t \in Tables(tree) : TablesNamed(s.set[i]) = {t} /\ s.set[i] = <<Visible(t)>>

\* An assignment with a qualifier is attributed to the table it names or to
\* none, never to another, though its qualifier may have been cut off under a
\* target that was chosen for other assignments.  When all are plainly
\* qualified the answer can be parsed and is read as the handle reads it.
QualifiedAssignmentsReadBack ==
  status = "ok" =>
    /\ \A i \in DOMAIN sql.set :
         sql.set[i] # <<>> =>
           AssignmentTable(tree, shape, i) \in TablesNamed(sql.set[i]) \union {None}
    /\ PlainlyQualified(sql) =>
         LET answer == Restored(tree, shape)
         IN /\ Admitted(answer)
            /\ Reading(Parse(answer).tree, Parse(answer).shape) = Reading(tree, shape)

\* The same of every answer that can be parsed, unqualified assignments
\* included: refuted, README, "Findings".
AnswersReadBackTheSame ==
  (status = "ok" /\ Admitted(Restored(tree, shape))) =>
    LET again == Parse(Restored(tree, shape))
    IN Reading(again.tree, again.shape) = Reading(tree, shape)

\* No patch of a parsed statement ends in an internal error: refuted, README,
\* "Findings".
ConditionsTakeEffect == status # "INTERNAL_ERROR"
=============================================================================
