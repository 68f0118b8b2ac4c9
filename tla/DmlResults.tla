----------------------------- MODULE DmlResults -----------------------------
(***************************************************************************)
(* The results of data-modifying statements, as the handle keeps them.     *)
(*                                                                         *)
(* The parser's AST knows one RETURNING list per DML node.  SQL Server     *)
(* writes up to two OUTPUT channels, $action, sinks, and DMLs nested in    *)
(* FROM; its dialect rewrites them before the parse (a nested DML becomes  *)
(* a CTE with a generated name, the targets of both channels become one    *)
(* list, $action a marker column) and keeps beside the AST what is needed  *)
(* to write them back: sqlparser_sqlserver_output_state_t, here `dmls'.    *)
(* Oracle appends the receivers of RETURNING ... INTO to the list and      *)
(* keeps the number of pairs.  PostgreSQL keeps nothing.                   *)
(*                                                                         *)
(* A selector <<s, d, c>> finds its channel through the state and its node *)
(* by counting the nodes of that kind; the deparse finds the node by the   *)
(* name of the CTE and counts targets.  A target is a sequence of words.   *)
(***************************************************************************)
EXTENDS Integers, FiniteSets, Sequences, SequencesExt, FiniteSetsExt

CONSTANTS
    Documents,   \* the SQL that is parsed
    Fragments,   \* the targets of patches
    Receivers,   \* the columns and binds of patches
    Sinks,       \* the sinks of patches
    Binds,       \* the receivers that are colon binds
    Markers,     \* names of marker columns, in the order they are tried
    MaxDmls,     \* max_statement_count
    MaxTargets,  \* bound on the targets and receivers of a handle
    MaxColumns,  \* bound on a list of sink columns
    None         \* no sink, no name, no marker, no handle

\* Targets are sequences of words, a clause is the channels it writes.
Action == "$action"
Word == STRING \cup {Action}
Target == Seq(Word)
Into == "into"
Sink == STRING \cup {Into, None}
Clause == Seq([sink : Sink, columns : Seq(STRING), targets : Seq(Target)])
Dialects == {"sqlserver", "oracle", "postgresql"}
ASSUME NoneAssumption ==
    /\ None \notin STRING /\ None \notin Nat /\ None \notin Dialects
    /\ None \notin Clause /\ None \notin Seq(Seq(Clause))

Words(targets) == UNION {ToSet(targets[i]) : i \in DOMAIN targets}

\* There is a marker for every list that is parsed, as there always is one
\* for the counter of sqlparser_sqlserver_output_make_action_marker.
HasMarker(targets) == \E m \in DOMAIN Markers : Markers[m] \notin Words(targets)
IsWritten(clause) ==
    \A c \in DOMAIN clause : clause[c].targets # <<>> /\ HasMarker(clause[c].targets)
Texts == [kind : STRING, short : BOOLEAN, clause : Clause,
          inner : Seq([kind : STRING, clause : Clause])]

\* RETURNING of PostgreSQL, and RETURNING ... INTO of Oracle, which has one
\* DML to a statement.
PlainClause(clause) ==
    /\ Len(clause) <= 1
    /\ \A c \in DOMAIN clause : clause[c].sink = None /\ clause[c].columns = <<>>
IntoClause(clause) ==
    Len(clause) <= 1 /\ \A c \in DOMAIN clause : clause[c].sink = Into
SqlOf(name, top) ==
    /\ name = "oracle" => IntoClause(top.clause) /\ top.inner = <<>>
    /\ name = "postgresql" =>
           /\ PlainClause(top.clause)
           /\ \A j \in DOMAIN top.inner : PlainClause(top.inner[j].clause)
ASSUME DocumentsAssumption ==
    \A doc \in Documents :
        /\ doc.statements \in Seq(Texts)
        /\ \A s \in DOMAIN doc.statements :
               /\ SqlOf(doc.dialect, doc.statements[s])
               /\ IsWritten(doc.statements[s].clause)
               /\ \A j \in DOMAIN doc.statements[s].inner :
                      IsWritten(doc.statements[s].inner[j].clause)
ASSUME TextAssumption ==
    /\ Markers \in Seq(STRING) /\ Receivers \cup Binds \cup Sinks \subseteq STRING
    /\ Fragments \subseteq Target /\ \A t \in Fragments : HasMarker(<<t>>)
ASSUME BoundAssumption == MaxDmls \in Nat /\ MaxTargets \in Nat /\ MaxColumns \in Nat

VARIABLES
    dialect,     \* of the handle, None without one
    tree,        \* for each statement its DML nodes, in the order of a walk
    dmls,        \* SQL Server: the OUTPUT state
    pairs        \* Oracle: for each statement the pairs of RETURNING INTO

vars == <<dialect, tree, dmls, pairs>>

\* The k-th of a set of numbers, as the loops of the code count to it.
Nth(S, k) == CHOOSE n \in S : Cardinality({m \in S : m <= n}) = k
-----------------------------------------------------------------------------
(* Channels.                                                               *)

\* sqlparser_sqlserver_output_dml_add_channel: targets follow the previous
\* channel's.
AddChannel(channels, channel) ==
    LET offset == IF channels = <<>> THEN 0
                  ELSE channels[Len(channels)].offset + channels[Len(channels)].count
    IN Append(channels, [channel EXCEPT !.offset = offset])

\* sqlparser_sqlserver_output_clone adds every channel anew, of at most two.
ClonedChannels(channels) ==
    [b \in DOMAIN channels |->
        [channels[b] EXCEPT !.offset = IF b = 1 THEN 0 ELSE channels[1].count]]
Cloned(state) == [g \in DOMAIN state |->
                     [state[g] EXCEPT !.channels = ClonedChannels(@)]]

\* MUTANT of ActionsAfterInsert: the marks stay behind.
ActionsKept(actions, i) == actions

\* Where $action targets are after one was put at i, or taken from it.
ActionsAfterInsert(actions, i) ==
    [k \in {j \in DOMAIN actions : j < i} \cup {j + 1 : j \in {m \in DOMAIN actions : m >= i}} |->
        IF k < i THEN actions[k] ELSE actions[k - 1]]
ActionsAfterDelete(actions, i) ==
    [k \in {j \in DOMAIN actions : j < i} \cup {j - 1 : j \in {m \in DOMAIN actions : m > i}} |->
        IF k < i THEN actions[k] ELSE actions[k + 1]]

\* sqlparser_sqlserver_output_adjust_target_count
Resized(channel, actions, delta) ==
    [channel EXCEPT !.actions = actions, !.count = @ + delta]
\* MUTANT: the channels that follow keep their offset.
AdjustedAlone(channels, c, actions, delta) ==
    [channels EXCEPT ![c] = Resized(@, actions, delta)]
Adjusted(channels, c, actions, delta) ==
    [b \in DOMAIN channels |->
        CASE b < c -> channels[b]
          [] b = c -> Resized(channels[b], actions, delta)
          [] OTHER -> [channels[b] EXCEPT !.offset = @ + delta]]
Grown(channels, c, i) ==
    Adjusted(channels, c, ActionsAfterInsert(channels[c].actions, i), 1)
Shrunk(channels, c, i) ==
    Adjusted(channels, c, ActionsAfterDelete(channels[c].actions, i), -1)

\* sqlparser_sqlserver_output_channel_set_action
Marked(channels, c, i, marker) ==
    [channels EXCEPT ![c].actions =
        IF marker = None THEN [j \in DOMAIN @ \ {i} |-> @[j]]
        ELSE [j \in DOMAIN @ \cup {i} |-> IF j = i THEN marker ELSE @[j]]]

\* The channels share the list out among them, in order and completely.
Tiles(channels, n) ==
    /\ \A b \in DOMAIN channels :
           /\ channels[b].count > 0
           /\ channels[b].offset =
                  IF b = 1 THEN 0 ELSE channels[b - 1].offset + channels[b - 1].count
           /\ DOMAIN channels[b].actions \subseteq 1..channels[b].count
    /\ n = IF channels = <<>> THEN 0
           ELSE channels[Len(channels)].offset + channels[Len(channels)].count
-----------------------------------------------------------------------------
(* Parsing.                                                                *)

Swap(target, old, new) == [w \in DOMAIN target |-> IF target[w] = old THEN new ELSE target[w]]

\* sqlparser_sqlserver_output_make_action_marker: a name the text has not.
MarkerFor(targets) ==
    IF Action \in Words(targets)
    THEN Markers[Min({m \in DOMAIN Markers : Markers[m] \notin Words(targets)})]
    ELSE None

\* sqlparser_sqlserver_output_target_sql: the targets for the parser, and
\* which of them have $action.
ParserTargets(targets) ==
    [i \in DOMAIN targets |-> Swap(targets[i], Action, MarkerFor(targets))]
ActionsOf(targets) ==
    [i \in {j \in DOMAIN targets : Action \in ToSet(targets[j])} |-> MarkerFor(targets)]

\* sqlparser_sqlserver_output_process_clause: one channel or two.
NewChannel(written) ==
    [sink |-> written.sink, columns |-> written.columns, offset |-> 0,
     count |-> Len(written.targets), actions |-> ActionsOf(written.targets)]
Channels(clause) ==
    CASE Len(clause) = 0 -> <<>>
      [] Len(clause) = 1 -> AddChannel(<<>>, NewChannel(clause[1]))
      [] OTHER -> AddChannel(AddChannel(<<>>, NewChannel(clause[1])), NewChannel(clause[2]))

\* sqlparser_sqlserver_output_join_returning
Joined(clause) == FlattenSeq([c \in DOMAIN clause |-> ParserTargets(clause[c].targets)])

\* $action belongs to MERGE; a second channel only follows OUTPUT INTO.
ClauseOk(kind, clause) ==
    /\ \A c \in DOMAIN clause : Action \in Words(clause[c].targets) => kind = "merge"
    /\ Len(clause) <= 2
    /\ Len(clause) > 1 => clause[1].sink # None /\ clause[2].sink = None
StatementOk(top) ==
    /\ ClauseOk(top.kind, top.clause)
    /\ top.inner # <<>> => top.kind = "insert"
    /\ \A j \in DOMAIN top.inner :
           /\ ClauseOk(top.inner[j].kind, top.inner[j].clause)
           /\ Len(top.inner[j].clause) = 1 /\ top.inner[j].clause[1].sink = None

Node(kind, name, returning) == [kind |-> kind, name |-> name, returning |-> returning]
Dml(kind, s, name, channels) ==
    [kind |-> kind, statement |-> s, name |-> name, channels |-> channels]

\* sqlparser_sqlserver_output_nested_name: one sequence for all statements.
NameOf(statements, s, j) ==
    Cardinality(UNION {{r} \X DOMAIN statements[r].inner : r \in 1..s - 1}) + j

\* sqlparser_sqlserver_output_preprocess_nested: nested DMLs and the INSERTs
\* that read them, before any other.
NestedPass(statements) ==
    FlattenSeq([s \in DOMAIN statements |->
        LET top == statements[s]
        IN IF top.inner = <<>> THEN <<>>
           ELSE <<Dml(top.kind, s, None, <<>>)>>
                \o [j \in DOMAIN top.inner |->
                       Dml(top.inner[j].kind, s, NameOf(statements, s, j),
                           Channels(top.inner[j].clause))]])

\* sqlparser_sqlserver_output_process_statement: a statement that has OUTPUT,
\* TOP, no INTO or a second FROM fills the DML the first pass made, or adds one.
NeedsState(top) == top.clause # <<>> \/ top.short
StatementPass(statements, found) ==
    LET Filled == [g \in DOMAIN found |->
            IF found[g].name = None
            THEN [found[g] EXCEPT !.channels = Channels(statements[found[g].statement].clause)]
            ELSE found[g]]
        Added == {s \in DOMAIN statements :
                     NeedsState(statements[s]) /\ statements[s].inner = <<>>}
    IN Filled \o [n \in 1..Cardinality(Added) |->
            LET s == Nth(Added, n)
            IN Dml(statements[s].kind, s, None, Channels(statements[s].clause))]
OutputState(statements) == StatementPass(statements, NestedPass(statements))

\* The AST: SQL Server's nested DMLs are CTEs, their names in order.
SqlServerTree(statements) ==
    [s \in DOMAIN statements |->
        LET top == statements[s]
        IN <<Node(top.kind, None, Joined(top.clause))>>
           \o [j \in DOMAIN top.inner |->
                  Node(top.inner[j].kind, NameOf(statements, s, j), Joined(top.inner[j].clause))]]

PlainTargets(clause) == IF clause = <<>> THEN <<>> ELSE clause[1].targets
PostgresTree(statements) ==
    [s \in DOMAIN statements |->
        LET top == statements[s]
        IN <<Node(top.kind, None, PlainTargets(top.clause))>>
           \o [j \in DOMAIN top.inner |->
                  Node(top.inner[j].kind, None, PlainTargets(top.inner[j].clause))]]

\* sqlparser_dialect_returning_into_validate: INTO has a receiver for each.
PairsMatch(clause) ==
    clause # <<>> => Len(clause[1].columns) = Len(clause[1].targets)

\* The receivers of RETURNING ... INTO are appended to its targets.
Receiver(column) == <<column>>
WithReceivers(targets, columns) ==
    targets \o [i \in DOMAIN columns |-> Receiver(columns[i])]
OracleList(clause) ==
    IF clause = <<>> THEN <<>> ELSE WithReceivers(clause[1].targets, clause[1].columns)
OracleTree(statements) ==
    [s \in DOMAIN statements |->
        <<Node(statements[s].kind, None, OracleList(statements[s].clause))>>]

Live == dialect # None

Init == dialect = None /\ tree = <<>> /\ dmls = <<>> /\ pairs = <<>>

ParseSqlServer(doc) ==
    /\ doc.dialect = "sqlserver"
    /\ \A s \in DOMAIN doc.statements : StatementOk(doc.statements[s])
    /\ Len(OutputState(doc.statements)) <= MaxDmls
    /\ tree' = SqlServerTree(doc.statements)
    /\ dmls' = OutputState(doc.statements)
    /\ pairs' = [s \in DOMAIN doc.statements |-> 0]

ParseOracle(doc) ==
    /\ doc.dialect = "oracle"
    /\ \A s \in DOMAIN doc.statements : PairsMatch(doc.statements[s].clause)
    /\ tree' = OracleTree(doc.statements)
    /\ dmls' = <<>>
    /\ pairs' = [s \in DOMAIN doc.statements |-> Len(PlainTargets(doc.statements[s].clause))]

ParsePostgres(doc) ==
    /\ doc.dialect = "postgresql"
    /\ tree' = PostgresTree(doc.statements)
    /\ dmls' = <<>>
    /\ pairs' = [s \in DOMAIN doc.statements |-> 0]

Parse == /\ ~Live
         /\ \E doc \in Documents :
                /\ dialect' = doc.dialect
                /\ ParseSqlServer(doc) \/ ParseOracle(doc) \/ ParsePostgres(doc)
-----------------------------------------------------------------------------
(* What a selector finds.                                                  *)

\* sqlparser_dialect_dml_global_index: the DMLs of a statement, in order.
DmlsOf(s) == {g \in DOMAIN dmls : dmls[g].statement = s}
DmlAt(s, d) == Nth(DmlsOf(s), d)

\* sqlparser_dialect_dml_result_count
DmlCount(s) == CASE pairs[s] > 0 -> 1
                 [] dialect = "postgresql" -> Len(tree[s])
                 [] OTHER -> Cardinality(DmlsOf(s))

\* sqlparser_get_dml_result_message: SQL Server counts the earlier DMLs of
\* the kind and takes as many nodes of that kind.
\* MUTANT: earlier DMLs of the kind are not counted.
FirstOfKind(s, d) == 1
KindOrdinal(s, d) ==
    Cardinality({e \in 1..d : dmls[DmlAt(s, e)].kind = dmls[DmlAt(s, d)].kind})
NodeOf(s, d) ==
    IF dialect = "sqlserver"
    THEN Nth({k \in DOMAIN tree[s] : tree[s][k].kind = dmls[DmlAt(s, d)].kind},
             KindOrdinal(s, d))
    ELSE d

\* sqlparser_dialect_dml_result_channel_at: a client channel or pairs are made
\* up from the list.
ListOf(s, d) == tree[s][NodeOf(s, d)].returning
Unnamed(sink, columns, n) ==
    [sink |-> sink, columns |-> columns, offset |-> 0, count |-> n, actions |-> <<>>]
Second(list, n) == [i \in 1..n |-> list[n + i][1]]
ChannelsOf(s, d) ==
    CASE pairs[s] > 0 -> <<Unnamed(Into, Second(tree[s][1].returning, pairs[s]), pairs[s])>>
      [] dialect = "postgresql" -> IF tree[s][d].returning = <<>> THEN <<>>
                                   ELSE <<Unnamed(None, <<>>, Len(tree[s][d].returning))>>
      [] OTHER -> dmls[DmlAt(s, d)].channels

\* sqlparser_dml_result_get_channel
HasChannel(s, d, c) ==
    /\ s \in DOMAIN tree /\ d \in 1..DmlCount(s) /\ c \in DOMAIN ChannelsOf(s, d)
    /\ LET channel == ChannelsOf(s, d)[c]
       IN channel.offset + channel.count <= Len(ListOf(s, d))

\* sqlparser_dml_result_target_sql
Public(target, marker) == IF marker = None THEN target ELSE Swap(target, marker, Action)
MarkerAt(channel, i) == IF i \in DOMAIN channel.actions THEN channel.actions[i] ELSE None
TargetSql(s, d, c, i) ==
    LET channel == ChannelsOf(s, d)[c]
    IN Public(ListOf(s, d)[channel.offset + i], MarkerAt(channel, i))
-----------------------------------------------------------------------------
(* Patches.  A patch works in place: one that is refused ends the handle.  *)

\* sqlparser_dml_result_parse_target: what the fragment becomes.
KindOf(s, d) == tree[s][NodeOf(s, d)].kind
FragmentOk(s, d, t) ==
    Action \in ToSet(t) => dialect = "sqlserver" /\ KindOf(s, d) = "merge"
Parsed(t) == ParserTargets(<<t>>)[1]
Marker(t) == MarkerFor(<<t>>)

\* The bound on what insertions may add.
Room(n) ==
    n + FoldLeft(+, 0, [k \in DOMAIN FlattenSeq(tree) |-> Len(FlattenSeq(tree)[k].returning)])
        <= MaxTargets

SetList(s, d, list) == tree' = [tree EXCEPT ![s][NodeOf(s, d)].returning = list]
SetChannels(state, s, d, channels) ==
    dmls' = [state EXCEPT ![DmlAt(s, d)].channels = channels]

\* sqlparser_dml_result_set_target_sql
ReplaceTarget(s, d, c, i, t) ==
    /\ HasChannel(s, d, c) /\ i <= ChannelsOf(s, d)[c].count /\ FragmentOk(s, d, t)
    /\ SetList(s, d, [ListOf(s, d) EXCEPT ![ChannelsOf(s, d)[c].offset + i] = Parsed(t)])
    /\ IF dialect = "sqlserver"
       THEN SetChannels(dmls, s, d, Marked(ChannelsOf(s, d), c, i, Marker(t)))
       ELSE UNCHANGED dmls
    /\ UNCHANGED <<dialect, pairs>>

\* sqlparser_dml_result_insert_target_sql: any index past the end is the end;
\* pairs grow in pairs only.
InsertTarget(s, d, c, index, t) ==
    /\ HasChannel(s, d, c) /\ FragmentOk(s, d, t)
    /\ pairs[s] = 0
    /\ Room(1)
    /\ LET channel == ChannelsOf(s, d)[c]
           i == IF index > channel.count THEN channel.count + 1 ELSE index
       IN /\ SetList(s, d, InsertAt(ListOf(s, d), channel.offset + i, Parsed(t)))
          /\ IF dialect = "sqlserver"
             THEN SetChannels(dmls, s, d,
                              Marked(Grown(ChannelsOf(s, d), c, i), c, i, Marker(t)))
             ELSE UNCHANGED dmls
    /\ UNCHANGED <<dialect, pairs>>

\* sqlparser_dml_result_insert_target_receiver_sql on pairs: the receiver
\* follows the target at the distance of one more pair.
InsertPair(s, d, c, i, t, bind) ==
    /\ HasChannel(s, d, c) /\ i <= ChannelsOf(s, d)[c].count + 1 /\ FragmentOk(s, d, t)
    /\ pairs[s] > 0 /\ 2 * pairs[s] <= Len(ListOf(s, d))
    /\ bind \in Binds /\ ToSet(t) \cap Binds = {}
    /\ Room(2)
    /\ SetList(s, d, InsertAt(InsertAt(ListOf(s, d), i, t),
                              pairs[s] + i + 1, Receiver(bind)))
    /\ pairs' = [pairs EXCEPT ![s] = @ + 1]
    /\ UNCHANGED <<dialect, dmls>>

\* sqlparser_sqlserver_output_validate_identifier
IsColumn(column) == column \notin Binds

\* The same on an OUTPUT INTO with a column for each target.
InsertTargetSinkColumn(s, d, c, i, t, column) ==
    /\ dialect = "sqlserver" /\ IsColumn(column)
    /\ HasChannel(s, d, c) /\ FragmentOk(s, d, t)
    /\ LET channel == ChannelsOf(s, d)[c]
       IN /\ channel.sink # None /\ channel.columns # <<>>
          /\ Len(channel.columns) = channel.count
          /\ i <= channel.count + 1
          /\ Room(1) /\ Len(channel.columns) < MaxColumns
          /\ SetList(s, d, InsertAt(ListOf(s, d), channel.offset + i, Parsed(t)))
          /\ LET widened == [ChannelsOf(s, d) EXCEPT ![c].columns = InsertAt(@, i, column)]
             IN SetChannels(dmls, s, d, Marked(Grown(widened, c, i), c, i, Marker(t)))
    /\ UNCHANGED <<dialect, pairs>>

\* sqlparser_dml_result_delete_target, on a clone of the state.
DeleteTarget(s, d, c, i) ==
    /\ HasChannel(s, d, c) /\ i <= ChannelsOf(s, d)[c].count
    /\ pairs[s] = 0
    /\ SetList(s, d, RemoveAt(ListOf(s, d), ChannelsOf(s, d)[c].offset + i))
    /\ IF dialect = "sqlserver"
       THEN /\ ChannelsOf(s, d)[c].count # 1
            /\ SetChannels(Cloned(dmls), s, d, Shrunk(Cloned(dmls)[DmlAt(s, d)].channels, c, i))
       ELSE UNCHANGED dmls
    /\ UNCHANGED <<dialect, pairs>>

\* sqlparser_dml_result_mutate_sink
ChangeSink(s, d, c, channel) ==
    /\ SetChannels(dmls, s, d, [ChannelsOf(s, d) EXCEPT ![c] = channel])
    /\ UNCHANGED <<dialect, tree, pairs>>
HasSink(s, d, c) ==
    /\ dialect = "sqlserver" /\ s \in DOMAIN tree /\ d \in 1..DmlCount(s)
    /\ c \in DOMAIN ChannelsOf(s, d) /\ ChannelsOf(s, d)[c].sink # None

SetSink(s, d, c, sink) ==
    /\ HasSink(s, d, c)
    /\ ChangeSink(s, d, c, [ChannelsOf(s, d)[c] EXCEPT !.sink = sink])

SetSinkColumn(s, d, c, i, column) ==
    /\ HasSink(s, d, c) /\ IsColumn(column) /\ i <= Len(ChannelsOf(s, d)[c].columns)
    /\ ChangeSink(s, d, c, [ChannelsOf(s, d)[c] EXCEPT !.columns[i] = column])

InsertSinkColumn(s, d, c, index, column) ==
    /\ HasSink(s, d, c) /\ IsColumn(column) /\ Len(ChannelsOf(s, d)[c].columns) < MaxColumns
    /\ LET n == Len(ChannelsOf(s, d)[c].columns)
           i == IF index > n THEN n + 1 ELSE index
       IN ChangeSink(s, d, c, [ChannelsOf(s, d)[c] EXCEPT !.columns = InsertAt(@, i, column)])

DeleteSinkColumn(s, d, c, i) ==
    /\ HasSink(s, d, c) /\ i <= Len(ChannelsOf(s, d)[c].columns)
    /\ ChangeSink(s, d, c, [ChannelsOf(s, d)[c] EXCEPT !.columns = RemoveAt(@, i)])

\* Every selector of the handle, and indices that reach past every end.
Selectors == UNION {{<<s, d, c>> : d \in 1..DmlCount(s), c \in 1..2} : s \in DOMAIN tree}
Indices == 1..MaxTargets + 1

Patch ==
    \E p \in Selectors, i \in Indices :
        \/ DeleteTarget(p[1], p[2], p[3], i)
        \/ DeleteSinkColumn(p[1], p[2], p[3], i)
        \/ \E t \in Fragments :
               \/ ReplaceTarget(p[1], p[2], p[3], i, t)
               \/ InsertTarget(p[1], p[2], p[3], i, t)
               \/ \E r \in Receivers : \/ InsertPair(p[1], p[2], p[3], i, t, r)
                                       \/ InsertTargetSinkColumn(p[1], p[2], p[3], i, t, r)
        \/ \E r \in Receivers : \/ SetSinkColumn(p[1], p[2], p[3], i, r)
                                \/ InsertSinkColumn(p[1], p[2], p[3], i, r)
        \/ i = 1 /\ \E sink \in Sinks : SetSink(p[1], p[2], p[3], sink)

\* sqlparser_clone, and the original destroyed.
Clone == /\ Live /\ dialect = "sqlserver"
         /\ dmls' = Cloned(dmls)
         /\ UNCHANGED <<dialect, tree, pairs>>

\* sqlparser_destroy, and every patch that is refused.
Destroy == Live /\ dialect' = None /\ tree' = <<>> /\ dmls' = <<>> /\ pairs' = <<>>

Next == Parse \/ (Live /\ Patch) \/ Clone \/ Destroy

Spec == Init /\ [][Next]_vars
-----------------------------------------------------------------------------
(* Writing the SQL.                                                        *)

PublicChannel(sink, columns, targets) ==
    [sink |-> sink, columns |-> columns, targets |-> targets]

\* sqlparser_sqlserver_output_build_public_clause: the next targets of the
\* list go to the next channel.
Before(channels, c) ==
    LET taken[b \in 0..Len(channels)] == IF b = 0 THEN 0 ELSE taken[b - 1] + channels[b].count
    IN taken[c - 1]
PublicClause(channels, list) ==
    [c \in DOMAIN channels |->
        PublicChannel(channels[c].sink, channels[c].columns,
            [i \in 1..channels[c].count |->
                Public(list[Before(channels, c) + i], MarkerAt(channels[c], i))])]

\* An internal error of the deparse.
Mismatch == None

\* sqlparser_sqlserver_output_postprocess_dml: the state says how many targets
\* there are; without channels nothing of the list is taken.
SqlServerClause(dml, list) ==
    IF dml.channels # <<>> /\ Len(list) # Before(dml.channels, Len(dml.channels) + 1)
    THEN Mismatch
    ELSE PublicClause(dml.channels, list)

\* sqlparser_sqlserver_output_postprocess: a nested DML is the CTE of its name
\* in its statement, any other the statement itself.
StateOf(s, k) ==
    {g \in DOMAIN dmls : dmls[g].statement = s /\ dmls[g].name = tree[s][k].name}

\* sqlparser_returning_into_deparse_parts: as many binds as targets.
PairedClause(n, list) ==
    IF Len(list) # 2 * n THEN Mismatch
    ELSE <<PublicChannel(Into, Second(list, n), SubSeq(list, 1, n))>>

ClauseOf(s, k) ==
    LET list == tree[s][k].returning
    IN CASE dialect = "sqlserver" /\ StateOf(s, k) # {} ->
                SqlServerClause(dmls[Min(StateOf(s, k))], list)
         [] pairs[s] > 0 -> PairedClause(pairs[s], list)
         [] OTHER -> IF list = <<>> THEN <<>> ELSE <<PublicChannel(None, <<>>, list)>>

Deparsed ==
    IF Live THEN [s \in DOMAIN tree |-> [k \in DOMAIN tree[s] |-> ClauseOf(s, k)]] ELSE None
-----------------------------------------------------------------------------
(* Properties.                                                             *)

ChannelRecord(channel) ==
    /\ channel.count \in Nat /\ channel.offset \in Nat
    /\ \A i \in DOMAIN channel.actions : channel.actions[i] \in ToSet(Markers)

\* The list of RETURNING ... INTO has a receiver for each target.
PairsAreWhole ==
    \A s \in DOMAIN tree : pairs[s] > 0 => Len(tree[s][1].returning) = 2 * pairs[s]

\* Type correctness, and the invariant of sqlparser_sqlserver_output_state_t:
\* through every insertion and deletion (output_adjust_target_count) the
\* channels of a DML divide the RETURNING list of its AST node among them
\* completely and in order, $action marks stay within their channel, and the
\* list of RETURNING INTO stays twice as long as its pairs.
StateInvariant ==
    /\ dialect \in Dialects \cup {None}
    /\ \A g \in DOMAIN dmls : \A c \in DOMAIN dmls[g].channels : ChannelRecord(dmls[g].channels[c])
    /\ dialect = "sqlserver" =>
           \A s \in DOMAIN tree : \A d \in 1..DmlCount(s) :
               Tiles(ChannelsOf(s, d), Len(ListOf(s, d)))
    /\ PairsAreWhole

\* A selector reads what the deparse writes at its place: the state found by
\* statement and ordinal, and the node found by counting nodes of its kind, are
\* those the deparse joins by the name of the CTE; offset and index name the
\* target that running through the list reaches.
SelectorsReadWhatIsWritten ==
    \A s \in DOMAIN tree : \A d \in 1..DmlCount(s) :
        LET written == Deparsed[s][d]
        IN /\ written # Mismatch
           /\ Len(written) = Len(ChannelsOf(s, d))
           /\ \A c \in DOMAIN written :
                  /\ HasChannel(s, d, c)
                  /\ written[c].sink = ChannelsOf(s, d)[c].sink
                  /\ written[c].targets =
                         [i \in 1..ChannelsOf(s, d)[c].count |-> TargetSql(s, d, c, i)]

Written == INSTANCE OutputChannels WITH written <- Deparsed

\* The SQL that is written has the channels that were parsed, and every patch
\* changes the one channel it names and nothing else.
ImplementsOutputChannels == Written!Spec
=============================================================================
