----------------------------- MODULE QueryGraph -----------------------------
(***************************************************************************)
(* How sqlparser_view.c walks one statement to build its query graph: the  *)
(* blocks (SELECTs, set operations, DML statements and their results), the *)
(* relations of each block, the CTEs that are built when they are first    *)
(* referenced, and the relation each column reference belongs to.          *)
(*                                                                         *)
(* The walk is a stack machine.  `work' is what the recursion still has to *)
(* do, `scope' the chain of sqlparser_graph_scope_t, innermost first.  A   *)
(* block is named by its path from the root of the statement: <<"with", 2>>*)
(* is the query of the second CTE, <<"from", 1>> a derived table, <<"expr",*)
(* 1>> a subquery in an expression, <<"arm", 1>> a branch of a set, and    *)
(* <<"source", 1>> the SELECT of an INSERT.  The statement is any one of   *)
(* the given bodies at every place: the text of a block is chosen when the *)
(* walk reaches it, which nothing before could have read.                  *)
(*                                                                         *)
(* Beside the machine stands the scoping of SQL (Lexical, LexicalCte), by  *)
(* which the properties judge it.                                          *)
(***************************************************************************)
EXTENDS Integers, FiniteSets, Sequences, SequencesExt, Functions

CONSTANTS
    Names,        \* names of tables, CTEs and aliases, all in one spelling
    Bodies,       \* what a block may contain
    MaxParts,     \* CTEs, FROM items, subqueries and arms of a statement
    MaxReferences,\* column references of a statement
    None          \* no name, no block, no relation

VARIABLES
    query,        \* the statement: a body for each block the walk has opened
    work,         \* what is left of the walk
    scope,        \* blocks in scope, innermost first
    blocks,       \* the blocks of the graph, in order
    relations,    \* its relations, in order
    entry,        \* CTEs met so far: their block, and whether they are built
    owner,        \* the relation (or candidates) of every column reference
    failed        \* the build stopped with an error

vars == <<query, work, scope, blocks, relations, entry, owner, failed>>
-----------------------------------------------------------------------------
(* Statements.  A FROM item is a table (its schema written or not) or a    *)
(* derived table; `on' is "," or the qualifier of a column in the ON that  *)
(* joins it to what precedes it.  An expression is a column or a subquery. *)

Unqualified == "unqualified"
Comma == ","

IsTable(item) == item.what = "table"
IsField(e) == e.what = "field"

\* The name that qualifies the columns of an item: an alias hides the name.
NameOf(item) == IF item.alias # None THEN item.alias ELSE item.name

References(body) ==
    Cardinality({i \in DOMAIN body.from : body.from[i].on # Comma})
        + Cardinality({j \in DOMAIN body.exprs : IsField(body.exprs[j])})
Parts(body) ==
    Len(body.with) + Len(body.from)
        + Cardinality({j \in DOMAIN body.exprs : ~IsField(body.exprs[j])})
        + (CASE body.kind = "set" -> 2 [] body.kind = "insert" -> 1 [] OTHER -> 0)

Total(Of(_), q) == FoldFunction(+, 0, [b \in DOMAIN q |-> Of(q[b])])

Child(b, part, i) == Append(b, <<part, i>>)

Place(b) == IF b = <<>> THEN "top" ELSE Last(b)[1]

\* Items of one FROM share a name only if their schemas tell them apart.
NamesDiffer(from) ==
    \A i, j \in DOMAIN from :
        i < j /\ NameOf(from[i]) = NameOf(from[j]) =>
            /\ IsTable(from[i]) /\ from[i].alias = None
            /\ IsTable(from[j]) /\ from[j].alias = None
            /\ from[i].schema # from[j].schema

\* Data-modifying statements stand at the top or in its WITH.
ModifiesData(body) == body.kind \in {"update", "insert"}
MayModify(b) == Place(b) \in {"top", "with"} /\ Len(b) <= 1

\* The bodies of at most n parts and m references for such a place.
BodiesWithin ==
    [n \in 0..MaxParts, m \in 0..MaxReferences, modify \in BOOLEAN |->
        {body \in Bodies : /\ Parts(body) <= n
                           /\ References(body) <= m
                           /\ ModifiesData(body) => modify
                           /\ NamesDiffer(body.from)}]

\* A relation is an item of a FROM, or the target (item 0) of DML.
Item(q, r) == IF r[2] = 0 THEN q[r[1]].target ELSE q[r[1]].from[r[2]]
RelationsOf(q, b) ==
    {<<b, i>> : i \in DOMAIN q[b].from}
        \cup (IF q[b].target = None THEN {} ELSE {<<b, 0>>})

\* Places of column references: in an ON or in an expression of a block.
Sites(q) ==
    {<<b, "on", i>> : <<b, i>> \in {<<c, k>> \in UNION {RelationsOf(q, c) : c \in DOMAIN q} :
                                      k # 0 /\ q[c].from[k].on # Comma}}
        \cup UNION {{<<b, "expr", j>> : j \in {k \in DOMAIN q[b].exprs : IsField(q[b].exprs[k])}}
                       : b \in DOMAIN q}
Qualifier(q, s) == IF s[2] = "on" THEN q[s[1]].from[s[3]].on
                   ELSE q[s[1]].exprs[s[3]].qualifier

\* sqlparser_graph_relation_matches_column_ref_path, for one qualifier.
Matches(q, r, name) == name = NameOf(Item(q, r))
Named(q, rs, name) == IF name = Unqualified THEN rs ELSE {r \in rs : Matches(q, r, name)}
-----------------------------------------------------------------------------
(* What the walk does at each place.                                       *)

Task(do, b, n) == [do |-> do, at |-> b, n |-> n]
Each(do, b, s) == [i \in DOMAIN s |-> Task(do, b, i)]

\* sqlparser_graph_build_from_item: both sides of a join, then its ON.
FromTasks(b, body) ==
    FlattenSeq([i \in DOMAIN body.from |->
        <<Task("item", b, i)>> \o
        IF body.from[i].on = Comma THEN <<>> ELSE <<Task("on", b, i)>>])

\* The order in which the builder of each kind of block visits its parts;
\* CTEs nobody referenced come last (sqlparser_graph_ensure_ctes).
Ctes(b, body) == Each("ensure", b, body.with)
Leave(b) == <<Task("leave", b, 0)>>
Results(b, body) == IF body.returns THEN <<Task("result", b, 0)>> ELSE <<>>
Exprs(b, body) == Each("expr", b, body.exprs)

SelectTasks(b, body) ==
    FromTasks(b, body) \o Exprs(b, body) \o Ctes(b, body) \o Leave(b)
SetTasks(b, body) ==
    [i \in 1..2 |-> Task("open", Child(b, "arm", i), 0)]
        \o Exprs(b, body) \o Ctes(b, body) \o (IF body.with = <<>> THEN <<>> ELSE Leave(b))
UpdateTasks(b, body) ==
    FromTasks(b, body) \o Exprs(b, body) \o Ctes(b, body) \o Results(b, body) \o Leave(b)
InsertTasks(b, body) ==
    <<Task("open", Child(b, "source", 1), 0)>>
        \o Ctes(b, body) \o Exprs(b, body) \o Results(b, body) \o Leave(b)

TasksOf(b, body) ==
    CASE body.kind = "select" -> SelectTasks(b, body)
      [] body.kind = "set" -> SetTasks(b, body)
      [] body.kind = "update" -> UpdateTasks(b, body)
      [] body.kind = "insert" -> InsertTasks(b, body)

\* Mutant: a table of a schema is taken for the CTE of that name.
FindAnyCte(item) ==
    LET found == {k \in DOMAIN scope : item.name \in Range(query[scope[k]].with)}
    IN IF found = {} THEN None
       ELSE LET b == scope[CHOOSE k \in found : \A m \in found : k <= m]
            IN Child(b, "with", CHOOSE i \in DOMAIN query[b].with :
                                   query[b].with[i] = item.name)

\* sqlparser_graph_find_cte: the first WITH in scope that defines the name,
\* for a table without a schema.
FindCte(item) ==
    LET Defines(k) == \E i \in DOMAIN query[scope[k]].with :
                         query[scope[k]].with[i] = item.name
        found == {k \in DOMAIN scope : Defines(k)}
    IN IF item.schema \/ found = {} THEN None
       ELSE LET b == scope[CHOOSE k \in found : \A m \in found : k <= m]
            IN Child(b, "with", CHOOSE i \in DOMAIN query[b].with :
                                   query[b].with[i] = item.name)

\* Mutant: the outermost block with a relation of that name decides.
ResolveOutermost(name) ==
    LET Added(b) == {relations[i].at : i \in {j \in DOMAIN relations : relations[j].at[1] = b}}
        hits == [k \in DOMAIN scope |-> Named(query, Added(scope[k]), name)]
        found == {k \in DOMAIN scope : hits[k] # {}}
    IN IF found = {} THEN [one |-> None, among |-> {}]
       ELSE [one |-> CHOOSE r \in hits[CHOOSE k \in found : \A m \in found : k >= m] : TRUE,
             among |-> {}]

\* Mutant: the first relation that has the name, ambiguous or not.
ResolveFirst(name) ==
    LET hits == {i \in DOMAIN relations :
                    /\ relations[i].at[1] \in Range(scope)
                    /\ Named(query, {relations[i].at}, name) # {}}
    IN IF hits = {} THEN [one |-> None, among |-> {}]
       ELSE [one |-> relations[CHOOSE i \in hits : \A j \in hits :
                                   Len(relations[i].at[1]) >= Len(relations[j].at[1])].at,
             among |-> {}]

\* sqlparser_graph_resolve_relation: the innermost block in scope with a
\* relation (of that name) decides; only relations added so far count.
Resolve(name) ==
    LET Added(b) == {relations[i].at : i \in {j \in DOMAIN relations : relations[j].at[1] = b}}
        hits == [k \in DOMAIN scope |-> Named(query, Added(scope[k]), name)]
        found == {k \in DOMAIN scope : hits[k] # {}}
    IN IF found = {} THEN [one |-> None, among |-> {}]
       ELSE LET rs == hits[CHOOSE k \in found : \A m \in found : k <= m]
            IN IF Cardinality(rs) = 1 THEN [one |-> CHOOSE r \in rs : TRUE, among |-> {}]
               ELSE [one |-> None, among |-> rs]

\* Mutants: every SELECT is registered as a CTE; none is before it is built.
RegisteredAlways(b) ==
    [c \in DOMAIN entry \cup {b} |-> IF c = b THEN [block |-> b, built |-> FALSE] ELSE entry[c]]
NotRegistered(b) == entry

\* sqlparser_graph_register_cte_block: a SELECT of a CTE is known by its
\* block as soon as the block exists.
Registered(b) ==
    IF b \in DOMAIN entry THEN [entry EXCEPT ![b].block = b] ELSE entry

NewRelation(b, i, cte) == [at |-> <<b, i>>, cte |-> cte, source |-> None]
-----------------------------------------------------------------------------
Init ==
    /\ query = [b \in {} |-> None]
    /\ work = <<Task("open", <<>>, 0)>>
    /\ scope = <<>>
    /\ blocks = <<>>
    /\ relations = <<>>
    /\ entry = [b \in {} |-> None]
    /\ owner = [s \in {} |-> None]
    /\ failed = FALSE

Doing(do) == /\ ~failed /\ work # <<>> /\ Head(work).do = do
Here == Head(work)

\* sqlparser_graph_build_select (SELECT and set operations) and the builders
\* of DML: a block, its scope, its target, and then its parts.
OpenBlock ==
    /\ Doing("open")
    /\ \E n \in {MaxParts - Total(Parts, query)},
          m \in {MaxReferences - Total(References, query)} :
       \E body \in BodiesWithin[n, m, MayModify(Here.at)] :
       LET b == Here.at IN
       /\ query' = [c \in DOMAIN query \cup {b} |-> IF c = b THEN body ELSE query[c]]
       /\ blocks' = Append(blocks, b)
       /\ entry' = IF body.kind \in {"select", "set"} THEN Registered(b) ELSE entry
       /\ scope' = IF body.kind = "set" /\ body.with = <<>> THEN scope ELSE <<b>> \o scope
       /\ relations' = IF body.target = None THEN relations
                       ELSE Append(relations, NewRelation(b, 0, None))
       /\ work' = TasksOf(b, body) \o Tail(work)
       /\ UNCHANGED <<owner, failed>>

\* A table: a relation of the block, and the block of the CTE it names.
AddTable ==
    /\ Doing("item")
    /\ LET b == Here.at
           item == query[b].from[Here.n]
           cte == FindCte(item)
       IN /\ IsTable(item)
          /\ relations' = Append(relations, NewRelation(b, Here.n, cte))
          /\ work' = (IF cte = None THEN <<>>
                      ELSE <<Task("ensure", Front(cte), Last(cte)[2]),
                             Task("link", cte, Len(relations) + 1)>>) \o Tail(work)
    /\ UNCHANGED <<query, scope, blocks, entry, owner, failed>>

\* A derived table: its relation first, then its query.
AddDerived ==
    /\ Doing("item")
    /\ LET b == Here.at IN
       /\ ~IsTable(query[b].from[Here.n])
       /\ relations' = Append(relations, NewRelation(b, Here.n, None))
       /\ work' = <<Task("open", Child(b, "from", Here.n), 0),
                    Task("link", Child(b, "from", Here.n), Len(relations) + 1)>> \o Tail(work)
    /\ UNCHANGED <<query, scope, blocks, entry, owner, failed>>

\* Mutant: a CTE with RETURNING is read as the statement, not its result.
LinkStatement ==
    /\ Doing("link")
    /\ relations' = [relations EXCEPT ![Here.n].source = Here.at]
    /\ work' = Tail(work)
    /\ UNCHANGED <<query, scope, blocks, entry, owner, failed>>

\* The block a relation reads: of a derived table, or of a CTE if it has one.
LinkSource ==
    /\ Doing("link")
    /\ relations' = [relations EXCEPT ![Here.n].source =
          IF Here.at \in DOMAIN entry THEN entry[Here.at].block ELSE Here.at]
    /\ work' = Tail(work)
    /\ UNCHANGED <<query, scope, blocks, entry, owner, failed>>

\* sqlparser_graph_ensure_cte_block: a CTE that has a block, or was built
\* and has none, is not built again.
ShareCte ==
    /\ Doing("ensure")
    /\ LET c == Child(Here.at, "with", Here.n) IN
       /\ c \in DOMAIN entry
       /\ entry[c].block # None \/ entry[c].built
    /\ work' = Tail(work)
    /\ UNCHANGED <<query, scope, blocks, relations, entry, owner, failed>>

\* The first reference builds it, in the scope of that reference.
BuildCte ==
    /\ Doing("ensure")
    /\ LET c == Child(Here.at, "with", Here.n) IN
       /\ c \notin DOMAIN entry
       /\ entry' = [d \in DOMAIN entry \cup {c} |->
                       IF d = c THEN [block |-> None, built |-> FALSE] ELSE entry[d]]
       /\ work' = <<Task("open", c, 0), Task("built", c, 0)>> \o Tail(work)
    /\ UNCHANGED <<query, scope, blocks, relations, owner, failed>>

\* A data-modifying CTE has no block yet while its own query is walked.
CteIsNotRegistered ==
    /\ Doing("ensure")
    /\ LET c == Child(Here.at, "with", Here.n) IN
       c \in DOMAIN entry /\ entry[c].block = None /\ ~entry[c].built
    /\ failed' = TRUE
    /\ UNCHANGED <<query, work, scope, blocks, relations, entry, owner>>

FinishCte ==
    /\ Doing("built")
    /\ LET c == Here.at
           result == Child(c, "result", 1)
       IN entry' = [entry EXCEPT ![c] =
             [block |-> IF query[c].returns THEN result ELSE @.block, built |-> TRUE]]
    /\ work' = Tail(work)
    /\ UNCHANGED <<query, scope, blocks, relations, owner, failed>>

\* sqlparser_graph_build_dml_results: RETURNING is a block of its own.
AddResult ==
    /\ Doing("result")
    /\ blocks' = Append(blocks, Child(Here.at, "result", 1))
    /\ work' = Tail(work)
    /\ UNCHANGED <<query, scope, relations, entry, owner, failed>>

\* sqlparser_graph_walk_expr: a column reference finds its relation now.
ResolveField ==
    /\ Doing("on") \/ (Doing("expr") /\ IsField(query[Here.at].exprs[Here.n]))
    /\ LET s == <<Here.at, Here.do, Here.n>> IN
       \E found \in {Resolve(Qualifier(query, s))} :
          owner' = [t \in DOMAIN owner \cup {s} |-> IF t = s THEN found ELSE owner[t]]
    /\ work' = Tail(work)
    /\ UNCHANGED <<query, scope, blocks, relations, entry, failed>>

\* sqlparser_graph_build_sublink
EnterSubquery ==
    /\ Doing("expr")
    /\ ~IsField(query[Here.at].exprs[Here.n])
    /\ work' = <<Task("open", Child(Here.at, "expr", Here.n), 0)>> \o Tail(work)
    /\ UNCHANGED <<query, scope, blocks, relations, entry, owner, failed>>

\* Mutant: a builder that returns and leaves its scope behind.
LeaveScope ==
    /\ Doing("leave")
    /\ work' = Tail(work)
    /\ UNCHANGED <<query, scope, blocks, relations, entry, owner, failed>>

LeaveBlock ==
    /\ Doing("leave")
    /\ scope' = Tail(scope)
    /\ work' = Tail(work)
    /\ UNCHANGED <<query, blocks, relations, entry, owner, failed>>

Stop == failed \/ work = <<>>
Finished == Stop /\ UNCHANGED vars

Next ==
    \/ OpenBlock
    \/ AddTable \/ AddDerived \/ LinkSource
    \/ ShareCte \/ BuildCte \/ CteIsNotRegistered \/ FinishCte
    \/ AddResult \/ ResolveField \/ EnterSubquery \/ LeaveBlock
    \/ Finished

Spec == Init /\ [][Next]_vars
-----------------------------------------------------------------------------
(* The scoping of SQL, read off the text of the statement.                 *)

Outer(b, d) == SubSeq(b, 1, d)

\* The relations an ON joins: the items from the last comma up to it.
Joined(q, b, i) ==
    {<<b, k>> : k \in {k \in 1..i : \A m \in (k + 1)..i : q[b].from[m].on # Comma}}

\* What a column reference sees of the block at depth d above or at it.  The
\* ORDER BY of a set operation names its columns and sees no relation.
Sees(q, s, d) ==
    LET b == s[1]
        p == Outer(b, d)
    IN IF q[b].kind = "set" THEN {}
       ELSE IF d = Len(b)
       THEN IF s[2] = "on" THEN Joined(q, b, s[3]) ELSE RelationsOf(q, p)
       ELSE LET part == b[d + 1][1]
                i == b[d + 1][2]
            IN IF part = "expr" THEN RelationsOf(q, p)
               ELSE IF part = "from" /\ q[p].from[i].lateral
               THEN {<<p, k>> : k \in 1..(i - 1)}
               ELSE {}

Depths(s) == 0..Len(s[1])

\* The innermost depth with a relation of that name.
Hits(q, s) == {d \in Depths(s) : Named(q, Sees(q, s, d), Qualifier(q, s)) # {}}
Deciding(q, s) == CHOOSE d \in Hits(q, s) : \A e \in Hits(q, s) : e <= d

Lexical(q, s) ==
    IF Hits(q, s) = {} THEN [one |-> None, among |-> {}]
    ELSE LET rs == Named(q, Sees(q, s, Deciding(q, s)), Qualifier(q, s))
         IN IF Cardinality(rs) = 1 THEN [one |-> CHOOSE r \in rs : TRUE, among |-> {}]
            ELSE [one |-> None, among |-> rs]

AllRelations(q) == UNION {RelationsOf(q, b) : b \in DOMAIN q}

\* Relations that carry the name a reference uses and are out of its sight.
OutOfSight(q, s) ==
    Named(q, AllRelations(q), Qualifier(q, s)) \ UNION {Sees(q, s, d) : d \in Depths(s)}

\* CTEs a table in block b sees of the WITH at depth d.
SeesCtes(q, b, d) ==
    LET p == Outer(b, d)
        Within(n) == {Child(p, "with", k) : k \in 1..n}
    IN IF d < Len(b) /\ b[d + 1][1] = "with" /\ ~q[p].recursive
       THEN Within(b[d + 1][2] - 1) ELSE Within(Len(q[p].with))

CteName(q, c) == q[Front(c)].with[Last(c)[2]]
CtesNamed(q, cs, name) == {c \in cs : CteName(q, c) = name}

LexicalCte(q, r) ==
    LET b == r[1]
        name == Item(q, r).name
        hits == {d \in 0..Len(b) : CtesNamed(q, SeesCtes(q, b, d), name) # {}}
    IN IF r[2] = 0 \/ ~IsTable(Item(q, r)) \/ Item(q, r).schema \/ hits = {} THEN None
       ELSE LET d == CHOOSE d \in hits : \A e \in hits : e <= d
            IN CHOOSE c \in CtesNamed(q, SeesCtes(q, b, d), name) : TRUE

AllCtes(q) == UNION {{Child(b, "with", k) : k \in DOMAIN q[b].with} : b \in DOMAIN q}
CtesOutOfSight(q, r) ==
    CtesNamed(q, AllCtes(q), Item(q, r).name)
        \ UNION {SeesCtes(q, r[1], d) : d \in 0..Len(r[1])}
-----------------------------------------------------------------------------
(* Properties.                                                             *)

Done == work = <<>> /\ ~failed

TypeOK ==
    /\ \A b \in DOMAIN query : query[b] \in BodiesWithin[MaxParts, MaxReferences, TRUE]
    /\ Range(blocks) \subseteq
          DOMAIN query \cup {Child(b, "result", 1) : b \in DOMAIN query}
    /\ \A k \in DOMAIN scope : scope[k] \in DOMAIN query
    /\ \A k \in DOMAIN relations : relations[k].at \in AllRelations(query)
    /\ DOMAIN entry \subseteq AllCtes(query)
    /\ DOMAIN owner \subseteq Sites(query)
    /\ failed \in BOOLEAN

\* Every column reference of a built graph belongs to the relation that SQL
\* gives it, with the candidates where it is ambiguous.  This holds of
\* references whose relation stands in a block they are nested in through
\* expressions alone, and of all others when no relation of the statement
\* has their qualifier and is out of their sight: scopes are those of the
\* walk, and a CTE is walked where it is first referenced.
OwnersAreLexical ==
    Done => \A s \in DOMAIN owner :
        LET plain == /\ s[2] = "expr" /\ query[s[1]].kind # "set"
                     /\ Hits(query, s) # {}
                     /\ \A k \in (Deciding(query, s) + 1)..Len(s[1]) : s[1][k][1] = "expr"
        IN plain \/ OutOfSight(query, s) = {} => owner[s] = Lexical(query, s)

\* Every table reads the CTE that SQL gives it, or none, when no CTE of its
\* name is out of its sight.
CtesAreLexical ==
    Done => \A k \in DOMAIN relations :
        LET r == relations[k].at IN
        CtesOutOfSight(query, r) = {} => relations[k].cte = LexicalCte(query, r)

\* Both: names mean what SQL's scopes say.
NamesAreLexical == OwnersAreLexical /\ CtesAreLexical

Children(q, b) ==
    {Child(b, "with", k) : k \in DOMAIN q[b].with}
        \cup {Child(b, "from", k) : k \in {i \in DOMAIN q[b].from : ~IsTable(q[b].from[i])}}
        \cup {Child(b, "expr", k) : k \in {j \in DOMAIN q[b].exprs : ~IsField(q[b].exprs[j])}}
        \cup (CASE q[b].kind = "set" -> {Child(b, "arm", 1), Child(b, "arm", 2)}
                [] q[b].kind = "insert" -> {Child(b, "source", 1)}
                [] OTHER -> {})

\* Every block, relation, column reference and CTE is there, once, and the walk
\* has left every scope that it entered.
EveryPartIsWalked ==
    /\ scope = <<>>
    /\ IsInjective(blocks)
    /\ Range(blocks) = DOMAIN query \cup
          {Child(b, "result", 1) : b \in {c \in DOMAIN query : query[c].returns}}
    /\ Len(relations) = Cardinality(AllRelations(query))
    /\ {relations[k].at : k \in DOMAIN relations} = AllRelations(query)
    /\ DOMAIN owner = Sites(query)
    /\ DOMAIN entry = AllCtes(query)
    /\ \A b \in DOMAIN query : Children(query, b) \subseteq DOMAIN query

\* All references to a CTE share one source block, the result of RETURNING
\* for data-modifying statements; a derived table reads its own block.
SourcesAreShared ==
    \A k \in DOMAIN relations :
        LET rel == relations[k]
            b == rel.at[1]
            i == rel.at[2]
        IN rel.source =
             (IF rel.cte # None
              THEN IF query[rel.cte].returns THEN Child(rel.cte, "result", 1)
                   ELSE IF query[rel.cte].kind \in {"select", "set"} THEN rel.cte
                   ELSE None
              ELSE IF i # 0 /\ ~IsTable(query[b].from[i]) THEN Child(b, "from", i)
              ELSE None)

\* The walk visits every part of the statement once, however often a CTE is
\* referenced and from wherever it is built (also one that nobody references),
\* and every relation ends at the one block that it reads.
GraphIsComplete == Done => EveryPartIsWalked /\ SourcesAreShared

\* The build stops at a CTE without a block only if some table has the name
\* of a CTE it cannot see, or a WITH RECURSIVE modifies data.
OnlyMisnamedCtesFail ==
    failed =>
        \/ \E k \in DOMAIN relations : CtesOutOfSight(query, relations[k].at) # {}
        \/ \E c \in DOMAIN entry :
              query[Front(c)].recursive /\ ModifiesData(query[c])

\* A relation without an alias may be renamed; sqlparser_collect_relation_bindings
\* gives the qualified references that are rewritten with it.
Renamed == "renamed"
Renamable(q) ==
    {r \in AllRelations(q) : IsTable(Item(q, r)) /\ Item(q, r).alias = None}
Rewritten(r) ==
    {s \in DOMAIN owner : owner[s].one = r /\ Qualifier(query, s) # Unqualified}
AfterRename(r) ==
    [b \in DOMAIN query |->
        [query[b] EXCEPT
            !.target = IF r = <<b, 0>> THEN [@ EXCEPT !.name = Renamed] ELSE @,
            !.from = [i \in DOMAIN @ |->
                [@[i] EXCEPT
                    !.name = IF r = <<b, i>> THEN Renamed ELSE @,
                    !.on = IF <<b, "on", i>> \in Rewritten(r) THEN Renamed ELSE @]],
            !.exprs = [j \in DOMAIN @ |->
                IF <<b, "expr", j>> \in Rewritten(r)
                THEN [@[j] EXCEPT !.qualifier = Renamed] ELSE @[j]]]]

\* A rename to a name the statement does not use moves no column reference
\* to another relation and leaves none behind
\* (src/doc/api_reference.en.md:513).
RenameKeepsBindings ==
    Done => \A k \in DOMAIN relations :
        relations[k].cte = None /\ relations[k].at \in Renamable(query) =>
            \A s \in Sites(query) :
                Lexical(query, s).one # None =>
                    Lexical(AfterRename(relations[k].at), s).one = Lexical(query, s).one

\* The same where every relation that has the qualifier of a reference is
\* in its sight.
RenameKeepsSightedBindings ==
    (Done /\ \A s \in DOMAIN owner : OutOfSight(query, s) = {}) => RenameKeepsBindings
=============================================================================
