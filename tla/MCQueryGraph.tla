---------------------------- MODULE MCQueryGraph ----------------------------
(* Small statements for QueryGraph: blocks of two names, with few parts.   *)
EXTENDS QueryGraph, TLC

CONSTANTS na, nb

MCNames == {na, nb}

Table(n, alias, schema) ==
    [what |-> "table", name |-> n, alias |-> alias, schema |-> schema,
     lateral |-> FALSE, on |-> Comma]
Derived(n, lateral) ==
    [what |-> "derived", name |-> None, alias |-> n, schema |-> FALSE,
     lateral |-> lateral, on |-> Comma]

TableA == Table(na, None, FALSE)
TableB == Table(nb, None, FALSE)
WrittenA == Table(na, None, TRUE)
BAsA == Table(nb, na, FALSE)
Items == {TableA, TableB, WrittenA, BAsA, Derived(na, FALSE)}

\* The second item of a FROM stands behind a comma or in a join.
Pairs == {<<TableA, TableB>>, <<TableA, WrittenA>>, <<TableB, TableA>>,
          <<TableB, BAsA>>, <<TableB, Derived(na, FALSE)>>, <<TableA, Derived(nb, TRUE)>>}
Froms == {<<>>} \cup {<<i>> : i \in Items}
            \cup {<<p[1], [p[2] EXCEPT !.on = on]>> : p \in Pairs, on \in {Comma, na}}

Field(n) == [what |-> "field", qualifier |-> n]
Subquery == [what |-> "query"]
Expressions == {<<>>, <<Subquery>>, <<Field(na)>>, <<Field(Unqualified)>>}

Withs == {<<>>, <<na>>, <<nb>>, <<na, nb>>}

Body(kind, with, recursive, target, from, exprs, returns) ==
    [kind |-> kind, with |-> with, recursive |-> recursive, target |-> target,
     from |-> from, exprs |-> exprs, returns |-> returns]

Selects == {Body("select", w, r, None, f, e, FALSE) :
               w \in Withs, r \in BOOLEAN, f \in Froms, e \in Expressions}
SetOperations == {Body("set", w, r, None, <<>>, e, FALSE) :
               w \in Withs, r \in BOOLEAN, e \in {<<>>, <<Field(na)>>}}
Updates == {Body("update", w, FALSE, TableB, f, e, returns) :
               w \in {<<>>, <<nb>>}, e \in Expressions, returns \in BOOLEAN,
               f \in {<<>>} \cup {<<i>> : i \in Items}}
Inserts == {Body("insert", w, FALSE, TableB, <<>>, e, returns) :
               w \in {<<>>, <<nb>>}, e \in {<<>>, <<Field(nb)>>}, returns \in BOOLEAN}

\* RECURSIVE says something of a WITH only, and a column without a qualifier
\* is of interest beside two relations.
MCBodies == {body \in Selects \cup SetOperations \cup Updates \cup Inserts :
               /\ body.recursive => body.with \in {<<na>>, <<nb>>}
               /\ body.exprs = <<Field(Unqualified)>> => Len(body.from) # 1}
=============================================================================
