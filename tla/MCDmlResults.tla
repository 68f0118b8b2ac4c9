---------------------------- MODULE MCDmlResults ----------------------------
(* SQL for DmlResults.                                                     *)
EXTENDS DmlResults

TwoFragments == {<<"x">>, <<"$action", "m1">>}
ThreeMarkers == <<"m1", "m2", "m3">>

Out(targets) == [sink |-> None, columns |-> <<>>, targets |-> targets]
OutInto(targets, sink, columns) == [sink |-> sink, columns |-> columns, targets |-> targets]
Statement(kind, short, clause, inner) ==
    [kind |-> kind, short |-> short, clause |-> clause, inner |-> inner]
Nested(kind, clause) == [kind |-> kind, clause |-> clause]

\* Two channels with $action, and a column that looks like a marker.
TwoChannels == [dialect |-> "sqlserver", statements |-> <<
    Statement("merge", FALSE,
        <<OutInto(<<<<"$action", "a">>>>, "log", <<"k">>),
          Out(<<<<"m1">>, <<"$action">>>>)>>, <<>>)>>]

\* DMLs nested in two INSERTs, and DMLs that the second pass adds.
NestedDmls == [dialect |-> "sqlserver", statements |-> <<
    Statement("insert", TRUE, <<>>, <<>>),
    Statement("insert", FALSE, <<OutInto(<<<<"b">>>>, "log", <<>>)>>,
        <<Nested("delete", <<Out(<<<<"c">>>>)>>), Nested("insert", <<Out(<<<<"d">>>>)>>)>>),
    Statement("insert", FALSE, <<>>, <<Nested("insert", <<Out(<<<<"e">>>>)>>)>>)>>]

\* Two more than the limit, with INSERTs that the state would not need.
TooMany == [dialect |-> "sqlserver", statements |->
    [s \in 1..5 |-> Statement("insert", FALSE, <<>>, <<Nested("delete", <<Out(<<<<"c">>>>)>>)>>)]]

Pairs == [dialect |-> "oracle", statements |-> <<
    Statement("delete", FALSE, <<>>, <<>>),
    Statement("update", FALSE, <<OutInto(<<<<"a">>, <<"b">>>>, "into", <<":1", ":2">>)>>, <<>>)>>]

Returning == [dialect |-> "postgresql", statements |-> <<
    Statement("update", FALSE, <<Out(<<<<"a">>, <<"b">>>>)>>,
        <<Nested("delete", <<Out(<<<<"c">>>>)>>), Nested("insert", <<>>)>>)>>]

AllDocuments == {TwoChannels, NestedDmls, TooMany, Pairs, Returning}
=============================================================================
