--------------------------- MODULE MCMySqlDialect ---------------------------
(* The state of the MySQL dialect for TLC: how a multi-table UPDATE is to be *)
(* written back, and what the nodes of a statement wear besides.  The two    *)
(* models share no state, so one of them moves while the other holds nothing.*)
EXTENDS MySqlUpdateJoins

CONSTANTS Documents, Fragments, MaxEdits, MaxNodes

VARIABLES
  moving,                                                  \* the component that moves
  doc, surface, counts, starts, bases, staged, loaded, lost, edits  \* of MySqlSurface

Surface == INSTANCE MySqlSurface

ASSUME SurfaceAssumption == Surface!InputAssumption /\ Surface!BoundAssumption

-----------------------------------------------------------------------------
(* Statements to update.                                                     *)
A == Name("a")
B == Name("b")
C == Name("c")
AAsE == [Name("a") EXCEPT !.alias = "e"]
InSchema == [Name("b") EXCEPT !.schema = "s"]

Update(kind, first, second, tail, set, where) ==
  [kind |-> kind, first |-> first, second |-> second, tail |-> tail, set |-> set,
   where |-> where]

Pairs == {Update(kind, A, B, <<>>, set, NoWhere) :
            kind \in Kinds, set \in {<<<<"a">>>>, <<<<"b">>>>, <<<<>>, <<"b">>>>}}
Others == {
  Update("left", A, B, <<>>, <<<<"b">>, <<"b">>>>, Where(Condition("v"))),
  Update("comma", A, B, <<[by |-> ",", table |-> C]>>, <<<<"b">>>>, Where(Condition("v"))),
  Update("join", A, B, <<[by |-> "join", table |-> C]>>, <<<<"c">>, <<>>>>, NoWhere),
  \* A table joined to itself, and one of another schema.
  Update("join", AAsE, A, <<>>, <<<<"e">>>>, NoWhere),
  Update("join", AAsE, B, <<>>, <<<<"a">>>>, NoWhere),
  Update("inner", A, InSchema, <<>>, <<<<"b">>>>, NoWhere)}
AllStatements == Pairs \union Others

AllPaths == {<<>>, <<"a">>, <<"b">>, <<"e">>, <<"s", "b">>}
AllConditions == {Condition("w"), Group(Where(Condition("w")))}

-----------------------------------------------------------------------------
(* Texts whose nodes wear something.                                         *)
Plain(k) == [kind |-> k, dress |-> <<>>]
Dressed(k, d) == [kind |-> k, dress |-> d]

\* A derived table, a table with two hints, one without; a second statement
\* with a hint of its own.
HintedTables == {<<<<Plain("derived"), Dressed("relation", <<"h", "i">>), Plain("relation")>>,
                   <<Dressed("relation", <<"j">>)>>>>}

\* Limits and literals are numbered through the whole text.
Limits == {<<<<Plain("limit"), Dressed("limit", <<",">>)>>,
             <<Dressed("literal", <<"N">>), Dressed("limit", <<",">>)>>>>}

\* Two joins, the second straight.
Joins == {<<<<Plain("join"), Dressed("join", <<"s">>)>>>>}

AllTexts == HintedTables \union Limits \union Joins
AllFragments == {<<Plain("relation"), Dressed("relation", <<"k">>)>>,
                 <<Plain("limit"), Dressed("literal", <<"N">>)>>,
                 <<Dressed("join", <<"s">>), Dressed("limit", <<",">>)>>}

-----------------------------------------------------------------------------
surfaceVars == <<doc, surface, counts, starts, bases, staged, loaded, lost, edits>>
updateVars == <<sql, tree, shape, status, steps>>

DialectInit ==
  \/ /\ moving = "update" /\ Init
     /\ doc = <<>> /\ surface = <<>> /\ counts = <<>> /\ starts = <<>> /\ bases = <<>>
     /\ staged = <<>> /\ loaded = FALSE /\ lost = FALSE /\ edits = 0
  \/ /\ moving = "surface" /\ Surface!Init
     /\ sql = None /\ tree = None /\ shape = {} /\ status = "none" /\ steps = 0

SurfaceRests == moving = "update" /\ UNCHANGED <<moving, surfaceVars>>
UpdateRests == moving = "surface" /\ UNCHANGED <<moving, updateVars>>

\* The disjuncts of both next-state relations.
DialectNext ==
  \/ \E i \in 1..(MaxSet + 1), path \in Paths : SurfaceRests /\ InsertAssignment(i, path)
  \/ \E i \in 1..(MaxSet + 1), path \in Paths : SurfaceRests /\ ReplaceAssignment(i, path)
  \/ \E i \in 1..MaxSet : SurfaceRests /\ DeleteAssignment(i)
  \/ \E op \in {"and", "or"}, t \in Conditions : SurfaceRests /\ AppendCondition(op, t)
  \/ \E t \in Conditions : SurfaceRests /\ ReplaceWhere(t)
  \/ SurfaceRests /\ Reread
  \/ UpdateRests /\ Surface!EnsureAst
  \/ UpdateRests /\ Surface!DiscardAst
  \/ UpdateRests /\ Surface!UseClone
  \/ UpdateRests /\ Surface!DropFragment
  \/ \E s \in DOMAIN doc, f \in Fragments : UpdateRests /\ Surface!ParseFragment(f, s)
  \/ \E s \in DOMAIN doc : \E span \in Surface!Spans(s) :
       \/ UpdateRests /\ Surface!Install(s, span[1], span[2])
       \/ UpdateRests /\ Surface!InstallCopies(s, span[1], span[2])
       \/ UpdateRests /\ Surface!RemoveNodes(s, span[1], span[2])
       \/ \E k \in 1..(Len(doc[s]) + 1) :
            UpdateRests /\ Surface!CopyNodes(s, span[1], span[2], k)

DialectSpec == DialectInit /\ [][DialectNext]_<<moving, updateVars, surfaceVars>>

\* Types of both components.
DialectTypeOK == IF moving = "update" THEN TypeOK ELSE Surface!TypeOK

\* Records belong to the nodes that wear them (MySqlSurface).
OwnersWearTheirDress == moving = "surface" => Surface!OwnersWearTheirDress

\* The statement is written back as it was dressed (MySqlSurface).
SurfaceIsKept == moving = "surface" => Surface!SurfaceIsKept
=============================================================================
