---------------------------- MODULE MCPatchBatch ----------------------------
(* Instances of PatchBatch for TLC. *)
EXTENDS PatchBatch

Tok(d, k, x) == [depth |-> d, kind |-> k, text |-> x]
Close(d) == Tok(d, "close", ")")

\* VALUES ('s', f(1, ?), g(h(2), c), 3)
Row == <<Tok(0, "string", "s"),
         Tok(0, "function", "f"), Tok(1, "number", "1"), Tok(1, "bind", "?"), Close(1),
         Tok(0, "function", "g"), Tok(1, "function", "h"), Tok(2, "string", "2"), Close(2),
           Tok(1, "field", "c"), Close(1),
         Tok(0, "number", "3")>>

OneRow == {Row}

Str == <<Tok(0, "string", "n")>>
Num == <<Tok(0, "number", "9")>>
Bnd == <<Tok(0, "bind", ":b")>>
Opaque == <<Tok(0, "opaque", "CASE")>>
Simple == <<Tok(0, "function", "k"), Tok(1, "number", "7"), Close(1)>>
Deep == <<Tok(0, "function", "k"), Tok(1, "function", "m"), Close(2), Close(1)>>

P(target, item, index, payload) ==
  [target |-> target, item |-> item, index |-> index, payload |-> payload,
   source |-> 0, borrowed |-> 0]

Copies == {[P("cell", c[1], 0, NoText) EXCEPT !.source = c[2]] : c \in {<<1, 2>>, <<1, 4>>, <<4, 1>>}}
Borrowing == {[P("cell", 1, 0, NoText) EXCEPT !.borrowed = 3]}

\* Item 4 of the expressions and argument 3 of h name nothing at first.
AllPatches ==
  {P("literal", i, 0, x) : i \in {1, 2, 3}, x \in {Str, Num}}
    \cup {P("cell", i, 0, x) : i \in {1, 4}, x \in {Str, Bnd, Simple}}
    \cup Copies \cup Borrowing \cup {P("column", 1, 0, NoText)}
    \cup {P("expression", i, 0, x) : i \in 1..4, x \in {Opaque, Simple, Deep}}
    \cup {P("argument", i, k, x) : i \in 1..3, k \in {1, 2}, x \in {Num, Simple}}
    \cup {P("insert", i, k, Bnd) : i \in 1..3, k \in {1, 3}}
    \cup {P("delete", i, 1, NoText) : i \in 1..3}
=============================================================================
