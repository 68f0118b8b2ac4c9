------------------------------ MODULE PatchText ------------------------------
(***************************************************************************)
(* A statement as a patch list sees it, and what one patch does to it.      *)
(*                                                                          *)
(* A text is a sequence of tokens in source order; `depth' is the nesting   *)
(* of the value a token belongs to.  A row of VALUES holds the values of    *)
(* depth 0, its cells; a function holds its arguments and a closing         *)
(* parenthesis one level deeper.  Because a value and all below it are      *)
(* neighbours, a source range of the program is a range of tokens here.     *)
(* Comments, spaces and commas are left out: payloads have none around them. *)
(***************************************************************************)
EXTENDS Naturals, Sequences, SequencesExt

\* The payload of a patch that has none, and what comes before the first patch.
NoText == <<>>
NoPatch == [target |-> "none"]

\* What a patch that cannot be carried out leaves: apply fails.
Failed == <<[depth |-> 0, kind |-> "failed", text |-> "failed"]>>

Literals == {"string", "number"}
Expressions == {"function", "opaque"}

Positions(t, Test(_)) == SelectSeq([i \in DOMAIN t |-> i], Test)

At(positions, i) == IF i \in DOMAIN positions THEN positions[i] ELSE 0

\* The place behind the value that begins at p.
End(t, p) ==
  LET behind == {q \in DOMAIN t : q > p /\ t[q].depth <= t[p].depth}
  IN  IF behind = {} THEN Len(t) + 1 ELSE Min(behind)

LiteralsOf(t) == LET Test(p) == t[p].kind \in Literals IN Positions(t, Test)
ExpressionsOf(t) == LET Test(p) == t[p].kind \in Expressions IN Positions(t, Test)
CellsOf(t) == LET Test(p) == t[p].depth = 0 IN Positions(t, Test)

ArgumentsOf(t, f) ==
  LET Test(p) == /\ f < p /\ p < End(t, f)
                 /\ t[p].depth = t[f].depth + 1
                 /\ t[p].kind # "close"
  IN  Positions(t, Test)

IsExpressionPatch(p) == p.target \in {"expression", "argument", "insert", "delete"}

\* The value the selector of a patch names, or 0.
Node(t, p) ==
  CASE p.target = "literal" -> At(LiteralsOf(t), p.item)
    [] p.target \in {"cell", "column"} -> At(CellsOf(t), p.item)
    [] IsExpressionPatch(p) -> At(ExpressionsOf(t), p.item)

Argument(t, p) == At(ArgumentsOf(t, Node(t, p)), p.index)

ValueRange(t, n) == [from |-> n, to |-> End(t, n)]

\* A new argument stands before the one it displaces, or before the parenthesis.
InsertionRange(t, p) ==
  LET f     == Node(t, p)
      place == IF Argument(t, p) # 0 THEN Argument(t, p) ELSE End(t, f) - 1
  IN  [from |-> place, to |-> place]

\* Whether the patch names something that is there.
Resolves(t, p) ==
  /\ Node(t, p) # 0
  /\ p.target = "column" => Len(CellsOf(t)) > 1
  /\ p.target \in {"argument", "insert", "delete"} => t[Node(t, p)].kind = "function"
  /\ p.target \in {"argument", "delete"} => Argument(t, p) # 0
  /\ p.target = "insert" => p.index <= Len(ArgumentsOf(t, Node(t, p))) + 1
  /\ p.source # 0 => At(CellsOf(t), p.source) # 0

\* The tokens it replaces.
Target(t, p) ==
  CASE p.target \in {"literal", "cell", "column", "expression"} -> ValueRange(t, Node(t, p))
    [] p.target \in {"argument", "delete"} -> ValueRange(t, Argument(t, p))
    [] p.target = "insert" -> InsertionRange(t, p)

Cut(t, range) == SubSeq(t, range.from, range.to - 1)

Nested(text, depth) == [i \in DOMAIN text |-> [text[i] EXCEPT !.depth = @ + depth]]

\* What it puts there: a cell of the text, or its payload.
Replacement(t, p, payload) ==
  IF p.source # 0 THEN Cut(t, ValueRange(t, CellsOf(t)[p.source]))
  ELSE Nested(payload, IF p.target \in {"argument", "insert"}
                       THEN t[Node(t, p)].depth + 1 ELSE t[Node(t, p)].depth)

\* The text one patch by itself makes.
Applied(t, p, payload) ==
  IF ~Resolves(t, p) THEN Failed
  ELSE LET range == Target(t, p)
       IN  SubSeq(t, 1, range.from - 1) \o Replacement(t, p, payload)
             \o SubSeq(t, range.to, Len(t))
=============================================================================
