--------------------------- MODULE MCSurfaceEdits ---------------------------
(* Instances of SurfaceEdits for TLC. *)
EXTENDS SurfaceEdits, TLC

\* Two source bytes: two nonempty ranges that touch, a range that spans both, and
\* an empty range inside and at either end.
TwoBytes == <<1, 2>>

\* Deletion, and a text that grows the SQL.
TwoTexts == {<<>>, <<9, 9>>}

EditSymmetry == Permutations(Buffers) \cup Permutations(Handles)

\* What a call that changed nothing reports is checked, and not followed:
\* no action reads it.
ReportsAreNotFollowed ==
    /\ last.call \notin {"restore", "over"}
    /\ last.call \in {"insert", "deduplicated", "batch"} => last.status = "ok"
=============================================================================
