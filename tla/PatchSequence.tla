---------------------------- MODULE PatchSequence ----------------------------
(***************************************************************************)
(* What sqlparser_apply_patch promises: the patches of a list are made one  *)
(* after the other, each on the text the ones before it left, and the first *)
(* that cannot be made ends the list.  A payload that borrows a literal of  *)
(* the handle is the literal as it was when the list was handed over.       *)
(***************************************************************************)
EXTENDS PatchText

CONSTANTS
  Sources,   \* the texts a handle may hold
  Patches,   \* the patches an owner may put in a list
  MaxPatches \* bound: patches in a list

VARIABLES
  given,     \* the text the list was handed over with
  document,  \* the text the handle stands for, Failed if it is dead
  patch,     \* the last patch
  count      \* how many were made

Init ==
  /\ given \in Sources
  /\ document = given
  /\ patch = NoPatch
  /\ count = 0

\* The text of a payload; a borrowed one is read from t.
Payload(t, p) ==
  IF p.borrowed = 0 THEN p.payload
  ELSE <<[t[LiteralsOf(t)[p.borrowed]] EXCEPT !.depth = 0]>>

MakePatch ==
  /\ document # Failed
  /\ count < MaxPatches
  /\ \E p \in Patches :
       /\ patch' = p
       /\ document' = Applied(document, p, Payload(given, p))
  /\ count' = count + 1
  /\ UNCHANGED given

Next == MakePatch

Spec == Init /\ [][Next]_<<given, document, patch, count>>
=============================================================================
