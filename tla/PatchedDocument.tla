--------------------------- MODULE PatchedDocument ---------------------------
(***************************************************************************)
(* What a handle promises its owner, without saying how: one document that *)
(* patch lists change as a whole, and a generation that tells the owner    *)
(* which of the views it holds are out of date                             *)
(* (doc/sqlparser_architecture.en.md 3.6, doc/api_reference.en.md).        *)
(***************************************************************************)
EXTENDS Integers

CONSTANT NULL

VARIABLES
  status,      \* "live", "failed" or "destroyed"
  version,     \* of the document, one more with every patch
  generation,  \* counts the successful lists, and the failure
  answer       \* what the last call showed of the document, or NULL

vars == <<status, version, generation, answer>>

Init == status = "live" /\ version = 0 /\ generation = 0 /\ answer = NULL

\* Every call that shows the document shows all patches so far and no other.
Ask == status = "live" /\ answer' = version /\ UNCHANGED <<status, version, generation>>

\* A call that shows nothing, or fails without harm.
Say == status = "live" /\ answer' = NULL /\ UNCHANGED <<status, version, generation>>

\* A list of patches takes effect at once, with one new generation.
Apply ==
  /\ status = "live"
  /\ version' > version /\ version' \in Nat
  /\ generation' = generation + 1
  /\ answer' = NULL
  /\ UNCHANGED status

\* There is no rollback: the document is gone, and no view survives.
Fail ==
  /\ status = "live" /\ status' = "failed"
  /\ generation' > generation /\ generation' \in Nat
  /\ answer' = NULL
  /\ UNCHANGED version

Destroy ==
  /\ status \in {"live", "failed"} /\ status' = "destroyed"
  /\ generation' = 0
  /\ answer' = NULL
  /\ UNCHANGED version

Next == Ask \/ Say \/ Apply \/ Fail \/ Destroy

Spec == Init /\ [][Next]_vars
=============================================================================
