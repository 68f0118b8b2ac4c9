--------------------------- MODULE MCHandleLifecycle ---------------------------
(***************************************************************************)
(* Model checking of HandleLifecycle: the bounds are in the cfg files.      *)
(***************************************************************************)
EXTENDS HandleLifecycle
=============================================================================
