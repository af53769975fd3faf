------------------------- MODULE MCServiceLifecycle -------------------------
(***************************************************************************)
(* ServiceLifecycle for TLC; without symmetry, as liveness is checked.     *)
(***************************************************************************)
EXTENDS ServiceLifecycle
=============================================================================
