--------------------------- MODULE MCCALifecycle ---------------------------
(***************************************************************************)
(* CALifecycle for TLC.  UUIDs are random names and the commands are alike *)
(* in everything but their number, so both are symmetric in every property *)
(* but the liveness ones.                                                  *)
(***************************************************************************)
EXTENDS CALifecycle, TLC

Symmetry == Permutations(CA) \cup Permutations(Cli)
=============================================================================
