---------------------------- MODULE MCCAService ----------------------------
(***************************************************************************)
(* CAService for TLC: calls and CAs are interchangeable.                   *)
(***************************************************************************)
EXTENDS CAService, TLC

Symmetry == Permutations(Call) \cup Permutations(CA)
=============================================================================
