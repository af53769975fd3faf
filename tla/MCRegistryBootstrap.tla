------------------------ MODULE MCRegistryBootstrap ------------------------
(***************************************************************************)
(* RegistryBootstrap for TLC: starts and commits are interchangeable, and  *)
(* so are branches but for the one git init would choose.                  *)
(***************************************************************************)
EXTENDS RegistryBootstrap, TLC

Symmetry == Permutations(Server) \cup Permutations(Commit)
=============================================================================
