---------------------------- MODULE MCGlobalPush ----------------------------
(***************************************************************************)
(* GlobalPush for TLC.                                                     *)
(***************************************************************************)
EXTENDS GlobalPush, TLC

(***************************************************************************)
(* Callers and kinds are interchangeable.                                  *)
(***************************************************************************)
Symmetry == Permutations(Sources) \cup Permutations(Configs)
=============================================================================
