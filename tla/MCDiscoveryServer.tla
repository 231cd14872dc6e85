-------------------------- MODULE MCDiscoveryServer --------------------------
(***************************************************************************)
(* DiscoveryServer for TLC: every proxy depends on configuration k1 only.  *)
(***************************************************************************)
EXTENDS DiscoveryServer, TLC

CONSTANT k1

MCInterests == [c \in Connections |-> {k1} \cap Configs]

MCVersions == 1..MaxContexts

(***************************************************************************)
(* Connections are interchangeable.                                        *)
(***************************************************************************)
Symmetry == Permutations(Connections)
=============================================================================
