-------------------------- MODULE MCServiceEntries --------------------------
(***************************************************************************)
(* ServiceEntries for TLC: two entries that select workloads by different  *)
(* labels or name an endpoint of their own, or none, a WorkloadEntry that  *)
(* may go from one to the other, and a pod.                                *)
(***************************************************************************)
EXTENDS ServiceEntries, TLC

CONSTANTS seA, seB, wle, sePod, labelA, labelB

Selecting(l) == [selector |-> l, endpoint |-> Missing, svc |-> 1]
Static(i)    == [selector |-> Missing, endpoint |-> i, svc |-> 1]

MCEntrySpecs     == {Selecting(labelA), Selecting(labelB), Static(1), Static(2), Static(Missing)}
MCWleSpecs       == {[label |-> labelA, addr |-> 1], [label |-> labelB, addr |-> 1]}
MCPodLabel       == sePod :> labelA
MCInitialEntries == seA :> Selecting(labelA) @@ seB :> Selecting(labelB)
MCInitialWles    == wle :> [label |-> labelA, addr |-> 1]
=============================================================================
