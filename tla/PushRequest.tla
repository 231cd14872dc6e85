----------------------------- MODULE PushRequest -----------------------------
(***************************************************************************)
(* model.PushRequest (pilot/pkg/model/push_context.go): what a push to a   *)
(* proxy has to carry.  A request is reduced to the three fields that      *)
(* decide what is pushed:                                                  *)
(*                                                                         *)
(*   full     - Full: a full push rather than an endpoints-only one;       *)
(*   push     - Push: the version of the push context to generate from     *)
(*              (0 stands for the nil context of a request that has not    *)
(*              reached DiscoveryServer.Push yet);                         *)
(*   configs  - the keys of ConfigsUpdated; the empty set means "anything  *)
(*              may have changed", never "nothing changed".                *)
(*                                                                         *)
(* Start and Reason only feed metrics and are left out.                    *)
(***************************************************************************)
EXTENDS Naturals

CONSTANTS Configs,   \* the keys that may occur in ConfigsUpdated
          Versions,  \* the push-context versions a request may carry
          NoRequest  \* the nil *PushRequest

Requests == [full : BOOLEAN, push : Versions, configs : SUBSET Configs]

ASSUME RequestAssumption == NoRequest \notin Requests

MaybeRequests == Requests \cup {NoRequest}

\* Variant with a bug: the union also where one side means "everything".
MergeUnion(first, other) ==
  IF first = NoRequest THEN other
  ELSE IF other = NoRequest THEN first
  ELSE [full    |-> first.full \/ other.full,
        push    |-> other.push,
        configs |-> first.configs \cup other.configs]

(***************************************************************************)
(* func (first *PushRequest) Merge(other *PushRequest) *PushRequest        *)
(***************************************************************************)
Merge(first, other) ==
  IF first = NoRequest THEN other
  ELSE IF other = NoRequest THEN first
  ELSE [full    |-> first.full \/ other.full,
        push    |-> other.push,
        configs |-> IF first.configs # {} /\ other.configs # {}
                    THEN first.configs \cup other.configs
                    ELSE {}]

(***************************************************************************)
(* Does a push for request r take configuration key k into account?  An   *)
(* empty ConfigsUpdated means "all" (ConfigAffectsProxy, ads_common.go).   *)
(***************************************************************************)
Affects(r, k) == r # NoRequest /\ (r.configs = {} \/ k \in r.configs)

(***************************************************************************)
(* r carries at least what s asks for, whatever context it is built from.  *)
(***************************************************************************)
Covers(r, s) ==
  s # NoRequest =>
    /\ r # NoRequest
    /\ s.full => r.full
    /\ \A k \in Configs : Affects(s, k) => Affects(r, k)
=============================================================================
