----------------------------- MODULE MCXdsCache -----------------------------
(***************************************************************************)
(* XdsCache for TLC: the endpoints of two clusters, which share a          *)
(* destination rule and a dependent kind.                                  *)
(***************************************************************************)
EXTENDS XdsCache, TLC

CONSTANTS ep1, ep2, svc1, svc2, peerAuthn, ServiceEntry, PeerAuthentication

MCKindOf == (svc1 :> ServiceEntry) @@ (svc2 :> ServiceEntry) @@ (peerAuthn :> PeerAuthentication)

MCDependentConfigs == (ep1 :> {svc1, svc2}) @@ (ep2 :> {svc2})

MCDependentTypes == (ep1 :> {}) @@ (ep2 :> {PeerAuthentication})
=============================================================================
