--------------------------- MODULE EndpointShards ---------------------------
(***************************************************************************)
(* The endpoint shards of one service (pilot/pkg/xds/eds.go): the entry of *)
(* EndpointShardsByService, which the registries of several clusters       *)
(* update, each from its own goroutine, and which every full push updates  *)
(* once more for the registries it polls (the federated meshes).           *)
(*                                                                         *)
(* edsCacheUpdate takes s.mutex to find the EndpointShards, releases it,   *)
(* and only then takes the EndpointShards' own mutex to write the shard.   *)
(* Shards live in a heap, so that a goroutine may hold one that is no      *)
(* longer in the map.  A number stands for a list of endpoints, 0 for the  *)
(* empty one.  Service accounts, which only decide between a full and an   *)
(* incremental push, are left out, and Cache.Clear is XdsCache's.          *)
(***************************************************************************)
EXTENDS Naturals, Sequences

CONSTANTS Clusters,         \* shards: one per registry
          Polled,           \* the registries getNonK8sRegistries returns
          Pusher,           \* the goroutine of the full push
          Endpoints,        \* non-empty lists of endpoints
          Outside,          \* a goroutine outside edsCacheUpdate
          MaxShards         \* bound: EndpointShards created before the last update

ASSUME ShardsAssumption ==
  /\ Polled \subseteq Clusters
  /\ Pusher \notin Clusters
  /\ Endpoints \subseteq Nat \ {0}
  /\ MaxShards \in Nat
  /\ Outside \notin [cluster : Clusters, eps : Nat, ep : Nat]

VARIABLES registry,     \* what the registry of each cluster has
          heap,         \* every EndpointShards created
          inMap,        \* EndpointShardsByService: the one in the map, 0 if none
          thread,       \* the edsCacheUpdate call a goroutine is in
          pushPending,  \* a full push is due
          polling,      \* the registries the full push under way has still to list
          missed        \* history: the last write went to shards not in the map

shardVars == <<registry, heap, inMap, thread, pushPending, polling, missed>>

Goroutines == Clusters \cup {Pusher}

NoShards == [c \in Clusters |-> 0]

ShardsInit ==
  /\ registry    = NoShards
  /\ heap        = <<>>
  /\ inMap       = 0
  /\ thread      = [g \in Goroutines |-> Outside]
  /\ pushPending = FALSE
  /\ polling     = {}
  /\ missed      = [c \in Clusters |-> FALSE]

-----------------------------------------------------------------------------
(***************************************************************************)
(* EDSUpdate and EDSCacheUpdate: a registry's endpoints of the service     *)
(* become eps, and it calls edsCacheUpdate.                                *)
(***************************************************************************)
EDSUpdate(c, eps) ==
  /\ thread[c] = Outside
  /\ eps # registry[c]
  /\ Len(heap) < MaxShards
  /\ registry' = [registry EXCEPT ![c] = eps]
  /\ thread' = [thread EXCEPT ![c] = [cluster |-> c, eps |-> eps, ep |-> 0]]
  /\ UNCHANGED <<heap, inMap, pushPending, polling, missed>>

(***************************************************************************)
(* UpdateServiceShards: a full push goes through the services of its new   *)
(* context, in which the service is if a registry had it when the context  *)
(* was built.  It lists the endpoints that the registry has by then, under *)
(* the registry's lock, which the registry also holds while it updates the *)
(* shards, and calls edsCacheUpdate without it.                            *)
(***************************************************************************)
BuildContext ==
  /\ pushPending
  /\ polling = {} /\ thread[Pusher] = Outside
  /\ pushPending' = FALSE
  /\ polling' = {c \in Polled : registry[c] # 0}
  /\ UNCHANGED <<registry, heap, inMap, thread, missed>>

UpdateServiceShards(c) ==
  /\ c \in polling
  /\ thread[Pusher] = Outside
  /\ thread[c] = Outside
  /\ polling' = polling \ {c}
  /\ thread' = [thread EXCEPT ![Pusher] = [cluster |-> c, eps |-> registry[c], ep |-> 0]]
  /\ UNCHANGED <<registry, heap, inMap, pushPending, missed>>

(***************************************************************************)
(* A goroutine leaves edsCacheUpdate; the controller of a polled registry  *)
(* then asks for a full push.                                              *)
(***************************************************************************)
Return(g) ==
  /\ thread' = [thread EXCEPT ![g] = Outside]
  /\ pushPending' = (pushPending \/ g \in Polled)
  /\ UNCHANGED polling

(***************************************************************************)
(* edsCacheUpdate without endpoints: deleteEndpointShards, under both      *)
(* locks.                                                                  *)
(***************************************************************************)
DeleteEndpointShards(g) ==
  /\ thread[g] # Outside
  /\ thread[g].eps = 0
  /\ heap' = IF inMap = 0 THEN heap ELSE [heap EXCEPT ![inMap][thread[g].cluster] = 0]
  /\ missed' = [missed EXCEPT ![thread[g].cluster] = FALSE]
  /\ Return(g)
  /\ UNCHANGED <<registry, inMap>>

(***************************************************************************)
(* edsCacheUpdate with endpoints: getOrCreateEndpointShard under s.mutex.  *)
(***************************************************************************)
GetOrCreateEndpointShard(g) ==
  /\ thread[g] # Outside
  /\ thread[g].eps # 0
  /\ thread[g].ep = 0
  /\ heap' = IF inMap = 0 THEN Append(heap, NoShards) ELSE heap
  /\ inMap' = IF inMap = 0 THEN Len(heap) + 1 ELSE inMap
  /\ thread' = [thread EXCEPT ![g].ep = inMap']
  /\ UNCHANGED <<registry, pushPending, polling, missed>>

(***************************************************************************)
(* The rest of edsCacheUpdate, under the mutex of the EndpointShards.      *)
(***************************************************************************)
WriteShard(g) ==
  /\ thread[g] # Outside
  /\ thread[g].ep # 0
  /\ heap' = [heap EXCEPT ![thread[g].ep][thread[g].cluster] = thread[g].eps]
  /\ missed' = [missed EXCEPT ![thread[g].cluster] = thread[g].ep # inMap]
  /\ Return(g)
  /\ UNCHANGED <<registry, inMap>>

\* Variant with a bug: the entry goes although other clusters still have shards in it.
DeleteServiceOfAll(c) ==
  /\ thread[c] = Outside
  /\ registry[c] # 0
  /\ registry' = [registry EXCEPT ![c] = 0]
  /\ heap' = IF inMap = 0 THEN heap ELSE [heap EXCEPT ![inMap][c] = 0]
  /\ inMap' = 0
  /\ missed' = [missed EXCEPT ![c] = FALSE]
  /\ Return(c)

(***************************************************************************)
(* SvcUpdate with EventDelete: deleteService, under both locks.  The entry *)
(* goes with its last shard.                                               *)
(***************************************************************************)
DeleteService(c) ==
  /\ thread[c] = Outside
  /\ registry[c] # 0
  /\ registry' = [registry EXCEPT ![c] = 0]
  /\ heap' = IF inMap = 0 THEN heap ELSE [heap EXCEPT ![inMap][c] = 0]
  /\ inMap' = IF inMap # 0 /\ heap'[inMap] = NoShards THEN 0 ELSE inMap
  /\ missed' = [missed EXCEPT ![c] = FALSE]
  /\ Return(c)

-----------------------------------------------------------------------------
ShardsNext ==
  \/ \E c \in Clusters : DeleteService(c) \/ \E eps \in Endpoints \cup {0} : EDSUpdate(c, eps)
  \/ BuildContext
  \/ \E c \in Polled : UpdateServiceShards(c)
  \/ \E g \in Goroutines :
       DeleteEndpointShards(g) \/ GetOrCreateEndpointShard(g) \/ WriteShard(g)

ShardsSpec == ShardsInit /\ [][ShardsNext]_shardVars

-----------------------------------------------------------------------------
(***************************************************************************)
(* The endpoints EDS serves for a cluster.                                 *)
(***************************************************************************)
Served(c) == IF inMap = 0 THEN 0 ELSE heap[inMap][c]

(***************************************************************************)
(* Once no update is under way and the full push a polled registry asked   *)
(* for is done, EDS serves what the registries have, although the poller   *)
(* and the registries write the same shards in any order.  Two races       *)
(* between the two locks remain: endpoints written to an entry another     *)
(* cluster's deleteService took out of the map are not served, and a poll  *)
(* that writes after its service was deleted leaves a shard behind.        *)
(***************************************************************************)
ShardsFollowRegistries ==
  (\A g \in Goroutines : thread[g] = Outside) /\ ~pushPending /\ polling = {} =>
    \A c \in Clusters :
      \/ Served(c) = registry[c]
      \/ missed[c] /\ Served(c) = 0
      \/ c \in Polled /\ registry[c] = 0
=============================================================================
