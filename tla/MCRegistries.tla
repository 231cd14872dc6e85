---------------------------- MODULE MCRegistries ----------------------------
(***************************************************************************)
(* For TLC, the parts of the system that keep a view of state that changes *)
(* elsewhere: the XDS cache, an ADS stream, the ServiceEntry and           *)
(* Kubernetes registries, the endpoint shards, the WorkloadEntry           *)
(* controllers and the agent's secrets.  Every behaviour runs one of them, *)
(* chosen in the initial state, and the others stand still.                *)
(***************************************************************************)
EXTENDS MCXdsCache, AdsStream, MCServiceEntries, KubeEndpoints, EndpointShards, WorkloadEntries,
        SecretManager

CONSTANTS Parts, pod1, pod2, ip1

VARIABLE part

(***************************************************************************)
(* An address that goes from one pod to another.                           *)
(***************************************************************************)
MCEndpointSets == {{}, {<<pod1, ip1>>}, {<<pod2, ip1>>}}

MCVersions == 0..MaxContexts

(***************************************************************************)
(* The set-up of the stream is chosen only where the stream runs.          *)
(***************************************************************************)
RegistriesInit ==
  /\ part \in Parts
  /\ CacheInit /\ StreamInit /\ SEInit /\ KubeInit /\ ShardsInit /\ WleInit /\ SecretInit
  /\ part # "stream" => TRUE \notin {setup[f] : f \in DOMAIN setup} /\ client.nonce = 0

CacheStep ==
  /\ part = "cache" /\ CacheNext
  /\ UNCHANGED <<streamVars, seVars, kubeVars, shardVars, wleVars, secretVars, part>>
StreamStep ==
  /\ part = "stream" /\ StreamNext
  /\ UNCHANGED <<xdsCacheVars, seVars, kubeVars, shardVars, wleVars, secretVars, part>>
\* IndexIsRebuilt says nothing once a goroutine has written from a stale read, so such a
\* behaviour is not followed any further.
EntriesStep ==
  /\ part = "entries" /\ ~raced /\ SENext
  /\ UNCHANGED <<xdsCacheVars, streamVars, kubeVars, shardVars, wleVars, secretVars, part>>
KubeStep ==
  /\ part = "kube" /\ KubeNext
  /\ UNCHANGED <<xdsCacheVars, streamVars, seVars, shardVars, wleVars, secretVars, part>>
ShardsStep ==
  /\ part = "shards" /\ ShardsNext
  /\ UNCHANGED <<xdsCacheVars, streamVars, seVars, kubeVars, wleVars, secretVars, part>>
WorkloadStep ==
  /\ part = "workload" /\ WleNext
  /\ UNCHANGED <<xdsCacheVars, streamVars, seVars, kubeVars, shardVars, secretVars, part>>
SecretStep ==
  /\ part = "secret" /\ SecretNext
  /\ UNCHANGED <<xdsCacheVars, streamVars, seVars, kubeVars, shardVars, wleVars, part>>

RegistriesNext ==
  CacheStep \/ StreamStep \/ EntriesStep \/ KubeStep \/ ShardsStep \/ WorkloadStep \/ SecretStep

registriesVars ==
  <<xdsCacheVars, streamVars, seVars, kubeVars, shardVars, wleVars, secretVars, part>>

RegistriesSpec == RegistriesInit /\ [][RegistriesNext]_registriesVars
=============================================================================
