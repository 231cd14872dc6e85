--------------------------- MODULE RegistryProofs ---------------------------
(***************************************************************************)
(* Proofs about the registries.  EndpointShards, for any number of         *)
(* registries, polled or not: once everything has settled EDS serves what  *)
(* the registries have, but for the two races the property names.          *)
(* KubeEndpoints, for any pods, addresses and Endpoints objects and any    *)
(* number of changes: once everything is handled the pod cache and the     *)
(* endpoints are those of the cluster, but for the histories the           *)
(* properties name.  ServiceEntries, for any objects and any number of     *)
(* changes: once everything is handled the index of instances is the one a *)
(* rebuild would give and the XDS server has it, but for the two races the *)
(* property names.                                                         *)
(***************************************************************************)
EXTENDS EndpointShards, KubeEndpoints, ServiceEntries, TLAPS

Calls == [cluster : Clusters, eps : Nat, ep : Nat]

ShardsTypes ==
  /\ registry    \in [Clusters -> Nat]
  /\ heap        \in Seq([Clusters -> Nat])
  /\ inMap       \in 0..Len(heap)
  /\ thread      \in [Goroutines -> Calls \cup {Outside}]
  /\ pushPending \in BOOLEAN
  /\ polling     \in SUBSET Polled
  /\ missed      \in [Clusters -> BOOLEAN]

Inside(g) == thread[g] # Outside

(***************************************************************************)
(* A registry updates its own shard, to what it has; the pusher updates    *)
(* the shard of a polled registry.                                         *)
(***************************************************************************)
CallsOK ==
  /\ \A g \in Goroutines : Inside(g) => thread[g].ep \in 0..Len(heap)
  /\ \A c \in Clusters : Inside(c) => thread[c].cluster = c /\ thread[c].eps = registry[c]
  /\ Inside(Pusher) => thread[Pusher].cluster \in Polled

(***************************************************************************)
(* What EDS serves for c is what the registry has, or is lost to a race.   *)
(***************************************************************************)
Follows(c) == Served(c) = registry[c] \/ (missed[c] /\ Served(c) = 0)

(***************************************************************************)
(* Goroutine g is about to write what the registry has; if the shards it   *)
(* got are no longer in the map, nothing is served for c meanwhile.        *)
(***************************************************************************)
WillFollow(g, c) ==
  /\ thread[g].eps = registry[c]
  /\ thread[g].ep \notin {0, inMap} => Served(c) = 0

Polls(c) == Inside(Pusher) /\ thread[Pusher].cluster = c

UnpolledFollow ==
  \A c \in Clusters \ Polled : IF Inside(c) THEN WillFollow(c, c) ELSE Follows(c)

(***************************************************************************)
(* For a polled registry the writes of the registry and of the pusher may  *)
(* come in either order: what counts is the last poll, and there is always *)
(* one to come after the registry's own update.                            *)
(***************************************************************************)
PolledFollow ==
  \A c \in Polled :
    \/ registry[c] = 0
    \/ pushPending \/ c \in polling \/ Inside(c)
    \/ IF Polls(c) THEN WillFollow(Pusher, c) ELSE Follows(c)

ShardsIInv == ShardsTypes /\ CallsOK /\ UnpolledFollow /\ PolledFollow

-----------------------------------------------------------------------------
(***************************************************************************)
(* Writing one shard changes nothing else.                                 *)
(***************************************************************************)
LEMMA OneShardWritten ==
  ASSUME ShardsTypes, NEW m \in 1..Len(heap), NEW c \in Clusters, NEW v \in Nat,
         heap' = [heap EXCEPT ![m][c] = v]
  PROVE  /\ heap' \in Seq([Clusters -> Nat]) /\ Len(heap') = Len(heap)
         /\ \A n \in 1..Len(heap), d \in Clusters :
              heap'[n][d] = IF n = m /\ d = c THEN v ELSE heap[n][d]
  <1>1. heap[m] \in [Clusters -> Nat]
    BY DEF ShardsTypes
  <1>2. [heap[m] EXCEPT ![c] = v] \in [Clusters -> Nat]
    BY <1>1
  <1>3. heap' = [heap EXCEPT ![m] = [heap[m] EXCEPT ![c] = v]]
    OBVIOUS
  <1>4. heap' \in Seq([Clusters -> Nat]) /\ Len(heap') = Len(heap)
    BY <1>2, <1>3 DEF ShardsTypes
  <1>5. heap \in Seq([Clusters -> Nat])
    BY DEF ShardsTypes
  <1>6. \A n \in 1..Len(heap) : heap'[n] = IF n = m THEN [heap[m] EXCEPT ![c] = v] ELSE heap[n]
    BY <1>3, <1>5
  <1>7. \A n \in 1..Len(heap) : heap[n] \in [Clusters -> Nat]
    BY <1>5
  <1> QED
    BY <1>4, <1>6, <1>7

(***************************************************************************)
(* What is known of a call under way.                                      *)
(***************************************************************************)
LEMMA CallType ==
  ASSUME ShardsTypes, CallsOK, NEW g \in Goroutines, Inside(g)
  PROVE  /\ thread[g] \in Calls
         /\ thread[g].cluster \in Clusters /\ thread[g].eps \in Nat /\ thread[g].ep \in 0..Len(heap)
         /\ g \in Clusters \/ g = Pusher
  BY DEF ShardsTypes, CallsOK, Inside, Calls, Goroutines

(***************************************************************************)
(* A step of somebody else leaves what is served for d, and the calls      *)
(* about it; if it replaces the shards in the map nothing is served for d. *)
(***************************************************************************)
NotAbout(d) ==
  /\ registry'[d] = registry[d] /\ missed'[d] = missed[d]
  /\ Served(d)' = Served(d)
  /\ inMap' = inMap \/ Served(d) = 0

(***************************************************************************)
(* A step that is not about a registry leaves what EDS serves for it.      *)
(***************************************************************************)
LEMMA FollowsKept ==
  ASSUME NEW d, NotAbout(d)
  PROVE  /\ Follows(d) => Follows(d)'
         /\ \A g : thread'[g] = thread[g] /\ WillFollow(g, d) => WillFollow(g, d)'
  BY DEF NotAbout, Follows, WillFollow

(***************************************************************************)
(* The invariant holds after a step of goroutine g about cluster c, if it  *)
(* is not about the others and does right by c.                            *)
(***************************************************************************)
LEMMA StepKeeps ==
  ASSUME ShardsIInv, NEW g \in Goroutines, NEW c \in Clusters,
         g = c \/ (g = Pusher /\ c \in Polled),
         \A h \in Goroutines : h # g => thread'[h] = thread[h],
         Inside(Pusher) => g # Pusher \/ thread[Pusher].cluster = c,
         Inside(Pusher)' => g # Pusher \/ thread'[Pusher].cluster = c,
         \A d \in Clusters : d # c => NotAbout(d),
         pushPending => pushPending', \A d \in polling : d # c => d \in polling',
         c \notin Polled => IF Inside(c)' THEN WillFollow(c, c)' ELSE Follows(c)',
         c \in Polled => \/ registry'[c] = 0 \/ pushPending' \/ c \in polling' \/ Inside(c)'
                         \/ IF Polls(c)' THEN WillFollow(Pusher, c)' ELSE Follows(c)'
  PROVE  UnpolledFollow' /\ PolledFollow'
  <1>1. Pusher \notin Clusters /\ Polled \subseteq Clusters /\ Pusher \in Goroutines
    BY ShardsAssumption DEF Goroutines
  <1>2. ASSUME NEW d \in Clusters \ Polled PROVE IF Inside(d)' THEN WillFollow(d, d)' ELSE Follows(d)'
    <2>1. CASE d = c
      BY <1>2, <2>1
    <2>2. CASE d # c
      <3>1. d # g /\ thread'[d] = thread[d]
        BY <1>1, <1>2, <2>2 DEF Goroutines
      <3>2. IF Inside(d) THEN WillFollow(d, d) ELSE Follows(d)
        BY <1>2 DEF ShardsIInv, UnpolledFollow
      <3> QED BY <2>2, <3>1, <3>2, FollowsKept DEF Inside
    <2> QED BY <2>1, <2>2
  <1>3. ASSUME NEW d \in Polled
        PROVE  \/ registry'[d] = 0 \/ pushPending' \/ d \in polling' \/ Inside(d)'
               \/ IF Polls(d)' THEN WillFollow(Pusher, d)' ELSE Follows(d)'
    <2>1. CASE d = c
      BY <2>1
    <2>2. CASE d # c
      <3>1. d # g /\ thread'[d] = thread[d] /\ d \in Clusters
        BY <1>1, <2>2 DEF Goroutines
      <3>2. NotAbout(d)
        BY <2>2, <3>1
      <3>3. CASE Polls(d)
        <4>1. g # Pusher /\ thread'[Pusher] = thread[Pusher]
          BY <1>1, <2>2, <3>3 DEF Polls
        <4> QED BY <2>2, <3>1, <3>2, <3>3, <4>1, FollowsKept
                DEF ShardsIInv, PolledFollow, Polls, Inside, NotAbout
      <3>4. CASE ~Polls(d)
        <4>1. ~Polls(d)'
          BY <1>1, <2>2, <3>4 DEF Polls, Inside
        <4> QED BY <2>2, <3>1, <3>2, <3>4, <4>1, FollowsKept
                DEF ShardsIInv, PolledFollow, Inside, NotAbout
      <3> QED BY <3>3, <3>4
    <2> QED BY <2>1, <2>2
  <1> QED BY <1>2, <1>3 DEF UnpolledFollow, PolledFollow

-----------------------------------------------------------------------------
(***************************************************************************)
(* The registries start empty, and so does EDS.                            *)
(***************************************************************************)
LEMMA ShardsInitIInv == ShardsInit => ShardsIInv
  <1> SUFFICES ASSUME ShardsInit PROVE ShardsIInv
    OBVIOUS
  <1>1. /\ heap = <<>> /\ heap \in Seq([Clusters -> Nat]) /\ Len(heap) = 0 /\ inMap = 0
        /\ registry = [c \in Clusters |-> 0] /\ \A g \in Goroutines : thread[g] = Outside
        /\ pushPending = FALSE /\ polling = {} /\ missed = [c \in Clusters |-> FALSE]
    BY DEF ShardsInit, NoShards
  <1>2. \A c \in Clusters : registry[c] = 0
    BY <1>1
  <1>3. ShardsTypes
    <2>1. thread \in [Goroutines -> Calls \cup {Outside}]
      BY DEF ShardsInit
    <2>2. inMap \in 0..Len(heap) /\ registry \in [Clusters -> Nat]
      BY <1>1
    <2> QED BY <1>1, <2>1, <2>2, Zenon DEF ShardsTypes
  <1>4. Pusher \in Goroutines /\ \A c \in Clusters : c \in Goroutines
    BY DEF Goroutines
  <1>5. CallsOK
    BY <1>1, <1>4 DEF CallsOK, Inside
  <1>6. UnpolledFollow /\ PolledFollow
    BY <1>1, <1>2, <1>4, ShardsAssumption DEF UnpolledFollow, PolledFollow, Inside, Follows, Served
  <1> QED BY <1>3, <1>5, <1>6 DEF ShardsIInv

(***************************************************************************)
(* The registry has something new and enters edsCacheUpdate with it.       *)
(***************************************************************************)
LEMMA EDSUpdateIInv ==
  ASSUME ShardsIInv, NEW c \in Clusters, NEW eps \in Endpoints \cup {0}, EDSUpdate(c, eps)
  PROVE  ShardsIInv'
  <1> DEFINE call == [cluster |-> c, eps |-> eps, ep |-> 0]
  <1>1. /\ registry' = [registry EXCEPT ![c] = eps] /\ thread' = [thread EXCEPT ![c] = call]
        /\ UNCHANGED <<heap, inMap, pushPending, polling, missed>>
    BY DEF EDSUpdate
  <1>2. eps \in Nat /\ c \in Goroutines /\ c # Pusher
    BY ShardsAssumption DEF Goroutines
  <1>3. call \in Calls /\ call # Outside /\ call.cluster = c /\ call.eps = eps /\ call.ep = 0
    BY <1>2, ShardsAssumption DEF Calls
  <1> HIDE DEF call
  <1>4. ShardsTypes'
    BY <1>1, <1>2, <1>3 DEF ShardsIInv, ShardsTypes
  <1>5. /\ thread'[c] = call /\ Inside(c)' /\ registry'[c] = eps
        /\ \A h \in Goroutines : h # c => thread'[h] = thread[h]
        /\ \A d \in Clusters : d # c => registry'[d] = registry[d]
    BY <1>1, <1>2, <1>3 DEF ShardsIInv, ShardsTypes, Inside
  <1>6. CallsOK'
    BY <1>1, <1>2, <1>3, <1>5 DEF ShardsIInv, ShardsTypes, CallsOK, Inside, Goroutines
  <1>7. \A d \in Clusters : d # c => NotAbout(d)
    BY <1>1, <1>5 DEF NotAbout, Served
  <1>8. WillFollow(c, c)'
    BY <1>3, <1>5 DEF WillFollow
  <1>9. UnpolledFollow' /\ PolledFollow'
    BY <1>1, <1>2, <1>5, <1>7, <1>8, StepKeeps
  <1> QED BY <1>4, <1>6, <1>9 DEF ShardsIInv

(***************************************************************************)
(* The full push.                                                          *)
(***************************************************************************)
LEMMA BuildContextIInv ==
  ASSUME ShardsIInv, BuildContext
  PROVE  ShardsIInv'
  <1>1. /\ pushPending' = FALSE /\ polling' = {c \in Polled : registry[c] # 0}
        /\ UNCHANGED <<registry, heap, inMap, thread, missed>>
    BY DEF BuildContext
  <1>2. ShardsTypes'
    BY <1>1, Zenon DEF ShardsIInv, ShardsTypes
  <1>3. CallsOK' /\ UnpolledFollow'
    BY <1>1 DEF ShardsIInv, CallsOK, UnpolledFollow, Inside, WillFollow, Follows, Served
  <1>4. PolledFollow'
    BY <1>1 DEF PolledFollow
  <1> QED BY <1>2, <1>3, <1>4 DEF ShardsIInv

(***************************************************************************)
(* The full push lists a polled registry.                                  *)
(***************************************************************************)
LEMMA UpdateServiceShardsIInv ==
  ASSUME ShardsIInv, NEW c \in Polled, UpdateServiceShards(c)
  PROVE  ShardsIInv'
  <1> DEFINE call == [cluster |-> c, eps |-> registry[c], ep |-> 0]
  <1>1. /\ thread[Pusher] = Outside /\ thread' = [thread EXCEPT ![Pusher] = call]
        /\ polling' = polling \ {c}
        /\ UNCHANGED <<registry, heap, inMap, pushPending, missed>>
    BY DEF UpdateServiceShards
  <1>2. c \in Clusters /\ Pusher \in Goroutines /\ Pusher \notin Clusters /\ registry[c] \in Nat
    BY ShardsAssumption DEF Goroutines, ShardsIInv, ShardsTypes
  <1>3. call \in Calls /\ call # Outside /\ call.cluster = c /\ call.eps = registry[c] /\ call.ep = 0
    BY <1>2, ShardsAssumption DEF Calls
  <1> HIDE DEF call
  <1>4. ShardsTypes'
    BY <1>1, <1>2, <1>3 DEF ShardsIInv, ShardsTypes
  <1>5. /\ thread'[Pusher] = call /\ Inside(Pusher)' /\ Polls(c)'
        /\ \A h \in Goroutines : h # Pusher => thread'[h] = thread[h]
    BY <1>1, <1>2, <1>3 DEF ShardsIInv, ShardsTypes, Inside, Polls
  <1>6. CallsOK'
    BY <1>1, <1>2, <1>3, <1>5 DEF ShardsIInv, ShardsTypes, CallsOK, Inside, Goroutines
  <1>7. \A d \in Clusters : d # c => NotAbout(d)
    BY <1>1 DEF NotAbout, Served
  <1>8. WillFollow(Pusher, c)'
    BY <1>1, <1>3, <1>5 DEF WillFollow
  <1>9. UnpolledFollow' /\ PolledFollow'
    BY <1>1, <1>2, <1>3, <1>5, <1>7, <1>8, StepKeeps DEF Inside
  <1> QED BY <1>4, <1>6, <1>9 DEF ShardsIInv

(***************************************************************************)
(* What a goroutine that leaves edsCacheUpdate leaves behind.              *)
(***************************************************************************)
LEMMA Returns ==
  ASSUME ShardsIInv, NEW g \in Goroutines, Inside(g), Return(g),
         NEW c \in Clusters, c = thread[g].cluster,
         UNCHANGED <<registry, inMap>>,
         heap' \in Seq([Clusters -> Nat]), Len(heap') = Len(heap),
         NEW b \in BOOLEAN, missed' = [missed EXCEPT ![c] = b],
         \A d \in Clusters : d # c => Served(d)' = Served(d),
         WillFollow(g, c) => Follows(c)'
  PROVE  ShardsIInv'
  <1>1. /\ thread' = [thread EXCEPT ![g] = Outside] /\ polling' = polling
        /\ pushPending' = (pushPending \/ g \in Polled)
    BY DEF Return
  <1>2. (g = c \/ (g = Pusher /\ c \in Polled)) /\ Pusher \notin Clusters
    BY CallType, ShardsAssumption DEF ShardsIInv, CallsOK, Inside
  <1>3. /\ ~Inside(g)' /\ \A h \in Goroutines : h # g => thread'[h] = thread[h]
        /\ thread' \in [Goroutines -> Calls \cup {Outside}]
    BY <1>1 DEF ShardsIInv, ShardsTypes, Inside
  <1>4. ShardsTypes'
    <2>1. pushPending' \in BOOLEAN
      BY <1>1, Zenon DEF ShardsIInv, ShardsTypes
    <2>2. missed' \in [Clusters -> BOOLEAN]
      BY <1>2, Zenon DEF ShardsIInv, ShardsTypes
    <2>3. inMap' \in 0..Len(heap')
      BY DEF ShardsIInv, ShardsTypes
    <2> QED BY <1>1, <1>3, <2>1, <2>2, <2>3 DEF ShardsIInv, ShardsTypes
  <1>5. CallsOK'
    BY <1>2, <1>3 DEF ShardsIInv, CallsOK, Inside, Goroutines
  <1>6. \A d \in Clusters : d # c => NotAbout(d)
    BY <1>2 DEF NotAbout, ShardsIInv, ShardsTypes
  <1>7. c \notin Polled => ~Inside(c)' /\ Follows(c)'
    <2>1. SUFFICES ASSUME c \notin Polled PROVE ~Inside(c)' /\ Follows(c)'
      OBVIOUS
    <2>2. g = c /\ WillFollow(g, c)
      BY <1>2, <2>1 DEF ShardsIInv, UnpolledFollow
    <2> QED BY <1>3, <2>2
  <1>8. c \in Polled => \/ registry'[c] = 0 \/ pushPending' \/ c \in polling' \/ Inside(c)'
                        \/ ~Polls(c)' /\ Follows(c)'
    <2>1. SUFFICES ASSUME c \in Polled, g = Pusher, registry[c] # 0, ~pushPending, c \notin polling,
                          ~Inside(c)
                   PROVE  ~Polls(c)' /\ Follows(c)'
      BY <1>1, <1>2, <1>3 DEF Inside, Goroutines
    <2>2. WillFollow(Pusher, c)
      BY <2>1 DEF ShardsIInv, PolledFollow, Polls
    <2> QED BY <1>3, <2>1, <2>2 DEF Polls
  <1>9. UnpolledFollow' /\ PolledFollow'
    <2>1. Inside(Pusher)' => g # Pusher
      BY <1>3
    <2>2. pushPending => pushPending'
      BY <1>1
    <2> QED BY <1>1, <1>2, <1>3, <1>6, <1>7, <1>8, <2>1, <2>2, StepKeeps
  <1> QED BY <1>4, <1>5, <1>9 DEF ShardsIInv

(***************************************************************************)
(* An update to no endpoints deletes the shard.                            *)
(***************************************************************************)
LEMMA DeleteEndpointShardsIInv ==
  ASSUME ShardsIInv, NEW g \in Goroutines, DeleteEndpointShards(g)
  PROVE  ShardsIInv'
  <1>1. PICK c \in Clusters : c = thread[g].cluster
    BY CallType DEF DeleteEndpointShards, Inside, ShardsIInv
  <1>2. /\ Inside(g) /\ thread[g].eps = 0 /\ Return(g) /\ UNCHANGED <<registry, inMap>>
        /\ heap' = IF inMap = 0 THEN heap ELSE [heap EXCEPT ![inMap][c] = 0]
        /\ missed' = [missed EXCEPT ![c] = FALSE]
    BY <1>1 DEF DeleteEndpointShards, Inside
  <1>3. /\ heap' \in Seq([Clusters -> Nat]) /\ Len(heap') = Len(heap)
        /\ Served(c)' = 0 /\ \A d \in Clusters : d # c => Served(d)' = Served(d)
    <2>1. CASE inMap = 0
      BY <1>2, <2>1 DEF ShardsIInv, ShardsTypes, Served
    <2>2. CASE inMap # 0
      <3>1. inMap \in 1..Len(heap) /\ 0 \in Nat /\ heap' = [heap EXCEPT ![inMap][c] = 0]
        BY <1>2, <2>2 DEF ShardsIInv, ShardsTypes
      <3>2. /\ heap' \in Seq([Clusters -> Nat]) /\ Len(heap') = Len(heap)
            /\ \A n \in 1..Len(heap), d \in Clusters :
                 heap'[n][d] = IF n = inMap /\ d = c THEN 0 ELSE heap[n][d]
        BY <3>1, OneShardWritten, ZenonT(60) DEF ShardsIInv
      <3> QED BY <1>2, <2>2, <3>1, <3>2 DEF Served
    <2> QED BY <2>1, <2>2
  <1>4. WillFollow(g, c) => Follows(c)'
    BY <1>2, <1>3 DEF WillFollow, Follows
  <1>5. FALSE \in BOOLEAN
    OBVIOUS
  <1> QED BY <1>1, <1>2, <1>3, <1>4, <1>5, Returns

(***************************************************************************)
(* The write of the shard: to the shards in the map, or lost.              *)
(***************************************************************************)
LEMMA WriteShardIInv ==
  ASSUME ShardsIInv, NEW g \in Goroutines, WriteShard(g)
  PROVE  ShardsIInv'
  <1>1. PICK c \in Clusters : c = thread[g].cluster
    BY CallType DEF WriteShard, Inside, ShardsIInv
  <1>2. PICK m \in 1..Len(heap) : m = thread[g].ep
    BY CallType DEF WriteShard, Inside, ShardsIInv, ShardsTypes
  <1>3. PICK eps \in Nat : eps = thread[g].eps
    BY CallType DEF WriteShard, Inside, ShardsIInv
  <1>4. /\ Inside(g) /\ Return(g) /\ UNCHANGED <<registry, inMap>>
        /\ heap' = [heap EXCEPT ![m][c] = eps]
        /\ missed' = [missed EXCEPT ![c] = m # inMap]
    BY <1>1, <1>2, <1>3 DEF WriteShard, Inside
  <1>5. /\ heap' \in Seq([Clusters -> Nat]) /\ Len(heap') = Len(heap)
        /\ \A n \in 1..Len(heap), d \in Clusters :
             heap'[n][d] = IF n = m /\ d = c THEN eps ELSE heap[n][d]
    BY <1>4, OneShardWritten, ZenonT(60) DEF ShardsIInv
  <1>6. inMap \in 0..Len(heap) /\ missed'[c] = (m # inMap)
    BY <1>4 DEF ShardsIInv, ShardsTypes
  <1>7. \A d \in Clusters : d # c => Served(d)' = Served(d)
    BY <1>4, <1>5, <1>6 DEF Served
  <1>8. WillFollow(g, c) => Follows(c)'
    <2>1. CASE m = inMap
      BY <1>2, <1>3, <1>4, <1>5, <1>6, <2>1 DEF WillFollow, Follows, Served
    <2>2. CASE m # inMap
      <3>1. Served(c)' = Served(c)
        BY <1>4, <1>5, <1>6, <2>2 DEF Served
      <3>2. thread[g].ep \notin {0, inMap}
        BY <1>2, <2>2
      <3>3. missed'[c]
        BY <1>6, <2>2, Zenon
      <3> QED BY <3>1, <3>2, <3>3 DEF WillFollow, Follows
    <2> QED BY <2>1, <2>2
  <1>9. (m # inMap) \in BOOLEAN
    OBVIOUS
  <1> QED BY <1>1, <1>4, <1>5, <1>7, <1>8, <1>9, Returns

(***************************************************************************)
(* getOrCreateEndpointShard: a new entry serves nothing, as no entry did.  *)
(***************************************************************************)
LEMMA GetOrCreateIInv ==
  ASSUME ShardsIInv, NEW g \in Goroutines, GetOrCreateEndpointShard(g)
  PROVE  ShardsIInv'
  <1>1. PICK c \in Clusters : c = thread[g].cluster
    BY CallType DEF GetOrCreateEndpointShard, Inside, ShardsIInv
  <1>2. /\ Inside(g) /\ thread[g].ep = 0 /\ thread' = [thread EXCEPT ![g].ep = inMap']
        /\ heap' = IF inMap = 0 THEN Append(heap, NoShards) ELSE heap
        /\ inMap' = IF inMap = 0 THEN Len(heap) + 1 ELSE inMap
        /\ UNCHANGED <<registry, pushPending, polling, missed>>
    BY DEF GetOrCreateEndpointShard, Inside
  <1>3. NoShards \in [Clusters -> Nat] /\ \A d \in Clusters : NoShards[d] = 0
    BY DEF NoShards
  <1>4. /\ heap' \in Seq([Clusters -> Nat]) /\ Len(heap') \in Nat /\ Len(heap) <= Len(heap')
        /\ inMap' \in 1..Len(heap') /\ \A d \in Clusters : Served(d)' = Served(d)
        /\ inMap = 0 => heap'[inMap'] = NoShards
    <2>1. CASE inMap = 0
      <3>1. /\ heap' \in Seq([Clusters -> Nat]) /\ Len(heap') = Len(heap) + 1
            /\ heap'[Len(heap) + 1] = NoShards /\ inMap' = Len(heap) + 1 /\ Len(heap) \in Nat
        BY <1>2, <1>3, <2>1 DEF ShardsIInv, ShardsTypes
      <3> QED BY <1>3, <2>1, <3>1 DEF Served
    <2>2. CASE inMap # 0
      BY <1>2, <2>2 DEF ShardsIInv, ShardsTypes, Served
    <2> QED BY <2>1, <2>2
  <1>5. /\ thread[g] \in Calls /\ (g = c \/ (g = Pusher /\ c \in Polled)) /\ Pusher \notin Clusters
    BY <1>1, <1>2, CallType, ShardsAssumption DEF ShardsIInv, CallsOK, Inside
  <1> DEFINE call == [thread[g] EXCEPT !.ep = inMap']
  <1>6. call \in Calls /\ call.cluster = c /\ call.eps = thread[g].eps /\ call.ep = inMap'
    <2>1. inMap' \in Nat
      BY <1>4
    <2> QED BY <1>1, <1>5, <2>1 DEF Calls
  <1>7. call # Outside
    BY <1>6, ShardsAssumption DEF Calls
  <1>8. thread' = [thread EXCEPT ![g] = call]
    BY <1>2
  <1> HIDE DEF call
  <1>9. /\ thread' \in [Goroutines -> Calls \cup {Outside}] /\ thread'[g] = call /\ Inside(g)'
        /\ \A h \in Goroutines : h # g => thread'[h] = thread[h]
    BY <1>6, <1>7, <1>8 DEF ShardsIInv, ShardsTypes, Inside
  <1>10. ShardsTypes'
    BY <1>2, <1>4, <1>9 DEF ShardsIInv, ShardsTypes
  <1>11. CallsOK'
    <2>1. \A h \in Goroutines : Inside(h)' => thread'[h].ep \in 0..Len(heap')
      <3>1. inMap' \in 0..Len(heap') /\ \A n \in 0..Len(heap) : n \in 0..Len(heap')
        BY <1>4 DEF ShardsIInv, ShardsTypes
      <3> QED BY <1>6, <1>9, <3>1 DEF ShardsIInv, CallsOK, Inside
    <2>2. \A d \in Clusters : Inside(d)' => thread'[d].cluster = d /\ thread'[d].eps = registry'[d]
      BY <1>1, <1>2, <1>5, <1>6, <1>9 DEF ShardsIInv, CallsOK, Inside, Goroutines
    <2>3. Inside(Pusher)' => thread'[Pusher].cluster \in Polled
      BY <1>1, <1>2, <1>5, <1>6, <1>9 DEF ShardsIInv, CallsOK, Inside, Goroutines
    <2> QED BY <2>1, <2>2, <2>3 DEF CallsOK
  <1>12. \A d \in Clusters : NotAbout(d)
    BY <1>2, <1>4 DEF NotAbout, Served
  <1>13. WillFollow(g, c) => WillFollow(g, c)'
    BY <1>2, <1>6, <1>9 DEF WillFollow
  <1>14. c \notin Polled => Inside(c)' /\ WillFollow(c, c)'
    BY <1>2, <1>5, <1>9, <1>13 DEF ShardsIInv, UnpolledFollow
  <1>15. c \in Polled => \/ registry'[c] = 0 \/ pushPending' \/ c \in polling' \/ Inside(c)'
                         \/ Polls(c)' /\ WillFollow(Pusher, c)'
    BY <1>1, <1>2, <1>5, <1>6, <1>9, <1>13 DEF ShardsIInv, PolledFollow, Polls, Inside, Goroutines
  <1>16. UnpolledFollow' /\ PolledFollow'
    BY <1>1, <1>2, <1>5, <1>6, <1>9, <1>12, <1>14, <1>15, StepKeeps
  <1> QED BY <1>10, <1>11, <1>16 DEF ShardsIInv

(***************************************************************************)
(* deleteService takes the entry out of the map with its last shard, so    *)
(* nothing was served for the other clusters.                              *)
(***************************************************************************)
LEMMA DeleteServiceIInv ==
  ASSUME ShardsIInv, NEW c \in Clusters, DeleteService(c)
  PROVE  ShardsIInv'
  <1>1. /\ thread[c] = Outside /\ registry' = [registry EXCEPT ![c] = 0]
        /\ heap' = IF inMap = 0 THEN heap ELSE [heap EXCEPT ![inMap][c] = 0]
        /\ inMap' = IF inMap # 0 /\ heap'[inMap] = NoShards THEN 0 ELSE inMap
        /\ missed' = [missed EXCEPT ![c] = FALSE]
        /\ thread' = [thread EXCEPT ![c] = Outside] /\ polling' = polling
        /\ pushPending' = (pushPending \/ c \in Polled)
    BY DEF DeleteService, Return
  <1>2. c \in Goroutines /\ c # Pusher /\ Pusher \notin Clusters
    BY ShardsAssumption DEF Goroutines
  <1>3. /\ heap' \in Seq([Clusters -> Nat]) /\ Len(heap') = Len(heap)
        /\ Served(c)' = 0
        /\ \A d \in Clusters : d # c => Served(d)' = Served(d) /\ (inMap' = inMap \/ Served(d) = 0)
        /\ inMap' \in {0, inMap}
    <2>1. CASE inMap = 0
      BY <1>1, <2>1 DEF ShardsIInv, ShardsTypes, Served
    <2>2. CASE inMap # 0
      <3>1. inMap \in 1..Len(heap) /\ 0 \in Nat /\ heap' = [heap EXCEPT ![inMap][c] = 0]
        BY <1>1, <2>2 DEF ShardsIInv, ShardsTypes
      <3>2. /\ heap' \in Seq([Clusters -> Nat]) /\ Len(heap') = Len(heap)
            /\ \A n \in 1..Len(heap), d \in Clusters :
                 heap'[n][d] = IF n = inMap /\ d = c THEN 0 ELSE heap[n][d]
        BY <3>1, OneShardWritten, ZenonT(60) DEF ShardsIInv
      <3>3. \A d \in Clusters : NoShards[d] = 0
        BY DEF NoShards
      <3>4. CASE heap'[inMap] = NoShards
        <4>1. inMap' = 0 /\ \A d \in Clusters : heap'[inMap][d] = 0
          BY <1>1, <2>2, <3>3, <3>4
        <4> QED BY <2>2, <3>1, <3>2, <4>1 DEF Served
      <3>5. CASE heap'[inMap] # NoShards
        <4>1. inMap' = inMap
          BY <1>1, <3>5
        <4> QED BY <2>2, <3>1, <3>2, <4>1 DEF Served
      <3> QED BY <3>4, <3>5
    <2> QED BY <2>1, <2>2
  <1>4. /\ registry' \in [Clusters -> Nat] /\ registry'[c] = 0
        /\ \A d \in Clusters : d # c => registry'[d] = registry[d]
    BY <1>1 DEF ShardsIInv, ShardsTypes
  <1>5. /\ thread' = thread /\ ~Inside(c)'
    BY <1>1, <1>2 DEF ShardsIInv, ShardsTypes, Inside
  <1>6. ShardsTypes'
    <2>1. pushPending' \in BOOLEAN
      BY <1>1, Zenon DEF ShardsIInv, ShardsTypes
    <2>2. missed' \in [Clusters -> BOOLEAN]
      BY <1>1, Zenon DEF ShardsIInv, ShardsTypes
    <2>3. inMap' \in 0..Len(heap')
      BY <1>3 DEF ShardsIInv, ShardsTypes
    <2> QED BY <1>1, <1>3, <1>4, <1>5, <2>1, <2>2, <2>3 DEF ShardsIInv, ShardsTypes
  <1>7. CallsOK'
    BY <1>3, <1>4, <1>5 DEF ShardsIInv, CallsOK, Inside
  <1>8. \A d \in Clusters : d # c => NotAbout(d)
    BY <1>1, <1>3, <1>4 DEF NotAbout, ShardsIInv, ShardsTypes
  <1>9. Follows(c)'
    BY <1>3, <1>4 DEF Follows
  <1>10. pushPending => pushPending'
    BY <1>1
  <1>11. UnpolledFollow' /\ PolledFollow'
    BY <1>1, <1>2, <1>4, <1>5, <1>8, <1>9, <1>10, StepKeeps
  <1> QED BY <1>6, <1>7, <1>11 DEF ShardsIInv

-----------------------------------------------------------------------------
(***************************************************************************)
(* Every step keeps the invariant of the shards.                           *)
(***************************************************************************)
LEMMA ShardsNextIInv == ShardsIInv /\ [ShardsNext]_shardVars => ShardsIInv'
  <1> SUFFICES ASSUME ShardsIInv, [ShardsNext]_shardVars PROVE ShardsIInv'
    OBVIOUS
  <1>1. CASE \E c \in Clusters : DeleteService(c) \/ \E eps \in Endpoints \cup {0} : EDSUpdate(c, eps)
    BY <1>1, DeleteServiceIInv, EDSUpdateIInv
  <1>2. CASE BuildContext
    BY <1>2, BuildContextIInv
  <1>3. CASE \E c \in Polled : UpdateServiceShards(c)
    BY <1>3, UpdateServiceShardsIInv
  <1>4. CASE \E g \in Goroutines :
               DeleteEndpointShards(g) \/ GetOrCreateEndpointShard(g) \/ WriteShard(g)
    BY <1>4, DeleteEndpointShardsIInv, GetOrCreateIInv, WriteShardIInv
  <1>5. CASE UNCHANGED shardVars
    BY <1>5 DEF shardVars, ShardsIInv, ShardsTypes, CallsOK, UnpolledFollow, PolledFollow,
                Inside, Polls, WillFollow, Follows, Served
  <1> QED BY <1>1, <1>2, <1>3, <1>4, <1>5 DEF ShardsNext

(***************************************************************************)
(* Once no call of edsCacheUpdate and no full push is under way, what EDS  *)
(* serves is what the registries have (but for the two races named), for   *)
(* any number of registries and whichever of them are polled.              *)
(***************************************************************************)
THEOREM ShardsAlwaysFollow == ShardsSpec => []ShardsFollowRegistries
  <1>1. ShardsIInv => ShardsFollowRegistries
    BY ShardsAssumption DEF ShardsIInv, ShardsFollowRegistries, UnpolledFollow, PolledFollow,
                            Inside, Polls, Follows, Goroutines
  <1> QED BY <1>1, ShardsInitIInv, ShardsNextIInv, PTL DEF ShardsSpec

-----------------------------------------------------------------------------
(***************************************************************************)
(* The Kubernetes registry. What is still to be handled is in two           *)
(* sequences: the queue, and behind it the notifications of an informer.    *)
(* Has: a task of B is in a sequence. After: every task of A is followed    *)
(* by one of B, so that B is handled last.                                  *)
(***************************************************************************)
Has(s, B) == \E i \in 1..Len(s) : s[i] \in B

After(q, n, A, B) ==
  /\ \A i \in 1..Len(q) : q[i] \in A => Has(n, B) \/ \E j \in (i+1)..Len(q) : q[j] \in B
  /\ \A i \in 1..Len(n) : n[i] \in A => \E j \in (i+1)..Len(n) : n[j] \in B

Pends(k, B) == Has(queued, B) \/ Has(notes[k], B)

Events      == {"add", "update", "delete"}
PodTasks    == {"pod"} \X Events \X (KPods \X PodSpecs)
EpTasks     == {"ep"} \X Events \X EndpointSets
SvcTasks    == {"svc"} \X {"add", "delete"} \X {Nil}
ResyncTasks == {"resync"} \X {"update"} \X EndpointSets
KubeTasks   == PodTasks \cup EpTasks \cup SvcTasks \cup ResyncTasks

KubeTypes ==
  /\ podInf \in [KPods -> PodSpecs \cup {Nil}]
  /\ epInf \in EndpointSets \cup {Nil}
  /\ svcInf \in BOOLEAN
  /\ notes = [k \in {"pod", "ep", "svc"} |-> notes[k]]
  /\ notes["pod"] \in Seq(PodTasks)
  /\ notes["ep"] \in Seq(EpTasks)
  /\ notes["svc"] \in Seq(SvcTasks)
  /\ queued \in Seq(KubeTasks)
  /\ podsByIP \in [IPs -> KPods \cup {Nil}]
  /\ IPByPods \in [KPods -> IPs \cup {Nil}]
  /\ needResync \subseteq IPs
  /\ readItem \in EndpointSets \cup {Nil}
  /\ itemStale \in BOOLEAN /\ overtaken \in BOOLEAN
  /\ eds \subseteq KPods \X IPs

(***************************************************************************)
(* The tasks that delete pod p, the ones that bring it, and those of other  *)
(* pods that were queued with address i.                                    *)
(***************************************************************************)
Deletes(p)   == {t \in PodTasks : t[2] = "delete" /\ t[3][1] = p}
Comes(p)     == {t \in PodTasks : t[2] # "delete" /\ t[3][1] = p}
Claims(p, i) == {t \in PodTasks : t[3][1] # p /\ t[3][2].ip = i}

Live(p) == podInf[p] # Nil /\ podInf[p].ip # Nil /\ ~podInf[p].leaving

StoreIPsDiffer ==
  \A p, q \in KPods : p # q /\ podInf[p] # Nil /\ podInf[q] # Nil /\ podInf[p].ip # Nil
    => podInf[p].ip # podInf[q].ip

OneIPPerPod == \A i \in IPs : podsByIP[i] # Nil => IPByPods[podsByIP[i]] = i

(***************************************************************************)
(* Whatever is queued that could take the entry of a pod that is there,     *)
(* the deletion of an earlier pod of that name or a task of the pod that    *)
(* had its address before, is followed by a task that brings the pod,       *)
(* which is handled as the store has it by then.                            *)
(***************************************************************************)
PodsCome ==
  \A p \in KPods : podInf[p] # Nil =>
    /\ After(queued, notes["pod"], Deletes(p), Comes(p))
    /\ podInf[p].ip # Nil =>
         After(queued, notes["pod"], Claims(p, podInf[p].ip), Comes(p))

PodsCached ==
  \A p \in KPods : Live(p) /\ p \notin deprived =>
    podsByIP[podInf[p].ip] = p \/ Pends("pod", Comes(p))

PodInv == KubeTypes /\ StoreIPsDiffer /\ OneIPPerPod /\ PodsCome /\ PodsCached

EpGone    == {t \in EpTasks : t[2] = "delete"}
EpComes   == {t \in EpTasks : t[2] # "delete"}
EpQueue   == EpTasks \cup ResyncTasks
SvcGone   == {t \in SvcTasks : t[2] = "delete"}
SvcComes  == {t \in SvcTasks : t[2] # "delete"}
Fresh(ep) == {t \in ResyncTasks : t[3] = ep}
Stale(ep) == {t \in ResyncTasks : t[3] # ep}

(***************************************************************************)
(* The last notification of an object agrees with the store; an object      *)
(* that queueEndpointEvent read and that is not the latest is followed by   *)
(* a notification of a later one, unless it was overtaken.                  *)
(***************************************************************************)
EpMatches ==
  /\ epInf # Nil => After(queued, notes["ep"], EpGone, EpComes)
  /\ epInf = Nil => After(queued, notes["ep"], EpComes, EpGone)

SvcMatches == svcInf => After(queued, notes["svc"], SvcGone, SvcComes)

StaleFollowed == ~overtaken => After(queued, notes["ep"], Stale(epInf), EpTasks)

ReadFresh == readItem \notin {Nil, epInf} /\ ~itemStale => notes["ep"] # <<>>

Listed == IF epInf = Nil THEN {} ELSE epInf

NoneInvented == ~overtaken => eds \subseteq Listed \/ Pends("ep", EpTasks)

(***************************************************************************)
(* The endpoints will be built again from the latest object.                *)
(***************************************************************************)
Redo == \/ Pends("ep", EpComes) \/ Pends("svc", SvcComes)
        \/ Has(queued, Fresh(epInf)) \/ readItem = epInf

(***************************************************************************)
(* The endpoints will be built again when the pod of address a comes, or    *)
(* it has come and was skipped.                                             *)
(***************************************************************************)
ArrivalNoticed(a) ==
  /\ a[2] \in needResync
  /\ podInf[a[1]] = [ip |-> a[2], leaving |-> FALSE]
       => Pends("pod", Comes(a[1])) \/ a[2] \in skipped

NoneMissing ==
  ~overtaken /\ svcInf /\ epInf # Nil =>
    \A a \in epInf : a \in eds \/ Redo \/ ArrivalNoticed(a)

EpInv == /\ KubeTypes /\ EpMatches /\ SvcMatches /\ StaleFollowed /\ ReadFresh
         /\ NoneInvented /\ NoneMissing

-----------------------------------------------------------------------------
(***************************************************************************)
(* What a sequence has is its head or in its tail.                          *)
(***************************************************************************)
LEMMA TailHas ==
  ASSUME NEW S, NEW s \in Seq(S), s # <<>>, NEW B
  PROVE  Has(s, B) <=> Head(s) \in B \/ Has(Tail(s), B)
<1>1. \A i \in 1..Len(Tail(s)) : Tail(s)[i] = s[i+1]
  OBVIOUS
<1>2. Head(s) = s[1] /\ Len(Tail(s)) = Len(s) - 1 /\ Len(s) \in Nat /\ Len(s) > 0
  OBVIOUS
<1>3. ASSUME NEW i \in 1..Len(s), s[i] \in B, i # 1 PROVE Has(Tail(s), B)
  <2>1. i - 1 \in 1..Len(Tail(s)) /\ Tail(s)[i-1] = s[i]
    BY <1>1, <1>2, <1>3
  <2> QED
    BY <2>1, <1>3 DEF Has
<1>4. ASSUME NEW i \in 1..Len(Tail(s)), Tail(s)[i] \in B PROVE Has(s, B)
  <2>1. i + 1 \in 1..Len(s) /\ s[i+1] \in B
    BY <1>1, <1>2, <1>4
  <2> QED
    BY <2>1 DEF Has
<1> QED
  BY <1>2, <1>3, <1>4 DEF Has

(***************************************************************************)
(* What a sequence has after Append is what it had or the new element.      *)
(***************************************************************************)
LEMMA AppendHas ==
  ASSUME NEW S, NEW s \in Seq(S), NEW x \in S, NEW B
  PROVE  Has(Append(s, x), B) <=> Has(s, B) \/ x \in B
<1>1. /\ Len(Append(s, x)) = Len(s) + 1 /\ Len(s) \in Nat
      /\ \A i \in 1..Len(s) : Append(s, x)[i] = s[i]
      /\ Append(s, x)[Len(s) + 1] = x
  OBVIOUS
<1> DEFINE t == Append(s, x)
<1>2. ASSUME NEW i \in 1..Len(t), t[i] \in B PROVE Has(s, B) \/ x \in B
  <2>1. CASE i = Len(s) + 1
    BY <2>1, <1>1, <1>2
  <2>2. CASE i \in 1..Len(s)
    BY <2>2, <1>1, <1>2 DEF Has
  <2> QED
    BY <2>1, <2>2, <1>1
<1>3. ASSUME NEW i \in 1..Len(s), s[i] \in B PROVE Has(t, B)
  <2>1. i \in 1..Len(t) /\ t[i] \in B
    BY <1>1, <1>3
  <2> QED
    BY <2>1 DEF Has
<1>4. ASSUME x \in B PROVE Has(t, B)
  <2>1. Len(s) + 1 \in 1..Len(t) /\ t[Len(s)+1] \in B
    BY <1>1, <1>4
  <2> HIDE DEF t
  <2> QED
    BY <2>1 DEF Has
<1> HIDE DEF t
<1>5. Has(t, B) <=> Has(s, B) \/ x \in B
  BY <1>2, <1>3, <1>4 DEF Has
<1> QED
  BY <1>5 DEF t

(***************************************************************************)
(* Handling the first task keeps After; if the task was of A, one of B is   *)
(* to come.                                                                 *)
(***************************************************************************)
LEMMA TailAfter ==
  ASSUME NEW S, NEW q \in Seq(S), NEW n \in Seq(S), q # <<>>, NEW A, NEW B, After(q, n, A, B)
  PROVE  /\ After(Tail(q), n, A, B)
         /\ Head(q) \in A => Has(Tail(q), B) \/ Has(n, B)
<1>1. /\ \A i \in 1..Len(Tail(q)) : Tail(q)[i] = q[i+1]
      /\ Head(q) = q[1] /\ Len(Tail(q)) = Len(q) - 1 /\ Len(q) \in Nat /\ Len(q) > 0
  OBVIOUS
<1> DEFINE t == Tail(q)
<1> HIDE DEF t
<1>2. ASSUME NEW i \in 0..Len(t), q[i+1] \in A, ~Has(n, B)
      PROVE  \E j \in (i+1)..Len(t) : t[j] \in B
  <2>1. i + 1 \in 1..Len(q)
    BY <1>1 DEF t
  <2>2. PICK j \in (i+2)..Len(q) : q[j] \in B
    BY <2>1, <1>2 DEF After
  <2>3. j - 1 \in (i+1)..Len(t) /\ t[j-1] = q[j]
    BY <1>1, <2>2 DEF t
  <2> QED
    BY <2>2, <2>3
<1>3. ASSUME NEW i \in 1..Len(t), t[i] \in A
      PROVE  Has(n, B) \/ \E j \in (i+1)..Len(t) : t[j] \in B
  BY <1>1, <1>2, <1>3 DEF t
<1>4. After(t, n, A, B)
  BY <1>3 DEF After
<1>5. ASSUME Head(q) \in A, ~Has(n, B) PROVE Has(t, B)
  <2>1. 0 \in 0..Len(t) /\ q[0+1] \in A
    BY <1>1, <1>5 DEF t
  <2>2. \E j \in (0+1)..Len(t) : t[j] \in B
    BY <2>1, <1>2, <1>5
  <2> QED
    BY <2>2 DEF Has
<1> QED
  BY <1>4, <1>5 DEF t

(***************************************************************************)
(* A new notification that is not of A keeps After, and one of B brings it  *)
(* about.                                                                   *)
(***************************************************************************)
LEMMA AppendNote ==
  ASSUME NEW S, NEW q \in Seq(S), NEW n \in Seq(S), NEW x \in S, NEW A, NEW B, x \notin A,
         After(q, n, A, B) \/ x \in B
  PROVE  After(q, Append(n, x), A, B)
<1> DEFINE t == Append(n, x)
<1>1. /\ Len(t) = Len(n) + 1 /\ Len(n) \in Nat
      /\ \A i \in 1..Len(n) : t[i] = n[i]
      /\ t[Len(n) + 1] = x
      /\ Len(q) \in Nat
  OBVIOUS
<1>2. Has(t, B) <=> Has(n, B) \/ x \in B
  BY AppendHas
<1> HIDE DEF t
<1>3. ASSUME NEW i \in 1..Len(t), t[i] \in A PROVE \E j \in (i+1)..Len(t) : t[j] \in B
  <2>1. i \in 1..Len(n) /\ n[i] \in A
    BY <1>1, <1>3
  <2>2. CASE x \in B
    <3>1. Len(t) \in (i+1)..Len(t) /\ t[Len(t)] = x
      BY <1>1, <2>1
    <3> QED
      BY <3>1, <2>2
  <2>3. CASE After(q, n, A, B)
    <3>1. PICK j \in (i+1)..Len(n) : n[j] \in B
      BY <2>1, <2>3 DEF After
    <3>2. j \in (i+1)..Len(t) /\ t[j] = n[j]
      BY <1>1, <2>1
    <3> QED
      BY <3>1, <3>2
  <2> QED
    BY <2>2, <2>3
<1>4. ASSUME NEW i \in 1..Len(q), q[i] \in A
      PROVE  Has(t, B) \/ \E j \in (i+1)..Len(q) : q[j] \in B
  BY <1>2, <1>4 DEF After
<1>5. After(q, t, A, B)
  BY <1>3, <1>4 DEF After
<1> QED
  BY <1>5 DEF t

(***************************************************************************)
(* A task that is pushed keeps After if it is not of A, or if one of B is   *)
(* still a notification.                                                    *)
(***************************************************************************)
LEMMA AppendTask ==
  ASSUME NEW S, NEW q \in Seq(S), NEW n \in Seq(S), NEW x \in S, NEW A, NEW B,
         After(q, n, A, B), x \in A => Has(n, B)
  PROVE  After(Append(q, x), n, A, B)
<1> DEFINE t == Append(q, x)
<1>1. /\ Len(t) = Len(q) + 1 /\ Len(q) \in Nat
      /\ \A i \in 1..Len(q) : t[i] = q[i]
      /\ t[Len(q) + 1] = x
  OBVIOUS
<1> HIDE DEF t
<1>2. ASSUME NEW i \in 1..Len(t), t[i] \in A, ~Has(n, B)
      PROVE  \E j \in (i+1)..Len(t) : t[j] \in B
  <2>1. i \in 1..Len(q) /\ q[i] \in A
    BY <1>1, <1>2
  <2>2. PICK j \in (i+1)..Len(q) : q[j] \in B
    BY <2>1, <1>2 DEF After
  <2>3. j \in (i+1)..Len(t) /\ t[j] = q[j]
    BY <1>1, <2>1
  <2> QED
    BY <2>2, <2>3
<1>3. After(t, n, A, B)
  BY <1>2 DEF After
<1> QED
  BY <1>3 DEF t

(***************************************************************************)
(* Delivering a notification, from the front of the notifications to the    *)
(* end of the queue, keeps After and what is pending.                       *)
(***************************************************************************)
LEMMA MoveNote ==
  ASSUME NEW S, NEW q \in Seq(S), NEW n \in Seq(S), n # <<>>, NEW A, NEW B
  PROVE  /\ Has(Append(q, Head(n)), B) \/ Has(Tail(n), B) <=> Has(q, B) \/ Has(n, B)
         /\ After(q, n, A, B) => After(Append(q, Head(n)), Tail(n), A, B)
<1> DEFINE t == Append(q, Head(n))
           m == Tail(n)
<1>1. /\ Len(t) = Len(q) + 1 /\ Len(q) \in Nat
      /\ \A i \in 1..Len(q) : t[i] = q[i]
      /\ t[Len(q) + 1] = Head(n)
      /\ Head(n) \in S
      /\ m \in Seq(S)
  OBVIOUS
<1>2. Has(t, B) <=> Has(q, B) \/ Head(n) \in B
  BY <1>1, AppendHas
<1>3. Has(n, B) <=> Head(n) \in B \/ Has(m, B)
  BY TailHas
<1>4. ASSUME After(q, n, A, B) PROVE After(t, m, A, B)
  <2>1. /\ \A i \in 1..Len(m) : m[i] = n[i+1]
        /\ Head(n) = n[1] /\ Len(m) = Len(n) - 1 /\ Len(n) \in Nat /\ Len(n) > 0
    OBVIOUS
  <2> HIDE DEF t, m
  <2>2. ASSUME NEW i \in 0..Len(m), n[i+1] \in A PROVE \E j \in (i+1)..Len(m) : m[j] \in B
    <3>1. i + 1 \in 1..Len(n)
      BY <2>1
    <3>2. PICK j \in (i+2)..Len(n) : n[j] \in B
      BY <3>1, <2>2, <1>4 DEF After
    <3>3. j - 1 \in (i+1)..Len(m) /\ m[j-1] = n[j]
      BY <2>1, <3>2
    <3> QED
      BY <3>2, <3>3
  <2>3. ASSUME NEW i \in 1..Len(m), m[i] \in A PROVE \E j \in (i+1)..Len(m) : m[j] \in B
    BY <2>1, <2>2, <2>3
  <2>4. ASSUME NEW i \in 1..Len(t), t[i] \in A, ~Has(m, B)
        PROVE  \E j \in (i+1)..Len(t) : t[j] \in B
    <3>1. CASE i = Len(q) + 1
      <4>1. 0 \in 0..Len(m) /\ n[0+1] \in A
        BY <3>1, <2>1, <2>4, <1>1
      <4>2. \E j \in (0+1)..Len(m) : m[j] \in B
        BY <4>1, <2>2
      <4> QED
        BY <4>2, <2>4 DEF Has
    <3>2. CASE i \in 1..Len(q)
      <4>1. q[i] \in A
        BY <3>2, <2>4, <1>1
      <4>2. CASE Has(n, B)
        <5>1. Head(n) \in B
          BY <4>2, <1>3, <2>4
        <5>2. Len(t) \in (i+1)..Len(t) /\ t[Len(t)] = Head(n)
          BY <1>1, <3>2
        <5> QED
          BY <5>1, <5>2
      <4>3. CASE \E j \in (i+1)..Len(q) : q[j] \in B
        <5>1. PICK j \in (i+1)..Len(q) : q[j] \in B
          BY <4>3
        <5>2. j \in (i+1)..Len(t) /\ t[j] = q[j]
          BY <1>1, <3>2
        <5> QED
          BY <5>1, <5>2
      <4> QED
        BY <4>1, <4>2, <4>3, <3>2, <1>4 DEF After
    <3> QED
      BY <3>1, <3>2, <1>1
  <2> QED
    BY <2>3, <2>4 DEF After
<1> QED
  BY <1>2, <1>3, <1>4

(***************************************************************************)
(* If B is after A and something of A or B is pending, then something of B  *)
(* is.                                                                      *)
(***************************************************************************)
LEMMA AfterAll ==
  ASSUME NEW S, NEW q \in Seq(S), NEW n \in Seq(S), NEW A, NEW B, NEW C,
         After(q, n, A, B), C \subseteq A \cup B, Has(q, C) \/ Has(n, C)
  PROVE  Has(q, B) \/ Has(n, B)
<1>1. Len(q) \in Nat /\ Len(n) \in Nat
  OBVIOUS
<1>2. CASE Has(q, C)
  <2>1. PICK i \in 1..Len(q) : q[i] \in C
    BY <1>2 DEF Has
  <2>2. CASE q[i] \in A
    <3>1. Has(n, B) \/ \E j \in (i+1)..Len(q) : q[j] \in B
      BY <2>2 DEF After
    <3>2. (i+1)..Len(q) \subseteq 1..Len(q)
      BY <1>1
    <3> QED
      BY <3>1, <3>2 DEF Has
  <2> QED
    BY <2>1, <2>2 DEF Has
<1>3. CASE Has(n, C)
  <2>1. PICK i \in 1..Len(n) : n[i] \in C
    BY <1>3 DEF Has
  <2>2. CASE n[i] \in A
    <3>1. \E j \in (i+1)..Len(n) : n[j] \in B
      BY <2>2 DEF After
    <3>2. (i+1)..Len(n) \subseteq 1..Len(n)
      BY <1>1
    <3> QED
      BY <3>1, <3>2 DEF Has
  <2> QED
    BY <2>1, <2>2 DEF Has
<1> QED
  BY <1>2, <1>3

(***************************************************************************)
(* The kind of a task says what it is.                                      *)
(***************************************************************************)
LEMMA TaskKinds ==
  /\ \A t \in KubeTasks : t[1] = "pod" => t \in PodTasks
  /\ \A t \in KubeTasks : t[1] = "ep" => t \in EpTasks
  /\ \A t \in KubeTasks : t[1] = "svc" => t \in SvcTasks
  /\ \A t \in KubeTasks : t[1] = "resync" => t \in ResyncTasks
  /\ \A t \in PodTasks : /\ t[1] = "pod" /\ t[2] \in Events
                         /\ t[3] = <<t[3][1], t[3][2]>>
                         /\ t[3][1] \in KPods /\ t[3][2] \in PodSpecs
  /\ \A t \in EpTasks : t[1] = "ep" /\ t[2] \in Events /\ t[3] \in EndpointSets
  /\ \A t \in SvcTasks : t[1] = "svc" /\ t[2] \in {"add", "delete"}
  /\ \A t \in ResyncTasks : t[1] = "resync" /\ t[2] = "update" /\ t[3] \in EndpointSets
BY DEF KubeTasks, PodTasks, EpTasks, SvcTasks, ResyncTasks, Events

(***************************************************************************)
(* The first task of the queue is a task.                                   *)
(***************************************************************************)
LEMMA HeadTask ==
  ASSUME KubeTypes, queued # <<>>
  PROVE  /\ Head(queued) \in KubeTasks
         /\ Tail(queued) \in Seq(KubeTasks)
BY DEF KubeTypes

(***************************************************************************)
(* The first task, when it is a pod's.                                      *)
(***************************************************************************)
LEMMA HeadPod ==
  ASSUME KubeTypes, Task("pod")
  PROVE  /\ queued # <<>>
         /\ Head(queued) \in PodTasks
         /\ TaskPod \in KPods
         /\ TaskPodSpec \in PodSpecs
         /\ Event \in Events
<1>1. queued # <<>> /\ Head(queued) \in PodTasks
  BY HeadTask, TaskKinds DEF Task
<1>2. podInf[TaskPod] \in PodSpecs \cup {Nil}
  BY <1>1, TaskKinds DEF KubeTypes, TaskPod
<1> QED
  BY <1>1, <1>2, TaskKinds DEF TaskPod, TaskPodSpec, Event

(***************************************************************************)
(* Appending an element keeps the type of a sequence.                       *)
(***************************************************************************)
LEMMA AppendType ==
  ASSUME NEW S, NEW s \in Seq(S), NEW x \in S
  PROVE  Append(s, x) \in Seq(S)
OBVIOUS

(***************************************************************************)
(* Noting a change keeps the types of what it touches.                      *)
(***************************************************************************)
LEMMA NotedTypes ==
  ASSUME KubeTypes, NEW k \in {"pod", "ep", "svc"}, NEW ev, NEW obj, Noted(k, ev, obj),
         k = "pod" => <<k, ev, obj>> \in PodTasks,
         k = "ep" => <<k, ev, obj>> \in EpTasks,
         k = "svc" => <<k, ev, obj>> \in SvcTasks,
         podInf' \in [KPods -> PodSpecs \cup {Nil}],
         epInf' \in EndpointSets \cup {Nil},
         svcInf' \in BOOLEAN
  PROVE  KubeTypes'
<1>1. /\ notes' = [notes EXCEPT ![k] = Append(notes[k], <<k, ev, obj>>)]
      /\ notes = [j \in {"pod", "ep", "svc"} |-> notes[j]]
  BY DEF Noted, KubeTypes
<1>2. /\ notes' = [j \in {"pod", "ep", "svc"} |-> notes'[j]]
      /\ notes'[k] = Append(notes[k], <<k, ev, obj>>)
      /\ \A j \in {"pod", "ep", "svc"} \ {k} : notes'[j] = notes[j]
  BY <1>1
<1>3. notes'["pod"] \in Seq(PodTasks) /\ notes'["ep"] \in Seq(EpTasks)
      /\ notes'["svc"] \in Seq(SvcTasks)
  <2>0. notes["pod"] \in Seq(PodTasks) /\ notes["ep"] \in Seq(EpTasks)
        /\ notes["svc"] \in Seq(SvcTasks)
    BY DEF KubeTypes
  <2>1. CASE k = "pod"
    <3>1. Append(notes["pod"], <<k, ev, obj>>) \in Seq(PodTasks)
      BY <2>0, <2>1, AppendType
    <3> QED
      BY <3>1, <2>0, <2>1, <1>2
  <2>2. CASE k = "ep"
    <3>1. Append(notes["ep"], <<k, ev, obj>>) \in Seq(EpTasks)
      BY <2>0, <2>2, AppendType
    <3> QED
      BY <3>1, <2>0, <2>2, <1>2
  <2>3. CASE k = "svc"
    <3>1. Append(notes["svc"], <<k, ev, obj>>) \in Seq(SvcTasks)
      BY <2>0, <2>3, AppendType
    <3> QED
      BY <3>1, <2>0, <2>3, <1>2
  <2> QED
    BY <2>1, <2>2, <2>3
<1> QED
  BY <1>2, <1>3 DEF Noted, KubeTypes, podCacheVars

(***************************************************************************)
(* The task that a change of a pod notes.                                   *)
(***************************************************************************)
LEMMA PodChangesNotes ==
  ASSUME KubeTypes, NEW p \in KPods, NEW new \in PodSpecs \cup {Nil}, PodChanges(p, new)
  PROVE  \E x \in PodTasks :
           /\ notes' = [notes EXCEPT !["pod"] = Append(@, x)]
           /\ x[3] = <<p, IF new = Nil THEN podInf[p] ELSE new>>
           /\ x[2] = "delete" <=> new = Nil
<1> DEFINE ev == IF podInf[p] = Nil THEN "add" ELSE IF new = Nil THEN "delete" ELSE "update"
           x  == <<"pod", ev, <<p, IF new = Nil THEN podInf[p] ELSE new>>>>
<1>1. podInf[p] \in PodSpecs \cup {Nil} /\ new # podInf[p]
  BY DEF KubeTypes, PodChanges
<1>2. x \in PodTasks
  BY <1>1 DEF PodTasks, Events
<1>3. notes' = [notes EXCEPT !["pod"] = Append(@, x)]
  BY DEF PodChanges, Noted
<1>4. x[2] = "delete" <=> new = Nil
  BY <1>1
<1> QED
  BY <1>2, <1>3, <1>4

(***************************************************************************)
(* A change of a pod keeps the types.                                       *)
(***************************************************************************)
LEMMA PodChangesTypes ==
  ASSUME KubeTypes, NEW p \in KPods, NEW new \in PodSpecs \cup {Nil}, PodChanges(p, new)
  PROVE  KubeTypes'
<1> DEFINE ev == IF podInf[p] = Nil THEN "add" ELSE IF new = Nil THEN "delete" ELSE "update"
           obj == <<p, IF new = Nil THEN podInf[p] ELSE new>>
<1>1. podInf[p] \in PodSpecs \cup {Nil} /\ new # podInf[p]
  BY DEF KubeTypes, PodChanges
<1>2. <<"pod", ev, obj>> \in PodTasks
  BY <1>1 DEF PodTasks, Events
<1>3. Noted("pod", ev, obj)
  BY DEF PodChanges
<1>4. /\ podInf' \in [KPods -> PodSpecs \cup {Nil}]
      /\ epInf' \in EndpointSets \cup {Nil} /\ svcInf' \in BOOLEAN
  BY DEF PodChanges, KubeTypes
<1> HIDE DEF ev, obj
<1> QED
  BY <1>2, <1>3, <1>4, NotedTypes

(***************************************************************************)
(* A change of the Endpoints object keeps the types.                        *)
(***************************************************************************)
LEMMA EndpointsChangeTypes ==
  ASSUME KubeTypes, NEW new \in EndpointSets \cup {Nil}, EndpointsChange(new)
  PROVE  KubeTypes'
<1> DEFINE ev  == IF epInf = Nil THEN "add" ELSE IF new = Nil THEN "delete" ELSE "update"
           obj == IF new = Nil THEN epInf ELSE new
<1>1. epInf \in EndpointSets \cup {Nil} /\ new # epInf
  BY DEF KubeTypes, EndpointsChange
<1>2. <<"ep", ev, obj>> \in EpTasks
  BY <1>1 DEF EpTasks, Events
<1>3. Noted("ep", ev, obj)
  BY DEF EndpointsChange
<1>4. /\ podInf' \in [KPods -> PodSpecs \cup {Nil}]
      /\ epInf' \in EndpointSets \cup {Nil} /\ svcInf' \in BOOLEAN
  BY DEF EndpointsChange, KubeTypes
<1> HIDE DEF ev, obj
<1> QED
  BY <1>2, <1>3, <1>4, NotedTypes

(***************************************************************************)
(* A change of the Service keeps the types.                                 *)
(***************************************************************************)
LEMMA ServiceChangesTypes ==
  ASSUME KubeTypes, ServiceChanges
  PROVE  KubeTypes'
<1> DEFINE ev == IF svcInf THEN "delete" ELSE "add"
<1>1. <<"svc", ev, Nil>> \in SvcTasks
  BY DEF SvcTasks
<1>2. Noted("svc", ev, Nil)
  BY DEF ServiceChanges
<1>3. /\ podInf' \in [KPods -> PodSpecs \cup {Nil}]
      /\ epInf' \in EndpointSets \cup {Nil} /\ svcInf' \in BOOLEAN
  BY DEF ServiceChanges, KubeTypes
<1> HIDE DEF ev
<1> QED
  BY <1>1, <1>2, <1>3, NotedTypes

(***************************************************************************)
(* The delivery of a notification keeps the types.                          *)
(***************************************************************************)
LEMMA DeliverTypes ==
  ASSUME KubeTypes, NEW k \in {"pod", "ep", "svc"}, Deliver(k)
  PROVE  KubeTypes'
<1>1. notes[k] \in Seq(KubeTasks) /\ notes[k] # <<>>
  BY DEF KubeTypes, KubeTasks, Deliver
<1>2. queued' = Append(queued, Head(notes[k])) /\ queued \in Seq(KubeTasks)
  BY DEF KubeTypes, Deliver
<1>3. Head(notes[k]) \in KubeTasks
  BY <1>1
<1>4. queued' \in Seq(KubeTasks)
  BY <1>2, <1>3, AppendType
<1>5. /\ notes' = [notes EXCEPT ![k] = Tail(notes[k])]
      /\ notes = [j \in {"pod", "ep", "svc"} |-> notes[j]]
  BY DEF Deliver, KubeTypes
<1>6. /\ notes' = [j \in {"pod", "ep", "svc"} |-> notes'[j]]
      /\ notes'[k] = Tail(notes[k])
      /\ \A j \in {"pod", "ep", "svc"} \ {k} : notes'[j] = notes[j]
  BY <1>5
<1>7. notes'["pod"] \in Seq(PodTasks) /\ notes'["ep"] \in Seq(EpTasks)
      /\ notes'["svc"] \in Seq(SvcTasks)
  <2>0. notes["pod"] \in Seq(PodTasks) /\ notes["ep"] \in Seq(EpTasks)
        /\ notes["svc"] \in Seq(SvcTasks)
    BY DEF KubeTypes
  <2>1. CASE k = "pod"
    BY <2>0, <2>1, <1>1, <1>6
  <2>2. CASE k = "ep"
    BY <2>0, <2>2, <1>1, <1>6
  <2>3. CASE k = "svc"
    BY <2>0, <2>3, <1>1, <1>6
  <2> QED
    BY <2>1, <2>2, <2>3
<1>8. itemStale' \in BOOLEAN
  BY DEF Deliver, KubeTypes
<1> QED
  BY <1>4, <1>6, <1>7, <1>8 DEF Deliver, KubeTypes, storeVars, podCacheVars

(***************************************************************************)
(* Handling a pod keeps the types.                                          *)
(***************************************************************************)
LEMMA PodTaskTypes ==
  ASSUME KubeTypes, PodIgnored \/ DeleteIP \/ Update
  PROVE  KubeTypes'
<1>1. Task("pod") /\ PodDone
  BY DEF PodIgnored, DeleteIP, Update
<1>2. Tail(queued) \in Seq(KubeTasks)
  BY <1>1, HeadPod, HeadTask
<1>3. TaskPod \in KPods /\ TaskPodSpec.ip \in IPs \cup {Nil}
  BY <1>1, HeadPod DEF PodSpecs
<1>4. CASE PodIgnored
  BY <1>1, <1>2, <1>4 DEF PodIgnored, PodDone, KubeTypes, storeVars
<1>5. CASE DeleteIP
  <2>1. podsByIP' \in [IPs -> KPods \cup {Nil}] /\ IPByPods' \in [KPods -> IPs \cup {Nil}]
    BY <1>3, <1>5 DEF DeleteIP, KubeTypes
  <2> QED
    BY <1>1, <1>2, <1>5, <2>1 DEF DeleteIP, PodDone, KubeTypes, storeVars
<1>6. CASE Update
  <2>1. /\ podsByIP' \in [IPs -> KPods \cup {Nil}] /\ IPByPods' \in [KPods -> IPs \cup {Nil}]
        /\ needResync' \subseteq IPs /\ readItem' \in EndpointSets \cup {Nil}
    BY <1>3, <1>6 DEF Update, KubeTypes
  <2> QED
    BY <1>1, <1>2, <1>6, <2>1 DEF Update, PodDone, KubeTypes, storeVars
<1> QED
  BY <1>4, <1>5, <1>6

(***************************************************************************)
(* queueEndpointEvent keeps the types.                                      *)
(***************************************************************************)
LEMMA PushItemTypes ==
  ASSUME KubeTypes, PushItem
  PROVE  /\ KubeTypes'
         /\ <<"resync", "update", readItem>> \in ResyncTasks
<1>1. <<"resync", "update", readItem>> \in ResyncTasks
  BY DEF PushItem, KubeTypes, ResyncTasks
<1>2. queued' \in Seq(KubeTasks)
  BY <1>1, AppendType DEF PushItem, KubeTypes, KubeTasks
<1>3. overtaken' \in BOOLEAN
  BY DEF PushItem, KubeTypes
<1> QED
  BY <1>1, <1>2, <1>3 DEF PushItem, KubeTypes, storeVars, podCacheVars

(***************************************************************************)
(* An Endpoints object is a set of addresses of pods.                       *)
(***************************************************************************)
LEMMA EpsAreAddresses ==
  ASSUME NEW ep \in EndpointSets
  PROVE  /\ ep \subseteq KPods \X IPs
         /\ Built(ep) \subseteq ep
         /\ {a[2] : a \in ep} \subseteq IPs
         /\ \A a \in ep : a[1] \in KPods /\ a[2] \in IPs
BY KubeAssumption DEF Built

(***************************************************************************)
(* The first task, when endpointsController.onEvent handles it.             *)
(***************************************************************************)
LEMMA HeadEndpoints ==
  ASSUME KubeTypes, OnEndpoints
  PROVE  /\ queued # <<>>
         /\ Head(queued) \in EpTasks \/ Head(queued) \in ResyncTasks
         /\ Head(queued)[3] \in EndpointSets
         /\ Event \in Events
BY HeadTask, TaskKinds DEF OnEndpoints, Task, Event, Events

(***************************************************************************)
(* Handling an Endpoints object keeps the types.                            *)
(***************************************************************************)
LEMMA OnEndpointsTypes ==
  ASSUME KubeTypes, OnEndpoints
  PROVE  KubeTypes'
<1> DEFINE latest == Task("ep") /\ Event # "delete" /\ epInf # Nil
           ep     == IF latest THEN epInf ELSE Head(queued)[3]
<1>1. ep \in EndpointSets
  BY HeadEndpoints DEF KubeTypes
<1>2. Tail(queued) \in Seq(KubeTasks)
  BY HeadEndpoints, HeadTask
<1>3. IF Event = "delete"
      THEN eds' = {} /\ needResync' = needResync \ {a[2] : a \in ep}
      ELSE eds' = Built(ep) /\ Registers(ep)
  BY DEF OnEndpoints
<1> HIDE DEF ep
<1>4. needResync' \subseteq IPs /\ eds' \subseteq KPods \X IPs
  <2>1. ep \subseteq KPods \X IPs /\ Built(ep) \subseteq ep /\ \A a \in ep : a[2] \in IPs
    BY <1>1, EpsAreAddresses
  <2>2. needResync \subseteq IPs
    BY DEF KubeTypes
  <2>3. CASE Event = "delete"
    BY <2>2, <2>3, <1>3
  <2>4. CASE Event # "delete"
    BY <2>1, <2>2, <2>4, <1>3 DEF Registers
  <2> QED
    BY <2>3, <2>4
<1> QED
  BY <1>2, <1>4 DEF OnEndpoints, KubeTypes, storeVars

(***************************************************************************)
(* The first task, when onServiceEvent handles it.                          *)
(***************************************************************************)
LEMMA HeadService ==
  ASSUME KubeTypes, OnService
  PROVE  queued # <<>> /\ Head(queued) \in SvcTasks
BY HeadTask, TaskKinds DEF OnService, Task

(***************************************************************************)
(* Handling a Service keeps the types.                                      *)
(***************************************************************************)
LEMMA OnServiceTypes ==
  ASSUME KubeTypes, OnService
  PROVE  KubeTypes'
<1>1. Tail(queued) \in Seq(KubeTasks)
  BY HeadService, HeadTask
<1>2. needResync' \subseteq IPs /\ eds' \subseteq KPods \X IPs
  <2>0. needResync \subseteq IPs /\ eds \subseteq KPods \X IPs
    BY DEF KubeTypes
  <2>1. CASE Event = "delete" \/ epInf = Nil
    BY <2>0, <2>1 DEF OnService
  <2>2. CASE Event # "delete" /\ epInf # Nil
    <3>1. epInf \in EndpointSets
      BY <2>2 DEF KubeTypes
    <3>2. epInf \subseteq KPods \X IPs /\ Built(epInf) \subseteq epInf /\ \A a \in epInf : a[2] \in IPs
      BY <3>1, EpsAreAddresses
    <3>3. Registers(epInf) /\ eds' \in {Built(epInf), eds}
      BY <2>2 DEF OnService
    <3> QED
      BY <2>0, <3>2, <3>3 DEF Registers
  <2> QED
    BY <2>1, <2>2
<1> QED
  BY <1>1, <1>2 DEF OnService, KubeTypes, storeVars

(***************************************************************************)
(* Every step keeps the types.                                              *)
(***************************************************************************)
LEMMA KubeNextTypes == KubeTypes /\ [KubeNext]_kubeVars => KubeTypes'
<1> SUFFICES ASSUME KubeTypes, [KubeNext]_kubeVars PROVE KubeTypes'
  OBVIOUS
<1>1. CASE UNCHANGED kubeVars
  BY <1>1 DEF kubeVars, storeVars, podCacheVars, KubeTypes
<1>2. CASE KubeNext
  BY <1>2, PodChangesTypes, EndpointsChangeTypes, ServiceChangesTypes, DeliverTypes, PodTaskTypes,
     PushItemTypes, OnEndpointsTypes, OnServiceTypes DEF KubeNext
<1> QED
  BY <1>1, <1>2

(***************************************************************************)
(* The tasks about a pod are tasks of pods.                                 *)
(***************************************************************************)
LEMMA PodSets ==
  \A p \in KPods : Deletes(p) \subseteq PodTasks /\ Comes(p) \subseteq PodTasks
                   /\ \A i : Claims(p, i) \subseteq PodTasks
BY DEF Deletes, Comes, Claims

(***************************************************************************)
(* The step keeps the order of the tasks of T that are queued or notified   *)
(* by informer k: it appends a task that is not of T, handles one that is   *)
(* not, or delivers a notification.                                         *)
(***************************************************************************)
QueueKept(k, T) ==
  \/ queued' = queued /\ notes'[k] = notes[k]
  \/ \E x \in KubeTasks \ T : queued' = Append(queued, x) /\ notes'[k] = notes[k]
  \/ /\ queued # <<>> /\ Head(queued) \notin T
     /\ queued' = Tail(queued) /\ notes'[k] = notes[k]
  \/ /\ notes[k] # <<>>
     /\ queued' = Append(queued, Head(notes[k])) /\ notes'[k] = Tail(notes[k])

(***************************************************************************)
(* Notifications are tasks.                                                 *)
(***************************************************************************)
LEMMA NotesAreTasks ==
  ASSUME KubeTypes
  PROVE  queued \in Seq(KubeTasks) /\ \A k \in {"pod", "ep", "svc"} : notes[k] \in Seq(KubeTasks)
<1>1. notes["pod"] \in Seq(KubeTasks) /\ notes["ep"] \in Seq(KubeTasks)
      /\ notes["svc"] \in Seq(KubeTasks)
  BY DEF KubeTypes, KubeTasks
<1> QED
  BY <1>1 DEF KubeTypes

(***************************************************************************)
(* Steps that do not handle or note tasks of T keep what is pending of T,   *)
(* and its order.                                                           *)
(***************************************************************************)
LEMMA QueueKeeps ==
  ASSUME KubeTypes, NEW k \in {"pod", "ep", "svc"}, NEW T, QueueKept(k, T),
         NEW A, NEW B, A \subseteq T, B \subseteq T
  PROVE  /\ Has(queued, B) \/ Has(notes[k], B) => Has(queued', B) \/ Has(notes'[k], B)
         /\ After(queued, notes[k], A, B) => After(queued', notes'[k], A, B)
         /\ Has(queued, B) => Has(queued', B)
<1>0. queued \in Seq(KubeTasks) /\ notes[k] \in Seq(KubeTasks)
  BY NotesAreTasks
<1>1. CASE queued' = queued /\ notes'[k] = notes[k]
  BY <1>1
<1>2. ASSUME NEW x \in KubeTasks \ T, queued' = Append(queued, x), notes'[k] = notes[k]
      PROVE  /\ Has(queued, B) => Has(queued', B)
             /\ After(queued, notes[k], A, B) => After(queued', notes'[k], A, B)
  <2>1. Has(queued, B) => Has(queued', B)
    BY <1>0, <1>2, AppendHas
  <2>2. After(queued, notes[k], A, B) => After(Append(queued, x), notes[k], A, B)
    BY <1>0, <1>2, AppendTask
  <2> QED
    BY <2>1, <2>2, <1>2
<1>3. CASE /\ queued # <<>> /\ Head(queued) \notin T
           /\ queued' = Tail(queued) /\ notes'[k] = notes[k]
  <2>1. Has(queued, B) => Has(queued', B)
    BY <1>0, <1>3, TailHas
  <2>2. After(queued, notes[k], A, B) => After(Tail(queued), notes[k], A, B)
    BY <1>0, <1>3, TailAfter
  <2> QED
    BY <2>1, <2>2, <1>3
<1>4. CASE /\ notes[k] # <<>>
           /\ queued' = Append(queued, Head(notes[k])) /\ notes'[k] = Tail(notes[k])
  <2>1. Head(notes[k]) \in KubeTasks
    BY <1>0, <1>4
  <2>2. Has(queued, B) => Has(queued', B)
    BY <1>0, <1>4, <2>1, AppendHas
  <2> QED
    BY <1>0, <1>4, <2>2, MoveNote
<1> QED
  BY <1>1, <1>2, <1>3, <1>4 DEF QueueKept

(***************************************************************************)
(* Steps that keep the tasks of pods, the pods and the pod cache keep       *)
(* PodInv.                                                                  *)
(***************************************************************************)
LEMMA PodInvKept ==
  ASSUME PodInv, KubeTypes', QueueKept("pod", PodTasks), UNCHANGED <<podInf, podsByIP, IPByPods, deprived>>
  PROVE  PodInv'
<1>1. StoreIPsDiffer' /\ OneIPPerPod'
  BY DEF PodInv, StoreIPsDiffer, OneIPPerPod
<1>2. PodsCome'
  <2> SUFFICES ASSUME NEW p \in KPods, podInf[p] # Nil
               PROVE  /\ After(queued', notes'["pod"], Deletes(p), Comes(p))
                      /\ podInf[p].ip # Nil =>
                           After(queued', notes'["pod"], Claims(p, podInf[p].ip), Comes(p))
    BY DEF PodsCome, Deletes, Claims, Comes
  <2>1. /\ After(queued, notes["pod"], Deletes(p), Comes(p))
        /\ podInf[p].ip # Nil =>
             After(queued, notes["pod"], Claims(p, podInf[p].ip), Comes(p))
    BY DEF PodInv, PodsCome
  <2>2. /\ KubeTypes /\ Deletes(p) \subseteq PodTasks /\ Comes(p) \subseteq PodTasks
        /\ Claims(p, podInf[p].ip) \subseteq PodTasks
    BY PodSets DEF PodInv
  <2>3. After(queued', notes'["pod"], Deletes(p), Comes(p))
    BY <2>1, <2>2, QueueKeeps
  <2>4. ASSUME podInf[p].ip # Nil
        PROVE  After(queued', notes'["pod"], Claims(p, podInf[p].ip), Comes(p))
    BY <2>1, <2>2, <2>4, QueueKeeps
  <2> QED
    BY <2>3, <2>4
<1>3. PodsCached'
  <2> SUFFICES ASSUME NEW p \in KPods, Live(p), p \notin deprived, podsByIP[podInf[p].ip] # p
               PROVE  Has(queued', Comes(p)) \/ Has(notes'["pod"], Comes(p))
    BY DEF PodsCached, Live, Pends, Comes
  <2>1. Has(queued, Comes(p)) \/ Has(notes["pod"], Comes(p))
    BY DEF PodInv, PodsCached, Pends
  <2> QED
    BY <2>1, PodSets, QueueKeeps DEF PodInv
<1> QED
  BY <1>1, <1>2, <1>3 DEF PodInv

(***************************************************************************)
(* Changes of the Endpoints object and of the Service keep PodInv.          *)
(***************************************************************************)
LEMMA NotedKeepsPods ==
  ASSUME PodInv, KubeTypes', NEW k \in {"ep", "svc"}, NEW ev, NEW obj, Noted(k, ev, obj),
         podInf' = podInf
  PROVE  PodInv'
<1>1. QueueKept("pod", PodTasks)
  BY DEF QueueKept, Noted, PodInv, KubeTypes
<1> QED
  BY <1>1, PodInvKept DEF Noted, podCacheVars

(***************************************************************************)
(* The delivery of a notification keeps PodInv.                             *)
(***************************************************************************)
LEMMA DeliverPodInv ==
  ASSUME PodInv, KubeTypes', NEW k \in {"pod", "ep", "svc"}, Deliver(k)
  PROVE  PodInv'
<1>1. QueueKept("pod", PodTasks)
  <2>0. notes = [j \in {"pod", "ep", "svc"} |-> notes[j]]
    BY DEF PodInv, KubeTypes
  <2>1. CASE k = "pod"
    BY <2>0, <2>1 DEF QueueKept, Deliver
  <2>2. CASE k # "pod"
    <3>1. notes'["pod"] = notes["pod"] /\ queued' = Append(queued, Head(notes[k]))
      BY <2>0, <2>2 DEF Deliver
    <3>2. Head(notes[k]) \in KubeTasks \ PodTasks
      <4>1. notes[k] # <<>>
        BY DEF Deliver
      <4>2. CASE k = "ep"
        <5>1. Head(notes[k]) \in EpTasks
          BY <4>1, <4>2 DEF PodInv, KubeTypes
        <5> QED
          BY <5>1, TaskKinds DEF KubeTasks
      <4>3. CASE k = "svc"
        <5>1. Head(notes[k]) \in SvcTasks
          BY <4>1, <4>3 DEF PodInv, KubeTypes
        <5> QED
          BY <5>1, TaskKinds DEF KubeTasks
      <4> QED
        BY <4>2, <4>3, <2>2
    <3> QED
      BY <3>1, <3>2 DEF QueueKept
  <2> QED
    BY <2>1, <2>2
<1> QED
  BY <1>1, PodInvKept DEF Deliver, storeVars, podCacheVars

(***************************************************************************)
(* queueEndpointEvent keeps PodInv.                                         *)
(***************************************************************************)
LEMMA PushItemPodInv ==
  ASSUME PodInv, KubeTypes', PushItem
  PROVE  PodInv'
<1>1. <<"resync", "update", readItem>> \in KubeTasks \ PodTasks
  <2>1. <<"resync", "update", readItem>> \in ResyncTasks
    BY PushItemTypes DEF PodInv
  <2> QED
    BY <2>1, TaskKinds DEF KubeTasks
<1>2. QueueKept("pod", PodTasks)
  BY <1>1 DEF QueueKept, PushItem
<1> QED
  BY <1>2, PodInvKept DEF PushItem, storeVars, podCacheVars

(***************************************************************************)
(* Handling an Endpoints object or a Service keeps PodInv.                  *)
(***************************************************************************)
LEMMA ServedPodInv ==
  ASSUME PodInv, KubeTypes', OnEndpoints \/ OnService
  PROVE  PodInv'
<1>1. queued # <<>> /\ Head(queued) \notin PodTasks
  <2>1. queued # <<>> /\ Head(queued) \in EpTasks \cup SvcTasks \cup ResyncTasks
    BY HeadEndpoints, HeadService DEF PodInv
  <2> QED
    BY <2>1, TaskKinds
<1>2. QueueKept("pod", PodTasks)
  BY <1>1 DEF QueueKept, OnEndpoints, OnService
<1> QED
  BY <1>2, PodInvKept DEF OnEndpoints, OnService, storeVars

(***************************************************************************)
(* A change of a pod keeps PodInv: its own task comes last.                 *)
(***************************************************************************)
LEMMA PodChangesPodInv ==
  ASSUME PodInv, KubeTypes', NEW p \in KPods, NEW new \in PodSpecs \cup {Nil}, PodChanges(p, new)
  PROVE  PodInv'
<1>0. KubeTypes /\ queued \in Seq(KubeTasks) /\ notes["pod"] \in Seq(KubeTasks)
  BY DEF PodInv, KubeTypes, KubeTasks
<1>1. PICK x \in PodTasks :
        /\ notes' = [notes EXCEPT !["pod"] = Append(@, x)]
        /\ x[3] = <<p, IF new = Nil THEN podInf[p] ELSE new>>
        /\ x[2] = "delete" <=> new = Nil
  BY <1>0, PodChangesNotes
<1>2. /\ notes'["pod"] = Append(notes["pod"], x) /\ queued' = queued
      /\ podInf' = [podInf EXCEPT ![p] = new] /\ podInf \in [KPods -> PodSpecs \cup {Nil}]
      /\ UNCHANGED <<podsByIP, IPByPods, deprived>>
      /\ x \in KubeTasks /\ x[3][1] = p /\ x[3][2] = IF new = Nil THEN podInf[p] ELSE new
  <2>1. notes'["pod"] = Append(notes["pod"], x)
    BY <1>0, <1>1 DEF KubeTypes
  <2>2. /\ podInf' = [podInf EXCEPT ![p] = new] /\ queued' = queued
        /\ UNCHANGED <<podsByIP, IPByPods, deprived>>
    BY DEF PodChanges, Noted, podCacheVars
  <2>3. podInf \in [KPods -> PodSpecs \cup {Nil}]
    BY <1>0 DEF KubeTypes
  <2>4. x \in KubeTasks
    BY DEF KubeTasks
  <2>5. x[3][1] = p /\ x[3][2] = IF new = Nil THEN podInf[p] ELSE new
    BY <1>1
  <2> QED
    BY <2>1, <2>2, <2>3, <2>4, <2>5
<1>3. StoreIPsDiffer'
  BY <1>2 DEF PodInv, StoreIPsDiffer, PodChanges, PodSpecs
<1>4. OneIPPerPod'
  BY <1>2 DEF PodInv, OneIPPerPod
<1>5. ASSUME new # Nil PROVE x \in Comes(p) /\ x \notin Deletes(p)
  BY <1>1, <1>2, <1>5 DEF Comes, Deletes
<1>6. PodsCome'
  <2> SUFFICES ASSUME NEW q \in KPods, podInf'[q] # Nil
               PROVE  /\ After(queued, notes'["pod"], Deletes(q), Comes(q))
                      /\ podInf'[q].ip # Nil =>
                           After(queued, notes'["pod"], Claims(q, podInf'[q].ip), Comes(q))
    BY <1>2 DEF PodsCome, Deletes, Claims, Comes
  <2>1. CASE q = p
    <3>1. new # Nil /\ podInf'[q] = new
      BY <2>1, <1>2
    <3>2. x \in Comes(q) /\ x \notin Deletes(q) /\ x \notin Claims(q, podInf'[q].ip)
      BY <2>1, <3>1, <1>2, <1>5 DEF Claims
    <3> QED
      BY <3>2, <1>0, <1>2, AppendNote
  <2>2. CASE q # p
    <3>1. podInf'[q] = podInf[q]
      BY <2>2, <1>2
    <3>2. x \notin Deletes(q)
      BY <2>2, <1>2 DEF Deletes
    <3>3. After(queued, notes["pod"], Deletes(q), Comes(q))
      BY <3>1 DEF PodInv, PodsCome
    <3>4. After(queued, notes'["pod"], Deletes(q), Comes(q))
      BY <3>2, <3>3, <1>0, <1>2, AppendNote
    <3>5. ASSUME podInf[q].ip # Nil
          PROVE  After(queued, notes'["pod"], Claims(q, podInf[q].ip), Comes(q))
      <4>1. x[3][2].ip # podInf[q].ip
        BY <2>2, <3>1, <3>5, <1>2 DEF PodInv, StoreIPsDiffer, PodChanges, PodSpecs
      <4>2. x \notin Claims(q, podInf[q].ip)
        BY <4>1 DEF Claims
      <4>3. After(queued, notes["pod"], Claims(q, podInf[q].ip), Comes(q))
        BY <3>1, <3>5 DEF PodInv, PodsCome
      <4> QED
        BY <4>2, <4>3, <1>0, <1>2, AppendNote
    <3> QED
      BY <3>1, <3>4, <3>5
  <2> QED
    BY <2>1, <2>2
<1>7. PodsCached'
  <2> SUFFICES ASSUME NEW q \in KPods, Live(q)', q \notin deprived, podsByIP[podInf'[q].ip] # q
               PROVE  Has(queued, Comes(q)) \/ Has(notes'["pod"], Comes(q))
    BY <1>2 DEF PodsCached, Pends, Comes
  <2>1. CASE q = p
    <3>1. new # Nil
      BY <2>1, <1>2 DEF Live
    <3>2. x \in Comes(q)
      BY <2>1, <3>1, <1>5
    <3> QED
      BY <3>2, <1>0, <1>2, AppendHas
  <2>2. CASE q # p
    <3>1. podInf'[q] = podInf[q]
      BY <2>2, <1>2
    <3>2. Live(q) /\ podsByIP[podInf[q].ip] # q
      BY <3>1 DEF Live
    <3>3. Has(queued, Comes(q)) \/ Has(notes["pod"], Comes(q))
      BY <3>2 DEF PodInv, PodsCached, Pends
    <3> QED
      BY <3>3, <1>0, <1>2, AppendHas
  <2> QED
    BY <2>1, <2>2
<1> QED
  BY <1>3, <1>4, <1>6, <1>7 DEF PodInv

(***************************************************************************)
(* What is pending of a pod after its first task is handled.                *)
(***************************************************************************)
LEMMA PodTaskComes ==
  ASSUME PodInv, Task("pod"), PodDone
  PROVE  /\ PodsCome'
         /\ \A q \in KPods : Head(queued) \notin Comes(q) /\ Pends("pod", Comes(q))
                             => Pends("pod", Comes(q))'
         /\ \A q \in KPods : podInf[q] # Nil /\ Head(queued) \in Deletes(q)
                             => Pends("pod", Comes(q))'
         /\ \A q \in KPods : /\ podInf[q] # Nil /\ podInf[q].ip # Nil
                             /\ Head(queued) \in Claims(q, podInf[q].ip)
                             => Pends("pod", Comes(q))'
<1>0. queued \in Seq(KubeTasks) /\ notes["pod"] \in Seq(KubeTasks) /\ queued # <<>>
  BY DEF PodInv, KubeTypes, KubeTasks, Task
<1>1. queued' = Tail(queued) /\ notes' = notes /\ podInf' = podInf
  BY DEF PodDone, storeVars
<1>2. ASSUME NEW q \in KPods, podInf[q] # Nil
      PROVE  /\ After(queued', notes["pod"], Deletes(q), Comes(q))
             /\ Head(queued) \in Deletes(q) => Has(queued', Comes(q)) \/ Has(notes["pod"], Comes(q))
  <2>1. After(queued, notes["pod"], Deletes(q), Comes(q))
    BY <1>2 DEF PodInv, PodsCome
  <2> QED
    BY <2>1, <1>0, <1>1, TailAfter
<1>3. ASSUME NEW q \in KPods, podInf[q] # Nil, podInf[q].ip # Nil
      PROVE  /\ After(queued', notes["pod"], Claims(q, podInf[q].ip), Comes(q))
             /\ Head(queued) \in Claims(q, podInf[q].ip)
                  => Has(queued', Comes(q)) \/ Has(notes["pod"], Comes(q))
  <2>1. After(queued, notes["pod"], Claims(q, podInf[q].ip), Comes(q))
    BY <1>3 DEF PodInv, PodsCome
  <2> QED
    BY <2>1, <1>0, <1>1, TailAfter
<1>4. ASSUME NEW q \in KPods, Head(queued) \notin Comes(q), Has(queued, Comes(q))
      PROVE  Has(queued', Comes(q))
  BY <1>0, <1>1, <1>4, TailHas
<1>5. PodsCome'
  BY <1>1, <1>2, <1>3 DEF PodsCome, Deletes, Claims, Comes
<1>6. \A q \in KPods : Pends("pod", Comes(q))'
                        <=> Has(queued', Comes(q)) \/ Has(notes["pod"], Comes(q))
  BY <1>1 DEF Pends, Comes
<1> QED
  BY <1>2, <1>3, <1>4, <1>5, <1>6 DEF Pends

(***************************************************************************)
(* Handling a pod keeps PodInv: the entry of another pod goes away only     *)
(* when a task that brings that pod is to come, or when pc.update deprives  *)
(* it.                                                                      *)
(***************************************************************************)
LEMMA PodTaskPodInv ==
  ASSUME PodInv, KubeTypes', PodIgnored \/ DeleteIP \/ Update
  PROVE  PodInv'
<1> DEFINE h == Head(queued)
           p == TaskPod
           ip == TaskPodSpec.ip
<1>0. Task("pod") /\ PodDone /\ KubeTypes
  BY DEF PodIgnored, DeleteIP, Update, PodInv
<1>1. h \in PodTasks /\ p \in KPods /\ TaskPodSpec \in PodSpecs /\ ip \in IPs \cup {Nil}
  BY <1>0, HeadPod DEF PodSpecs
<1>2. PodsCome'
  BY <1>0, PodTaskComes
<1>3. podInf' = podInf /\ Nil \notin KPods \cup IPs
  BY <1>0, KubeAssumption DEF PodDone, storeVars
<1>4. StoreIPsDiffer'
  BY <1>3 DEF PodInv, StoreIPsDiffer
<1>5. /\ \A i \in IPs : podsByIP[i] # Nil => IPByPods[podsByIP[i]] = i
      /\ podsByIP \in [IPs -> KPods \cup {Nil}] /\ IPByPods \in [KPods -> IPs \cup {Nil}]
  BY DEF PodInv, OneIPPerPod, KubeTypes
<1>6. OneIPPerPod'
  <2>1. CASE PodIgnored
    BY <2>1, <1>5 DEF PodIgnored, OneIPPerPod
  <2>2. CASE DeleteIP
    <3>1. /\ ip \in IPs /\ podsByIP[ip] = p
          /\ podsByIP' = [podsByIP EXCEPT ![ip] = Nil] /\ IPByPods' = [IPByPods EXCEPT ![p] = Nil]
      BY <2>2, <1>1 DEF DeleteIP
    <3> HIDE DEF p, ip
    <3> QED
      BY <3>1, <1>1, <1>3, <1>5 DEF OneIPPerPod
  <2>3. CASE Update
    <3>1. /\ ip \in IPs
          /\ podsByIP' = [i \in IPs |-> IF i = ip THEN p
                                       ELSE IF i = IPByPods[p] THEN Nil ELSE podsByIP[i]]
          /\ IPByPods' = [IPByPods EXCEPT ![p] = ip]
      BY <2>3, <1>1 DEF Update
    <3> HIDE DEF p, ip
    <3> SUFFICES ASSUME NEW i \in IPs, podsByIP'[i] # Nil PROVE IPByPods'[podsByIP'[i]] = i
      BY DEF OneIPPerPod
    <3>2. CASE i = ip
      BY <3>1, <3>2, <1>1, <1>5
    <3>3. CASE i # ip
      <4>1. i # IPByPods[p] /\ podsByIP'[i] = podsByIP[i] /\ podsByIP[i] \in KPods
        BY <3>1, <3>3, <1>5
      <4>2. IPByPods[podsByIP[i]] = i
        BY <4>1, <1>5
      <4> QED
        BY <4>1, <4>2, <3>1, <1>5
    <3> QED
      BY <3>2, <3>3
  <2> QED
    BY <2>1, <2>2, <2>3
<1>7. PodsCached'
  <2> SUFFICES ASSUME NEW q \in KPods, Live(q), q \notin deprived', podsByIP'[podInf[q].ip] # q,
                      ~Pends("pod", Comes(q))'
               PROVE  FALSE
    BY <1>3 DEF PodsCached, Live
  <2>1. podInf[q] \in PodSpecs /\ podInf[q].ip \in IPs
    BY <1>0 DEF Live, KubeTypes, PodSpecs
  <2>2. h \notin Deletes(q) /\ h \notin Claims(q, podInf[q].ip)
    BY <1>0, PodTaskComes DEF Live
  <2>3. CASE h \in Comes(q)
    <3>1. p = q /\ Event # "delete" /\ TaskPodSpec = podInf[q]
      BY <2>3 DEF Comes, TaskPod, Event, TaskPodSpec, Live
    <3>2. ~PodGone /\ ip # Nil
      BY <3>1 DEF PodGone, Live
    <3>3. CASE PodIgnored
      BY <3>1, <3>2, <3>3 DEF PodIgnored
    <3>4. CASE DeleteIP
      BY <3>2, <3>4 DEF DeleteIP
    <3>5. CASE Update
      BY <3>1, <3>5, <2>1 DEF Update
    <3> QED
      BY <3>3, <3>4, <3>5
  <2>4. CASE h \notin Comes(q)
    <3>1. p # q
      BY <2>2, <2>4, <1>1 DEF Comes, Deletes, TaskPod
    <3>2. q \notin deprived /\ (podsByIP[podInf[q].ip] = q \/ Pends("pod", Comes(q)))
      <4>1. q \notin deprived
        BY <3>1 DEF PodIgnored, DeleteIP, Update
      <4> QED
        BY <4>1 DEF PodInv, PodsCached
    <3>3. podsByIP[podInf[q].ip] = q
      BY <3>2, <2>4, <1>0, PodTaskComes
    <3>4. CASE PodIgnored
      BY <3>3, <3>4 DEF PodIgnored
    <3>5. CASE DeleteIP
      <4>1. podsByIP[ip] = p /\ podsByIP' = [podsByIP EXCEPT ![ip] = Nil]
        BY <3>5 DEF DeleteIP
      <4> HIDE DEF p, ip
      <4> QED
        BY <4>1, <3>1, <3>3, <2>1, <1>5
    <3>6. CASE Update
      <4>1. /\ ip \in IPs /\ ~PodGone
            /\ podsByIP' = [i \in IPs |-> IF i = ip THEN p
                                         ELSE IF i = IPByPods[p] THEN Nil ELSE podsByIP[i]]
            /\ deprived' = (deprived \ {p}) \cup Deprives(p, ip)
        BY <3>6, <1>1 DEF Update
      <4>2. podInf[q].ip # ip
        <5>1. CASE podInf[p] = Nil
          <6>1. ip = h[3][2].ip /\ h[3][1] # q
            BY <5>1, <3>1 DEF TaskPodSpec, TaskPod
          <6> QED
            BY <6>1, <2>2, <1>1 DEF Claims
        <5>2. CASE podInf[p] # Nil
          <6>1. TaskPodSpec = podInf[p]
            BY <5>2, <4>1 DEF PodGone, TaskPodSpec
          <6>2. podInf[q].ip # podInf[p].ip
            BY <5>2, <3>1, <1>1 DEF PodInv, StoreIPsDiffer, Live
          <6> QED
            BY <6>1, <6>2
        <5> QED
          BY <5>1, <5>2
      <4> HIDE DEF p, ip
      <4>3. podInf[q].ip = IPByPods[p]
        BY <4>1, <4>2, <3>3, <2>1
      <4>4. q \in Deprives(p, ip)
        BY <4>2, <4>3, <3>1, <3>3, <2>1 DEF Deprives
      <4> QED
        BY <4>1, <4>4
    <3> QED
      BY <3>4, <3>5, <3>6
  <2> QED
    BY <2>3, <2>4
<1> QED
  BY <1>2, <1>4, <1>6, <1>7 DEF PodInv

(***************************************************************************)
(* Every step keeps PodInv.                                                 *)
(***************************************************************************)
LEMMA PodNextInv == PodInv /\ [KubeNext]_kubeVars => PodInv'
<1> SUFFICES ASSUME PodInv, [KubeNext]_kubeVars PROVE PodInv'
  OBVIOUS
<1>0. KubeTypes'
  BY KubeNextTypes DEF PodInv
<1>1. CASE UNCHANGED kubeVars
  <2>1. QueueKept("pod", PodTasks) /\ UNCHANGED <<podInf, podsByIP, IPByPods, deprived>>
    BY <1>1 DEF kubeVars, storeVars, podCacheVars, QueueKept
  <2> QED
    BY <2>1, <1>0, PodInvKept
<1>2. ASSUME NEW new \in EndpointSets \cup {Nil}, EndpointsChange(new) PROVE PodInv'
  BY <1>0, <1>2, NotedKeepsPods DEF EndpointsChange
<1>3. ASSUME ServiceChanges PROVE PodInv'
  BY <1>0, <1>3, NotedKeepsPods DEF ServiceChanges
<1> QED
  BY <1>0, <1>1, <1>2, <1>3, PodChangesPodInv, DeliverPodInv, PodTaskPodInv, PushItemPodInv,
     ServedPodInv DEF KubeNext

(***************************************************************************)
(* The initial state has the types.                                         *)
(***************************************************************************)
LEMMA KubeInitTypes == KubeInit => KubeTypes
<1> SUFFICES ASSUME KubeInit PROVE KubeTypes
  OBVIOUS
<1>1. /\ notes = [k \in {"pod", "ep", "svc"} |-> notes[k]]
      /\ notes["pod"] = <<>> /\ notes["ep"] = <<>> /\ notes["svc"] = <<>>
  BY DEF KubeInit
<1>2. \A S : <<>> \in Seq(S)
  OBVIOUS
<1>3. podInf \in [KPods -> PodSpecs \cup {Nil}] /\ podsByIP \in [IPs -> KPods \cup {Nil}]
      /\ IPByPods \in [KPods -> IPs \cup {Nil}]
  BY DEF KubeInit
<1> QED
  BY <1>1, <1>2, <1>3 DEF KubeInit, KubeTypes

(***************************************************************************)
(* The initial state has PodInv.                                            *)
(***************************************************************************)
LEMMA PodInitInv == KubeInit => PodInv
<1> SUFFICES ASSUME KubeInit PROVE PodInv
  OBVIOUS
<1>1. podInf = [p \in KPods |-> Nil] /\ podsByIP = [i \in IPs |-> Nil]
  BY DEF KubeInit
<1>2. StoreIPsDiffer /\ OneIPPerPod /\ PodsCome /\ PodsCached
  BY <1>1 DEF StoreIPsDiffer, OneIPPerPod, PodsCome, PodsCached, Live
<1> QED
  BY <1>2, KubeInitTypes DEF PodInv

(***************************************************************************)
(* When everything is handled, a pod that has an address and is not being   *)
(* deleted is in podsByIP under it and under no other (PodCache.onEvent,    *)
(* update and deleteIP), for any number of pods, addresses and changes,     *)
(* unless the update of another pod removed its entry.                      *)
(***************************************************************************)
THEOREM PodCacheAlwaysFollows == KubeSpec => []PodCacheFollows
<1>1. PodInv => PodCacheFollows
  <2> SUFFICES ASSUME PodInv, KubeSettled, NEW p \in KPods, Live(p), p \notin deprived
               PROVE  {i \in IPs : podsByIP[i] = p} = {podInf[p].ip}
    BY DEF PodCacheFollows, Live
  <2>1. queued = <<>> /\ notes["pod"] = <<>>
    BY DEF KubeSettled, PodInv, KubeTypes
  <2>2. ~Pends("pod", Comes(p))
    BY <2>1 DEF Pends, Has
  <2>3. podsByIP[podInf[p].ip] = p
    BY <2>2 DEF PodInv, PodsCached
  <2>4. podInf[p].ip \in IPs /\ p # Nil
    BY KubeAssumption DEF PodInv, KubeTypes, Live, PodSpecs
  <2>5. \A i \in IPs : podsByIP[i] = p => i = podInf[p].ip
    BY <2>3, <2>4 DEF PodInv, OneIPPerPod
  <2> QED
    BY <2>3, <2>4, <2>5
<1> QED
  BY PodInitInv, PodNextInv, <1>1, PTL DEF KubeSpec

(***************************************************************************)
(* Steps that keep the tasks of Endpoints keep what EpInv says of them.     *)
(***************************************************************************)
LEMMA EpKept ==
  ASSUME KubeTypes, QueueKept("ep", EpQueue), epInf' = epInf
  PROVE  /\ EpMatches => EpMatches'
         /\ After(queued, notes["ep"], Stale(epInf), EpTasks)
              => After(queued', notes'["ep"], Stale(epInf), EpTasks)
         /\ Pends("ep", EpTasks) => Pends("ep", EpTasks)'
         /\ Pends("ep", EpComes) => Pends("ep", EpComes)'
         /\ Has(queued, Fresh(epInf)) => Has(queued', Fresh(epInf))
<1>0. /\ EpTasks \subseteq EpQueue /\ EpComes \subseteq EpQueue /\ EpGone \subseteq EpQueue
      /\ Stale(epInf) \subseteq EpQueue /\ Fresh(epInf) \subseteq EpQueue
  BY DEF EpQueue, EpComes, EpGone, Stale, Fresh
<1>1. After(queued, notes["ep"], Stale(epInf), EpTasks)
        => After(queued', notes'["ep"], Stale(epInf), EpTasks)
  BY <1>0, QueueKeeps
<1>2. Has(queued, EpTasks) \/ Has(notes["ep"], EpTasks)
        => Has(queued', EpTasks) \/ Has(notes'["ep"], EpTasks)
  BY <1>0, QueueKeeps
<1>3. Has(queued, EpComes) \/ Has(notes["ep"], EpComes)
        => Has(queued', EpComes) \/ Has(notes'["ep"], EpComes)
  BY <1>0, QueueKeeps
<1>4. Has(queued, Fresh(epInf)) => Has(queued', Fresh(epInf))
  BY <1>0, QueueKeeps
<1>5. After(queued, notes["ep"], EpGone, EpComes) => After(queued', notes'["ep"], EpGone, EpComes)
  BY <1>0, QueueKeeps
<1>6. After(queued, notes["ep"], EpComes, EpGone) => After(queued', notes'["ep"], EpComes, EpGone)
  BY <1>0, QueueKeeps
<1>7. EpMatches => EpMatches'
  BY <1>5, <1>6 DEF EpMatches
<1> QED
  BY <1>1, <1>2, <1>3, <1>4, <1>7 DEF Pends

(***************************************************************************)
(* Steps that keep the tasks of the Service keep what EpInv says of them.   *)
(***************************************************************************)
LEMMA SvcKept ==
  ASSUME KubeTypes, QueueKept("svc", SvcTasks), svcInf' = svcInf
  PROVE  /\ SvcMatches => SvcMatches'
         /\ Pends("svc", SvcComes) => Pends("svc", SvcComes)'
<1>0. SvcComes \subseteq SvcTasks /\ SvcGone \subseteq SvcTasks
  BY DEF SvcComes, SvcGone
<1>1. After(queued, notes["svc"], SvcGone, SvcComes)
        => After(queued', notes'["svc"], SvcGone, SvcComes)
  BY <1>0, QueueKeeps
<1>2. Has(queued, SvcComes) \/ Has(notes["svc"], SvcComes)
        => Has(queued', SvcComes) \/ Has(notes'["svc"], SvcComes)
  BY <1>0, QueueKeeps
<1> QED
  BY <1>1, <1>2 DEF SvcMatches, Pends

(***************************************************************************)
(* Steps that keep the tasks of pods keep the arrivals that are pending.    *)
(***************************************************************************)
LEMMA PodKept ==
  ASSUME KubeTypes, QueueKept("pod", PodTasks), NEW p \in KPods, Pends("pod", Comes(p))
  PROVE  Pends("pod", Comes(p))'
<1>1. Has(queued, Comes(p)) \/ Has(notes["pod"], Comes(p))
        => Has(queued', Comes(p)) \/ Has(notes'["pod"], Comes(p))
  BY PodSets, QueueKeeps
<1> QED
  BY <1>1 DEF Pends, Comes

(***************************************************************************)
(* Steps that keep all of these keep that the endpoints are built again.    *)
(***************************************************************************)
LEMMA RedoKept ==
  ASSUME KubeTypes, QueueKept("ep", EpQueue), QueueKept("svc", SvcTasks),
         UNCHANGED <<epInf, svcInf, readItem>>, Redo
  PROVE  Redo'
<1>1. Fresh(epInf)' = Fresh(epInf)
  BY DEF Fresh
<1> QED
  BY <1>1, EpKept, SvcKept DEF Redo

(***************************************************************************)
(* Steps that do not touch the endpoints keep EpInv if they keep the        *)
(* reasons for an address to be missing.                                    *)
(***************************************************************************)
LEMMA EpInvKept ==
  ASSUME EpInv, KubeTypes', QueueKept("ep", EpQueue), QueueKept("svc", SvcTasks),
         UNCHANGED <<epInf, svcInf, overtaken, eds>>,
         ReadFresh',
         Redo => Redo',
         \A a \in KPods \X IPs : ArrivalNoticed(a) => ArrivalNoticed(a)' \/ Redo'
  PROVE  EpInv'
<1>0. KubeTypes
  BY DEF EpInv
<1>1. EpMatches' /\ SvcMatches'
  BY <1>0, EpKept, SvcKept DEF EpInv
<1>2. StaleFollowed'
  <2>1. Stale(epInf)' = Stale(epInf)
    BY DEF Stale
  <2> QED
    BY <2>1, <1>0, EpKept DEF EpInv, StaleFollowed
<1>3. NoneInvented'
  <2>1. Listed' = Listed
    BY DEF Listed
  <2> QED
    BY <2>1, <1>0, EpKept DEF EpInv, NoneInvented
<1>4. NoneMissing'
  <2> SUFFICES ASSUME ~overtaken, svcInf, epInf # Nil, NEW a \in epInf
               PROVE  a \in eds \/ Redo' \/ ArrivalNoticed(a)'
    BY DEF NoneMissing, ArrivalNoticed
  <2>1. a \in eds \/ Redo \/ ArrivalNoticed(a)
    BY DEF EpInv, NoneMissing, ArrivalNoticed
  <2>2. a \in KPods \X IPs
    BY <1>0, KubeAssumption DEF KubeTypes
  <2> QED
    BY <2>1, <2>2
<1> QED
  BY <1>1, <1>2, <1>3, <1>4 DEF EpInv

(***************************************************************************)
(* The delivery of a notification keeps the order of tasks of every kind.   *)
(***************************************************************************)
LEMMA DeliverKeeps ==
  ASSUME KubeTypes, NEW k \in {"pod", "ep", "svc"}, Deliver(k)
  PROVE  QueueKept("pod", PodTasks) /\ QueueKept("ep", EpQueue) /\ QueueKept("svc", SvcTasks)
<1>0. /\ notes = [j \in {"pod", "ep", "svc"} |-> notes[j]] /\ notes[k] # <<>>
      /\ queued' = Append(queued, Head(notes[k])) /\ notes' = [notes EXCEPT ![k] = Tail(notes[k])]
  BY DEF KubeTypes, Deliver
<1>1. /\ notes'[k] = Tail(notes[k])
      /\ \A j \in {"pod", "ep", "svc"} \ {k} : notes'[j] = notes[j]
  BY <1>0
<1>2. CASE k = "pod"
  <2>1. Head(notes[k]) \in PodTasks
    BY <1>0, <1>2 DEF KubeTypes
  <2>2. Head(notes[k]) \in KubeTasks \ EpQueue /\ Head(notes[k]) \in KubeTasks \ SvcTasks
    BY <2>1, TaskKinds DEF KubeTasks, EpQueue
  <2> QED
    BY <2>2, <1>0, <1>1, <1>2 DEF QueueKept
<1>3. CASE k = "ep"
  <2>1. Head(notes[k]) \in EpTasks
    BY <1>0, <1>3 DEF KubeTypes
  <2>2. Head(notes[k]) \in KubeTasks \ PodTasks /\ Head(notes[k]) \in KubeTasks \ SvcTasks
    BY <2>1, TaskKinds DEF KubeTasks
  <2> QED
    BY <2>2, <1>0, <1>1, <1>3 DEF QueueKept
<1>4. CASE k = "svc"
  <2>1. Head(notes[k]) \in SvcTasks
    BY <1>0, <1>4 DEF KubeTypes
  <2>2. Head(notes[k]) \in KubeTasks \ PodTasks /\ Head(notes[k]) \in KubeTasks \ EpQueue
    BY <2>1, TaskKinds DEF KubeTasks, EpQueue
  <2> QED
    BY <2>2, <1>0, <1>1, <1>4 DEF QueueKept
<1> QED
  BY <1>2, <1>3, <1>4

(***************************************************************************)
(* The delivery of a notification keeps EpInv; of Endpoints, it may make    *)
(* the object that was read stale.                                          *)
(***************************************************************************)
LEMMA DeliverEpInv ==
  ASSUME EpInv, KubeTypes', NEW k \in {"pod", "ep", "svc"}, Deliver(k)
  PROVE  EpInv'
<1>0. KubeTypes
  BY DEF EpInv
<1>1. QueueKept("pod", PodTasks) /\ QueueKept("ep", EpQueue) /\ QueueKept("svc", SvcTasks)
  BY <1>0, DeliverKeeps
<1>2. UNCHANGED <<podInf, epInf, svcInf, overtaken, eds, needResync, skipped, readItem>>
  BY DEF Deliver, storeVars, podCacheVars
<1>3. ReadFresh'
  <2>1. CASE k = "ep"
    BY <2>1, <1>2 DEF ReadFresh, Deliver
  <2>2. CASE k # "ep"
    <3>1. notes'["ep"] = notes["ep"]
      BY <2>2, <1>0 DEF Deliver, KubeTypes
    <3> QED
      BY <3>1, <2>2, <1>2 DEF ReadFresh, Deliver, EpInv
  <2> QED
    BY <2>1, <2>2
<1>4. Redo => Redo'
  BY <1>0, <1>1, <1>2, RedoKept
<1>5. ASSUME NEW a \in KPods \X IPs, ArrivalNoticed(a) PROVE ArrivalNoticed(a)'
  <2>1. a[1] \in KPods
    OBVIOUS
  <2>2. Pends("pod", Comes(a[1])) => Pends("pod", Comes(a[1]))'
    BY <2>1, <1>0, <1>1, PodKept
  <2> QED
    BY <2>2, <1>2, <1>5 DEF ArrivalNoticed
<1> QED
  BY <1>1, <1>2, <1>3, <1>4, <1>5, EpInvKept

(***************************************************************************)
(* A pod is not Nil.                                                        *)
(***************************************************************************)
LEMMA SpecNotNil ==
  ASSUME NEW i \in IPs
  PROVE  Nil # [ip |-> i, leaving |-> FALSE]
<1>1. [ip |-> i, leaving |-> FALSE] \in PodSpecs
  BY DEF PodSpecs
<1>2. Nil \notin PodSpecs
  BY KubeAssumption
<1> QED
  BY <1>1, <1>2

(***************************************************************************)
(* A change of a pod keeps EpInv: its arrival is pending.                   *)
(***************************************************************************)
LEMMA PodChangesEpInv ==
  ASSUME EpInv, KubeTypes', NEW p \in KPods, NEW new \in PodSpecs \cup {Nil}, PodChanges(p, new)
  PROVE  EpInv'
<1>0. KubeTypes
  BY DEF EpInv
<1>1. PICK x \in PodTasks :
        /\ notes' = [notes EXCEPT !["pod"] = Append(@, x)]
        /\ x[3] = <<p, IF new = Nil THEN podInf[p] ELSE new>>
        /\ x[2] = "delete" <=> new = Nil
  BY <1>0, PodChangesNotes
<1>2. /\ UNCHANGED <<queued, epInf, svcInf, overtaken, eds, needResync, skipped, readItem, itemStale>>
      /\ podInf' = [podInf EXCEPT ![p] = new] /\ podInf \in [KPods -> PodSpecs \cup {Nil}]
  BY <1>0 DEF PodChanges, Noted, podCacheVars, KubeTypes
<1>3. notes'["ep"] = notes["ep"] /\ notes'["svc"] = notes["svc"]
      /\ notes'["pod"] = Append(notes["pod"], x)
  BY <1>0, <1>1 DEF KubeTypes
<1>4. QueueKept("ep", EpQueue) /\ QueueKept("svc", SvcTasks)
  BY <1>2, <1>3 DEF QueueKept
<1>5. ReadFresh'
  BY <1>2, <1>3 DEF EpInv, ReadFresh
<1>6. Redo => Redo'
  BY <1>0, <1>2, <1>4, RedoKept
<1>7. ASSUME NEW a \in KPods \X IPs, ArrivalNoticed(a) PROVE ArrivalNoticed(a)'
  <2>0. a[1] \in KPods /\ notes["pod"] \in Seq(KubeTasks) /\ x \in KubeTasks
    BY <1>0, NotesAreTasks DEF KubeTasks
  <2>1. Has(notes'["pod"], Comes(a[1])) <=> Has(notes["pod"], Comes(a[1])) \/ x \in Comes(a[1])
    BY <2>0, <1>3, AppendHas
  <2>2. CASE a[1] = p
    <3>1. CASE new = Nil
      <4>1. podInf'[a[1]] = Nil /\ Nil # [ip |-> a[2], leaving |-> FALSE]
        BY <2>2, <3>1, <1>2, SpecNotNil
      <4> QED
        BY <4>1, <1>2, <1>7 DEF ArrivalNoticed
    <3>2. CASE new # Nil
      <4>1. x \in Comes(a[1])
        BY <2>2, <3>2, <1>1 DEF Comes
      <4>2. Pends("pod", Comes(a[1]))'
        BY <2>1, <4>1 DEF Pends, Comes
      <4> QED
        BY <4>2, <1>2, <1>7 DEF ArrivalNoticed
    <3> QED
      BY <3>1, <3>2
  <2>3. CASE a[1] # p
    <3>1. podInf'[a[1]] = podInf[a[1]]
      BY <2>0, <2>3, <1>2
    <3>2. Pends("pod", Comes(a[1])) => Pends("pod", Comes(a[1]))'
      BY <2>1, <1>2 DEF Pends, Comes
    <3> QED
      BY <3>1, <3>2, <1>2, <1>7 DEF ArrivalNoticed
  <2> QED
    BY <2>2, <2>3
<1> QED
  BY <1>2, <1>4, <1>5, <1>6, <1>7, EpInvKept

(***************************************************************************)
(* Handling a pod keeps EpInv: what waits under its address is read again,  *)
(* or the pod is skipped.                                                   *)
(***************************************************************************)
LEMMA PodTaskEpInv ==
  ASSUME EpInv, KubeTypes', PodIgnored \/ DeleteIP \/ Update
  PROVE  EpInv'
<1>0. Task("pod") /\ PodDone /\ KubeTypes
  BY DEF PodIgnored, DeleteIP, Update, EpInv
<1>1. Head(queued) \in PodTasks /\ queued # <<>> /\ TaskPod \in KPods /\ TaskPodSpec \in PodSpecs
      /\ readItem = Nil
  BY <1>0, HeadPod DEF Task
<1>2. /\ queued' = Tail(queued)
      /\ UNCHANGED <<podInf, epInf, svcInf, notes, itemStale, overtaken, eds>>
  BY <1>0 DEF PodDone, storeVars
<1>3. QueueKept("ep", EpQueue) /\ QueueKept("svc", SvcTasks)
  <2>1. Head(queued) \notin EpQueue /\ Head(queued) \notin SvcTasks
    BY <1>1, TaskKinds DEF EpQueue
  <2> QED
    BY <2>1, <1>1, <1>2 DEF QueueKept
<1>4. readItem' \in {Nil, epInf}
  BY <1>1 DEF PodIgnored, DeleteIP, Update
<1>5. ReadFresh'
  BY <1>2, <1>4 DEF ReadFresh
<1>6. Redo => Redo'
  <2>1. CASE epInf # Nil
    <3>1. Redo => Pends("ep", EpComes) \/ Pends("svc", SvcComes) \/ Has(queued, Fresh(epInf))
      BY <2>1, <1>1 DEF Redo
    <3>2. Fresh(epInf)' = Fresh(epInf)
      BY <1>2 DEF Fresh
    <3> QED
      BY <3>1, <3>2, <1>0, <1>2, <1>3, EpKept, SvcKept DEF Redo
  <2>2. CASE epInf = Nil
    <3>1. readItem' = epInf'
      BY <2>2, <1>2, <1>4
    <3> QED
      BY <3>1 DEF Redo
  <2> QED
    BY <2>1, <2>2
<1>7. ASSUME NEW a \in KPods \X IPs, ArrivalNoticed(a) PROVE ArrivalNoticed(a)' \/ Redo'
  <2>0. a[1] \in KPods /\ a[2] \in IPs /\ a[2] \in needResync
    BY <1>7 DEF ArrivalNoticed
  <2> DEFINE live == podInf[a[1]] = [ip |-> a[2], leaving |-> FALSE]
  <2>1. Head(queued) \notin Comes(a[1]) /\ Pends("pod", Comes(a[1])) => Pends("pod", Comes(a[1]))'
    <3>1. queued \in Seq(KubeTasks)
      BY <1>0, NotesAreTasks
    <3>2. Has(queued, Comes(a[1])) <=> Head(queued) \in Comes(a[1]) \/ Has(queued', Comes(a[1]))
      BY <3>1, <1>1, <1>2, TailHas
    <3> QED
      BY <3>2, <1>2 DEF Pends, Comes
  <2>2. ASSUME live, Head(queued) \in Comes(a[1])
        PROVE  ~PodGone /\ TaskPodSpec.ip = a[2]
    <3>0. podInf[a[1]] # Nil
      BY <2>0, <2>2, SpecNotNil
    <3>1. TaskPod = a[1] /\ Event # "delete" /\ podInf[a[1]] # Nil
      BY <3>0, <2>2 DEF Comes, TaskPod, Event
    <3>2. TaskPodSpec = podInf[a[1]]
      BY <3>1 DEF TaskPodSpec
    <3> QED
      BY <3>1, <3>2, <2>2 DEF PodGone
  <2>3. CASE PodIgnored
    <3>1. /\ needResync' = needResync
          /\ skipped' = (IF PodGone THEN skipped
                         ELSE skipped \cup (needResync \cap {TaskPodSpec.ip}))
      BY <2>3 DEF PodIgnored
    <3>2. ASSUME live PROVE Pends("pod", Comes(a[1]))' \/ a[2] \in skipped'
      <4>1. CASE Head(queued) \in Comes(a[1])
        BY <3>1, <3>2, <4>1, <2>0, <2>2
      <4>2. CASE Head(queued) \notin Comes(a[1])
        BY <3>1, <3>2, <4>2, <2>1, <1>7 DEF ArrivalNoticed
      <4> QED
        BY <4>1, <4>2
    <3> QED
      BY <3>1, <3>2, <2>0, <1>2 DEF ArrivalNoticed
  <2>4. CASE DeleteIP
    <3>1. UNCHANGED <<needResync, skipped>> /\ PodGone
      BY <2>4 DEF DeleteIP
    <3>2. ASSUME live PROVE Pends("pod", Comes(a[1]))' \/ a[2] \in skipped'
      BY <3>1, <3>2, <2>1, <2>2, <1>7 DEF ArrivalNoticed
    <3> QED
      BY <3>1, <3>2, <2>0, <1>2 DEF ArrivalNoticed
  <2>5. CASE Update
    <3> DEFINE ip == TaskPodSpec.ip
    <3>1. /\ needResync' = needResync \ {ip} /\ skipped' = skipped \ {ip}
          /\ readItem' = IF ip \in needResync THEN epInf ELSE Nil
      BY <2>5 DEF Update
    <3>2. CASE a[2] = ip
      <4>1. readItem' = epInf'
        BY <3>1, <3>2, <2>0, <1>2
      <4> QED
        BY <4>1 DEF Redo
    <3>3. CASE a[2] # ip
      <4>1. ASSUME live PROVE Pends("pod", Comes(a[1]))' \/ a[2] \in skipped'
        BY <3>1, <3>3, <4>1, <2>1, <2>2, <1>7 DEF ArrivalNoticed
      <4> QED
        BY <4>1, <3>1, <3>3, <2>0, <1>2 DEF ArrivalNoticed
    <3> QED
      BY <3>2, <3>3
  <2> QED
    BY <2>3, <2>4, <2>5
<1> QED
  BY <1>2, <1>3, <1>5, <1>6, <1>7, EpInvKept

(***************************************************************************)
(* A change of the Endpoints object keeps EpInv: its notification comes     *)
(* last.                                                                    *)
(***************************************************************************)
LEMMA EndpointsChangeEpInv ==
  ASSUME EpInv, KubeTypes', NEW new \in EndpointSets \cup {Nil}, EndpointsChange(new)
  PROVE  EpInv'
<1> DEFINE ev  == IF epInf = Nil THEN "add" ELSE IF new = Nil THEN "delete" ELSE "update"
           x   == <<"ep", ev, IF new = Nil THEN epInf ELSE new>>
<1>0. KubeTypes
  BY DEF EpInv
<1>1. x \in EpTasks
  BY <1>0 DEF EndpointsChange, KubeTypes, EpTasks, Events
<1>2. /\ x \in KubeTasks /\ x \notin ResyncTasks
      /\ new # Nil => x \in EpComes /\ x \notin EpGone
      /\ new = Nil => x \in EpGone /\ x \notin EpComes
  <2>1. x \in KubeTasks /\ x \notin ResyncTasks
    BY <1>1, TaskKinds DEF KubeTasks
  <2>2. ev = "delete" <=> new = Nil
    BY DEF EndpointsChange
  <2> QED
    BY <2>1, <2>2, <1>1 DEF EpComes, EpGone
<1>3. /\ notes'["ep"] = Append(notes["ep"], x) /\ notes'["svc"] = notes["svc"]
      /\ queued' = queued /\ epInf' = new /\ svcInf' = svcInf
  BY <1>0 DEF EndpointsChange, Noted, KubeTypes
<1> HIDE DEF x
<1>4. queued \in Seq(KubeTasks) /\ notes["ep"] \in Seq(KubeTasks)
  BY <1>0, NotesAreTasks
<1>5. EpMatches'
  <2>1. ASSUME new # Nil PROVE After(queued, notes'["ep"], EpGone, EpComes)
    BY <2>1, <1>2, <1>3, <1>4, AppendNote
  <2>2. ASSUME new = Nil PROVE After(queued, notes'["ep"], EpComes, EpGone)
    BY <2>2, <1>2, <1>3, <1>4, AppendNote
  <2> QED
    BY <2>1, <2>2, <1>3 DEF EpMatches
<1>6. SvcMatches'
  BY <1>3 DEF EpInv, SvcMatches
<1>7. StaleFollowed'
  <2>1. x \notin Stale(new)
    BY <1>2 DEF Stale
  <2>2. After(queued, notes'["ep"], Stale(new), EpTasks)
    BY <2>1, <1>1, <1>2, <1>3, <1>4, AppendNote
  <2>3. Stale(epInf)' = Stale(new)
    BY <1>3 DEF Stale
  <2> QED
    BY <2>2, <2>3, <1>3 DEF StaleFollowed
<1>8. ReadFresh'
  <2>1. notes'["ep"] # <<>>
    BY <1>3, <1>4, <1>2
  <2> QED
    BY <2>1 DEF ReadFresh
<1>9. /\ Pends("ep", EpTasks)'
      /\ new # Nil => Pends("ep", EpComes)'
  <2>1. Has(notes'["ep"], EpTasks)
    BY <1>1, <1>2, <1>3, <1>4, AppendHas
  <2>2. new # Nil => Has(notes'["ep"], EpComes)
    BY <1>1, <1>2, <1>3, <1>4, AppendHas
  <2> QED
    BY <2>1, <2>2 DEF Pends
<1>10. NoneInvented' /\ NoneMissing'
  BY <1>3, <1>9 DEF NoneInvented, NoneMissing, Redo
<1> QED
  BY <1>5, <1>6, <1>7, <1>8, <1>10 DEF EpInv

(***************************************************************************)
(* A change of the Service keeps EpInv: its notification comes last.        *)
(***************************************************************************)
LEMMA ServiceChangesEpInv ==
  ASSUME EpInv, KubeTypes', ServiceChanges
  PROVE  EpInv'
<1> DEFINE x == <<"svc", IF svcInf THEN "delete" ELSE "add", Nil>>
<1>0. KubeTypes
  BY DEF EpInv
<1>1. x \in SvcTasks /\ x \in KubeTasks
  BY DEF SvcTasks, KubeTasks
<1>2. ~svcInf => x \in SvcComes /\ x \notin SvcGone
  BY <1>1 DEF SvcComes, SvcGone
<1>3. /\ notes'["svc"] = Append(notes["svc"], x) /\ notes'["ep"] = notes["ep"]
      /\ svcInf' = ~svcInf
      /\ UNCHANGED <<queued, podInf, epInf, overtaken, readItem, itemStale, eds>>
  BY <1>0 DEF ServiceChanges, Noted, KubeTypes
<1> HIDE DEF x
<1>4. queued \in Seq(KubeTasks) /\ notes["svc"] \in Seq(KubeTasks)
  BY <1>0, NotesAreTasks
<1>5. SvcMatches'
  <2>1. ASSUME ~svcInf PROVE After(queued, notes'["svc"], SvcGone, SvcComes)
    BY <2>1, <1>1, <1>2, <1>3, <1>4, AppendNote
  <2> QED
    BY <2>1, <1>3 DEF SvcMatches
<1>6. QueueKept("ep", EpQueue)
  BY <1>3 DEF QueueKept
<1>7. EpMatches'
  BY <1>0, <1>3, <1>6, EpKept DEF EpInv
<1>8. StaleFollowed'
  <2>1. Stale(epInf)' = Stale(epInf)
    BY <1>3 DEF Stale
  <2> QED
    BY <2>1, <1>0, <1>3, <1>6, EpKept DEF EpInv, StaleFollowed
<1>9. ReadFresh'
  BY <1>3 DEF EpInv, ReadFresh
<1>10. NoneInvented'
  <2>1. Listed' = Listed
    BY <1>3 DEF Listed
  <2> QED
    BY <2>1, <1>0, <1>3, <1>6, EpKept DEF EpInv, NoneInvented
<1>11. NoneMissing'
  <2>1. ASSUME svcInf' PROVE Pends("svc", SvcComes)'
    <3>0. ~svcInf
      BY <2>1, <1>3
    <3>1. Has(Append(notes["svc"], x), SvcComes)
      BY <3>0, <1>1, <1>2, <1>4, AppendHas
    <3> QED
      BY <3>1, <1>3 DEF Pends
  <2> QED
    BY <2>1 DEF NoneMissing, Redo
<1> QED
  BY <1>5, <1>7, <1>8, <1>9, <1>10, <1>11 DEF EpInv

(***************************************************************************)
(* queueEndpointEvent keeps EpInv: if the object it read is not the latest  *)
(* one and nothing overtook it, a notification is still to come.            *)
(***************************************************************************)
LEMMA PushItemEpInv ==
  ASSUME EpInv, KubeTypes', PushItem
  PROVE  EpInv'
<1> DEFINE x == <<"resync", "update", readItem>>
<1>0. KubeTypes
  BY DEF EpInv
<1>1. x \in ResyncTasks /\ x \in KubeTasks /\ x \notin EpTasks /\ x \notin SvcTasks
      /\ x \notin PodTasks /\ x[3] = readItem
  <2>1. x \in ResyncTasks
    BY <1>0, PushItemTypes
  <2> QED
    BY <2>1, TaskKinds DEF KubeTasks
<1>2. /\ queued' = Append(queued, x) /\ readItem # Nil /\ readItem' = Nil
      /\ overtaken' = (overtaken \/ itemStale) /\ itemStale' = FALSE
      /\ UNCHANGED <<podInf, epInf, svcInf, notes, needResync, skipped, eds>>
  BY DEF PushItem, storeVars, podCacheVars
<1> HIDE DEF x
<1>3. queued \in Seq(KubeTasks) /\ notes["ep"] \in Seq(KubeTasks) /\ notes["svc"] \in Seq(KubeTasks)
  BY <1>0, NotesAreTasks
<1>4. QueueKept("svc", SvcTasks) /\ QueueKept("pod", PodTasks)
  BY <1>1, <1>2 DEF QueueKept
<1>5. SvcMatches' /\ (Pends("svc", SvcComes) => Pends("svc", SvcComes)')
  BY <1>0, <1>2, <1>4, SvcKept DEF EpInv
<1>6. EpMatches'
  <2>1. x \notin EpGone /\ x \notin EpComes
    BY <1>1 DEF EpGone, EpComes
  <2>2. ASSUME epInf # Nil PROVE After(queued', notes["ep"], EpGone, EpComes)
    BY <2>1, <2>2, <1>1, <1>2, <1>3, AppendTask DEF EpInv, EpMatches
  <2>3. ASSUME epInf = Nil PROVE After(queued', notes["ep"], EpComes, EpGone)
    BY <2>1, <2>3, <1>1, <1>2, <1>3, AppendTask DEF EpInv, EpMatches
  <2> QED
    BY <2>2, <2>3, <1>2 DEF EpMatches
<1>7. StaleFollowed'
  <2> SUFFICES ASSUME ~overtaken, ~itemStale
               PROVE  After(queued', notes["ep"], Stale(epInf), EpTasks)
    BY <1>2 DEF StaleFollowed, Stale
  <2>1. x \in Stale(epInf) => Has(notes["ep"], EpTasks)
    <3> SUFFICES ASSUME x \in Stale(epInf) PROVE Has(notes["ep"], EpTasks)
      OBVIOUS
    <3>1. readItem # epInf
      BY <1>1 DEF Stale
    <3>2. notes["ep"] # <<>>
      BY <3>1, <1>2 DEF EpInv, ReadFresh
    <3>3. Head(notes["ep"]) \in EpTasks
      BY <3>2, <1>0 DEF KubeTypes
    <3> QED
      BY <3>2, <3>3, <1>3, TailHas
  <2>2. After(queued, notes["ep"], Stale(epInf), EpTasks)
    BY DEF EpInv, StaleFollowed
  <2> QED
    BY <2>1, <2>2, <1>1, <1>2, <1>3, AppendTask
<1>8. ReadFresh'
  BY <1>2 DEF ReadFresh
<1>9. ASSUME NEW B PROVE Has(queued', B) <=> Has(queued, B) \/ x \in B
  BY <1>1, <1>2, <1>3, AppendHas
<1>10. NoneInvented'
  <2>1. Has(queued, EpTasks) => Has(queued', EpTasks)
    BY <1>9
  <2> QED
    BY <2>1, <1>2 DEF EpInv, NoneInvented, Listed, Pends
<1>11. NoneMissing'
  <2>1. Redo => Redo'
    <3>1. Has(queued, EpComes) => Has(queued', EpComes)
      BY <1>9
    <3>2. Has(queued, Fresh(epInf)) \/ readItem = epInf => Has(queued', Fresh(epInf))
      <4>1. readItem = epInf => x \in Fresh(epInf)
        BY <1>1 DEF Fresh
      <4> QED
        BY <4>1, <1>9
    <3>3. Fresh(epInf)' = Fresh(epInf)
      BY <1>2 DEF Fresh
    <3> QED
      BY <3>1, <3>2, <3>3, <1>2, <1>5 DEF Redo, Pends
  <2>2. ASSUME NEW a \in KPods \X IPs, ArrivalNoticed(a) PROVE ArrivalNoticed(a)'
    <3>1. a[1] \in KPods
      OBVIOUS
    <3>2. Pends("pod", Comes(a[1])) => Pends("pod", Comes(a[1]))'
      BY <3>1, <1>0, <1>4, PodKept
    <3> QED
      BY <3>2, <2>2, <1>2 DEF ArrivalNoticed
  <2> SUFFICES ASSUME ~overtaken, svcInf, epInf # Nil, NEW a \in epInf
               PROVE  a \in eds \/ Redo' \/ ArrivalNoticed(a)'
    BY <1>2 DEF NoneMissing, ArrivalNoticed
  <2>3. a \in eds \/ Redo \/ ArrivalNoticed(a)
    BY DEF EpInv, NoneMissing, ArrivalNoticed
  <2>4. a \in KPods \X IPs
    BY <1>0, KubeAssumption DEF KubeTypes
  <2> QED
    BY <2>1, <2>2, <2>3, <2>4
<1> QED
  BY <1>5, <1>6, <1>7, <1>8, <1>10, <1>11 DEF EpInv

(***************************************************************************)
(* buildIstioEndpoints builds an address or registers it for its pod.       *)
(***************************************************************************)
LEMMA BuiltOrRegistered ==
  ASSUME KubeTypes, epInf # Nil, Registers(epInf), UNCHANGED podInf, NEW a \in epInf
  PROVE  a \in Built(epInf) \/ ArrivalNoticed(a)'
<1>1. epInf \in EndpointSets
  BY DEF KubeTypes
<1>2. a[1] \in KPods /\ a[2] \in IPs
  BY <1>1, EpsAreAddresses
<1> SUFFICES ASSUME a \notin Built(epInf) PROVE ArrivalNoticed(a)'
  OBVIOUS
<1>3. podInf[a[1]] = Nil
  BY DEF Built
<1>4. a[2] \in needResync'
  BY DEF Registers
<1>5. podInf'[a[1]] # [ip |-> a[2], leaving |-> FALSE]
  BY <1>2, <1>3, SpecNotNil
<1> QED
  BY <1>4, <1>5 DEF ArrivalNoticed

(***************************************************************************)
(* Handling an Endpoints object keeps EpInv: the latest one is built, and   *)
(* any other is followed by a later task.                                   *)
(***************************************************************************)
LEMMA OnEndpointsEpInv ==
  ASSUME EpInv, KubeTypes', OnEndpoints
  PROVE  EpInv'
<1> DEFINE h == Head(queued)
<1>0. KubeTypes
  BY DEF EpInv
<1>1. queued # <<>> /\ h \in EpQueue /\ h[3] \in EndpointSets /\ readItem = Nil
  BY <1>0, HeadEndpoints DEF OnEndpoints, Task, EpQueue
<1>2. /\ queued' = Tail(queued)
      /\ UNCHANGED <<podInf, epInf, svcInf, notes, readItem, itemStale, overtaken>>
  BY DEF OnEndpoints, storeVars
<1>3. queued \in Seq(KubeTasks) /\ notes["ep"] \in Seq(KubeTasks)
  BY <1>0, NotesAreTasks
<1>4. SvcMatches'
  <2>1. Head(queued) \notin SvcTasks
    BY <1>1, TaskKinds DEF EpQueue
  <2>2. QueueKept("svc", SvcTasks)
    BY <2>1, <1>1, <1>2 DEF QueueKept
  <2> QED
    BY <2>2, <1>0, <1>2, SvcKept DEF EpInv
<1>5. /\ EpMatches'
      /\ epInf # Nil /\ h \in EpGone => Pends("ep", EpComes)'
      /\ epInf = Nil /\ h \in EpComes => Pends("ep", EpTasks)'
  <2>1. ASSUME epInf # Nil
        PROVE  /\ After(queued', notes["ep"], EpGone, EpComes)
               /\ h \in EpGone => Has(queued', EpComes) \/ Has(notes["ep"], EpComes)
    BY <2>1, <1>1, <1>2, <1>3, TailAfter DEF EpInv, EpMatches
  <2>2. ASSUME epInf = Nil
        PROVE  /\ After(queued', notes["ep"], EpComes, EpGone)
               /\ h \in EpComes => Has(queued', EpGone) \/ Has(notes["ep"], EpGone)
    BY <2>2, <1>1, <1>2, <1>3, TailAfter DEF EpInv, EpMatches
  <2>3. \A s : Has(s, EpGone) => Has(s, EpTasks)
    BY DEF Has, EpGone
  <2> QED
    BY <2>1, <2>2, <2>3, <1>2 DEF EpMatches, Pends
<1>6. /\ StaleFollowed'
      /\ ~overtaken /\ h \in Stale(epInf) => Pends("ep", EpTasks)'
  <2>1. ASSUME ~overtaken
        PROVE  /\ After(queued', notes["ep"], Stale(epInf), EpTasks)
               /\ h \in Stale(epInf) => Has(queued', EpTasks) \/ Has(notes["ep"], EpTasks)
    BY <2>1, <1>1, <1>2, <1>3, TailAfter DEF EpInv, StaleFollowed
  <2>2. Stale(epInf)' = Stale(epInf)
    BY <1>2 DEF Stale
  <2> QED
    BY <2>1, <2>2, <1>2 DEF StaleFollowed, Pends
<1>7. ReadFresh'
  BY <1>1, <1>2 DEF ReadFresh
<1>8. Listed' = Listed
  BY <1>2 DEF Listed
<1>9. ASSUME eds' = Built(epInf), Registers(epInf), epInf # Nil
      PROVE  NoneInvented' /\ NoneMissing'
  <2>1. eds' \subseteq Listed
    BY <1>9 DEF Listed, Built
  <2>2. \A a \in epInf : a \in eds' \/ ArrivalNoticed(a)'
    BY <1>0, <1>2, <1>9, BuiltOrRegistered
  <2> QED
    BY <2>1, <2>2, <1>2, <1>8 DEF NoneInvented, NoneMissing, ArrivalNoticed
<1>10. CASE h \in EpTasks
  <2>1. Task("ep") /\ (h[2] = "delete" <=> h \in EpGone) /\ (h[2] # "delete" <=> h \in EpComes)
    BY <1>1, <1>10, TaskKinds DEF OnEndpoints, Task, EpGone, EpComes
  <2>2. CASE h \in EpGone
    <3>1. eds' = {}
      BY <2>1, <2>2 DEF OnEndpoints, Event
    <3>2. epInf # Nil => Redo'
      BY <2>2, <1>5 DEF Redo
    <3> QED
      BY <3>1, <3>2, <1>2, <1>4, <1>5, <1>6, <1>7 DEF EpInv, NoneInvented, NoneMissing
  <2>3. CASE h \in EpComes /\ epInf # Nil
    <3>1. eds' = Built(epInf) /\ Registers(epInf)
      BY <2>1, <2>3 DEF OnEndpoints, Event
    <3> QED
      BY <3>1, <2>3, <1>4, <1>5, <1>6, <1>7, <1>9 DEF EpInv
  <2>4. CASE h \in EpComes /\ epInf = Nil
    <3>1. NoneInvented' /\ NoneMissing'
      BY <2>4, <1>2, <1>5 DEF NoneInvented, NoneMissing
    <3> QED
      BY <3>1, <1>4, <1>5, <1>6, <1>7 DEF EpInv
  <2> QED
    BY <2>1, <2>2, <2>3, <2>4
<1>11. CASE h \in ResyncTasks
  <2>1. ~Task("ep") /\ Event # "delete" /\ h[3] # Nil
    BY <1>1, <1>11, TaskKinds, KubeAssumption DEF Task, Event
  <2>2. eds' = Built(h[3]) /\ Registers(h[3])
    BY <2>1 DEF OnEndpoints
  <2>3. CASE h[3] = epInf
    BY <2>1, <2>2, <2>3, <1>4, <1>5, <1>6, <1>7, <1>9 DEF EpInv
  <2>4. CASE h[3] # epInf
    <3>1. ~overtaken => Pends("ep", EpTasks)'
      BY <2>4, <1>6, <1>11 DEF Stale
    <3>2. ~overtaken /\ epInf # Nil => Redo'
      <4> SUFFICES ASSUME ~overtaken, epInf # Nil PROVE Pends("ep", EpComes)'
        BY DEF Redo
      <4>1. EpTasks \subseteq EpGone \cup EpComes
        BY DEF EpGone, EpComes
      <4>2. After(queued', notes["ep"], EpGone, EpComes)
        BY <1>2, <1>5 DEF EpMatches
      <4>3. Has(queued', EpTasks) \/ Has(notes["ep"], EpTasks)
        BY <3>1, <1>2 DEF Pends
      <4>4. queued' \in Seq(KubeTasks)
        BY DEF KubeTypes
      <4>5. Has(queued', EpComes) \/ Has(notes["ep"], EpComes)
        BY <4>1, <4>2, <4>3, <4>4, <1>3, AfterAll
      <4> QED
        BY <4>5, <1>2 DEF Pends
    <3>3. NoneInvented' /\ NoneMissing'
      BY <3>1, <3>2, <1>2 DEF NoneInvented, NoneMissing
    <3> QED
      BY <3>3, <1>4, <1>5, <1>6, <1>7 DEF EpInv
  <2> QED
    BY <2>3, <2>4
<1> QED
  BY <1>1, <1>10, <1>11 DEF EpQueue

(***************************************************************************)
(* Handling a Service keeps EpInv.                                          *)
(***************************************************************************)
LEMMA OnServiceEpInv ==
  ASSUME EpInv, KubeTypes', OnService
  PROVE  EpInv'
<1> DEFINE h == Head(queued)
<1>0. KubeTypes
  BY DEF EpInv
<1>1. queued # <<>> /\ h \in SvcTasks /\ readItem = Nil
  BY <1>0, HeadService DEF OnService, Task
<1>2. /\ queued' = Tail(queued)
      /\ UNCHANGED <<podInf, epInf, svcInf, notes, readItem, itemStale, overtaken>>
  BY DEF OnService, storeVars
<1>3. queued \in Seq(KubeTasks) /\ notes["svc"] \in Seq(KubeTasks)
  BY <1>0, NotesAreTasks
<1>4. QueueKept("ep", EpQueue)
  <2>1. Head(queued) \notin EpQueue
    BY <1>1, TaskKinds DEF EpQueue
  <2> QED
    BY <2>1, <1>1, <1>2 DEF QueueKept
<1>5. EpMatches' /\ (Pends("ep", EpTasks) => Pends("ep", EpTasks)')
  BY <1>0, <1>2, <1>4, EpKept DEF EpInv
<1>6. StaleFollowed'
  <2>1. Stale(epInf)' = Stale(epInf)
    BY <1>2 DEF Stale
  <2> QED
    BY <2>1, <1>0, <1>2, <1>4, EpKept DEF EpInv, StaleFollowed
<1>7. SvcMatches' /\ (svcInf /\ h \in SvcGone => Pends("svc", SvcComes)')
  <2>1. ASSUME svcInf
        PROVE  /\ After(queued', notes["svc"], SvcGone, SvcComes)
               /\ h \in SvcGone => Has(queued', SvcComes) \/ Has(notes["svc"], SvcComes)
    BY <2>1, <1>1, <1>2, <1>3, TailAfter DEF EpInv, SvcMatches
  <2> QED
    BY <2>1, <1>2 DEF SvcMatches, Pends
<1>8. ReadFresh'
  BY <1>1, <1>2 DEF ReadFresh
<1>9. Listed' = Listed
  BY <1>2 DEF Listed
<1>10. ASSUME eds' = eds PROVE NoneInvented'
  BY <1>2, <1>5, <1>9, <1>10 DEF EpInv, NoneInvented
<1>11. CASE h \in SvcGone
  <2>1. eds' = {}
    BY <1>11 DEF OnService, Event, SvcGone
  <2>2. svcInf => Redo'
    BY <1>7, <1>11 DEF Redo
  <2> QED
    BY <2>1, <2>2, <1>2, <1>5, <1>6, <1>7, <1>8 DEF EpInv, NoneInvented, NoneMissing
<1>12. CASE h \notin SvcGone
  <2>0. Event # "delete"
    BY <1>1, <1>12 DEF SvcGone, Event
  <2>1. CASE epInf = Nil
    <3>1. eds' = eds
      BY <2>0, <2>1 DEF OnService
    <3>2. NoneMissing'
      BY <2>1, <1>2 DEF NoneMissing
    <3> QED
      BY <3>1, <3>2, <1>5, <1>6, <1>7, <1>8, <1>10 DEF EpInv
  <2>2. CASE epInf # Nil
    <3>1. Registers(epInf) /\ eds' = (IF Built(epInf) # {} THEN Built(epInf) ELSE eds)
      BY <2>0, <2>2 DEF OnService
    <3>2. \A a \in epInf : a \in Built(epInf) \/ ArrivalNoticed(a)'
      BY <3>1, <2>2, <1>0, <1>2, BuiltOrRegistered
    <3>3. NoneMissing'
      BY <3>1, <3>2, <1>2 DEF NoneMissing, ArrivalNoticed
    <3>4. NoneInvented'
      <4>1. CASE Built(epInf) # {}
        <5>1. eds' \subseteq Listed
          BY <4>1, <3>1, <2>2 DEF Listed, Built
        <5> QED
          BY <5>1, <1>9 DEF NoneInvented
      <4>2. CASE Built(epInf) = {}
        BY <4>2, <3>1, <1>10
      <4> QED
        BY <4>1, <4>2
    <3> QED
      BY <3>3, <3>4, <1>5, <1>6, <1>7, <1>8 DEF EpInv
  <2> QED
    BY <2>1, <2>2
<1> QED
  BY <1>11, <1>12

(***************************************************************************)
(* The initial state has EpInv.                                             *)
(***************************************************************************)
LEMMA EpInitInv == KubeInit => EpInv
<1> SUFFICES ASSUME KubeInit PROVE EpInv
  OBVIOUS
<1>1. queued = <<>> /\ notes["ep"] = <<>> /\ notes["svc"] = <<>> /\ epInf = Nil /\ svcInf = FALSE
      /\ readItem = Nil /\ eds = {}
  BY DEF KubeInit
<1>2. EpMatches /\ SvcMatches /\ StaleFollowed
  BY <1>1 DEF EpMatches, SvcMatches, StaleFollowed, After
<1>3. ReadFresh /\ NoneInvented /\ NoneMissing
  BY <1>1 DEF ReadFresh, NoneInvented, NoneMissing
<1> QED
  BY <1>2, <1>3, KubeInitTypes DEF EpInv

(***************************************************************************)
(* Every step keeps EpInv.                                                  *)
(***************************************************************************)
LEMMA EpNextInv == EpInv /\ [KubeNext]_kubeVars => EpInv'
<1> SUFFICES ASSUME EpInv, [KubeNext]_kubeVars PROVE EpInv'
  OBVIOUS
<1>0. KubeTypes'
  BY KubeNextTypes DEF EpInv
<1>1. CASE UNCHANGED kubeVars
  <2>1. /\ QueueKept("ep", EpQueue) /\ QueueKept("svc", SvcTasks)
        /\ UNCHANGED <<epInf, svcInf, overtaken, eds, podInf, needResync, skipped, readItem, queued, notes, itemStale>>
    BY <1>1 DEF kubeVars, storeVars, podCacheVars, QueueKept
  <2>2. ReadFresh' /\ (Redo => Redo')
    BY <2>1 DEF EpInv, ReadFresh, Redo, Pends, Fresh
  <2>3. \A a \in KPods \X IPs : ArrivalNoticed(a) => ArrivalNoticed(a)'
    BY <2>1 DEF ArrivalNoticed, Pends, Comes
  <2> QED
    BY <2>1, <2>2, <2>3, <1>0, EpInvKept
<1> QED
  BY <1>0, <1>1, PodChangesEpInv, EndpointsChangeEpInv, ServiceChangesEpInv, DeliverEpInv,
     PodTaskEpInv, PushItemEpInv, OnEndpointsEpInv, OnServiceEpInv DEF KubeNext

(***************************************************************************)
(* When everything is handled, the endpoints of a service are addresses of  *)
(* its Endpoints object, and all of those whose pod is there (updateEDS,    *)
(* buildIstioEndpoints, endpointDeferred and queueEndpointEvent), for any   *)
(* objects and number of changes, unless an object that was read was        *)
(* overtaken or an arriving pod was skipped.                                *)
(***************************************************************************)
THEOREM EndpointsAlwaysFollow == KubeSpec => []EndpointsFollow
<1>1. EpInv => EndpointsFollow
  <2> SUFFICES ASSUME EpInv, KubeSettled, svcInf, ~overtaken
               PROVE  /\ eds \subseteq Listed
                      /\ \A a \in Listed : podInf[a[1]] = [ip |-> a[2], leaving |-> FALSE]
                                             => a \in eds \/ a[2] \in skipped
    BY DEF EndpointsFollow, Listed
  <2>1. /\ queued = <<>> /\ notes["pod"] = <<>> /\ notes["ep"] = <<>> /\ notes["svc"] = <<>>
        /\ readItem = Nil
    BY DEF KubeSettled, EpInv, KubeTypes
  <2>2. \A B : ~Pends("pod", B) /\ ~Pends("ep", B) /\ ~Pends("svc", B) /\ ~Has(queued, B)
    BY <2>1 DEF Pends, Has
  <2>3. eds \subseteq Listed
    BY <2>2 DEF EpInv, NoneInvented
  <2>4. ASSUME NEW a \in Listed, podInf[a[1]] = [ip |-> a[2], leaving |-> FALSE]
        PROVE  a \in eds \/ a[2] \in skipped
    <3>1. epInf # Nil /\ a \in epInf
      BY <2>4 DEF Listed
    <3>2. ~Redo
      BY <2>1, <2>2, <3>1 DEF Redo
    <3> QED
      BY <2>2, <2>4, <3>1, <3>2 DEF EpInv, NoneMissing, ArrivalNoticed
  <2> QED
    BY <2>3, <2>4
<1> QED
  BY EpInitInv, EpNextInv, <1>1, PTL DEF KubeSpec

-----------------------------------------------------------------------------
(***************************************************************************)
(* The ServiceEntry registry.  An instance is <<host, key, <<key, addr>>>>;*)
(* an entry's own endpoint is an instance of its own host.                 *)
(***************************************************************************)
SeKeys      == Entries \cup SePods \cup Wles
EntryValues == EntrySpecs \cup {Missing}
WleValues   == WleSpecs \cup {Missing}
Addrs       == {s.endpoint : s \in EntrySpecs} \cup {s.addr : s \in WleSpecs} \cup {0}
Labels      == {s.label : s \in WleSpecs} \cup {PodLabel[p] : p \in SePods}
SeAddresses == SeKeys \X Addrs
Insts       == {i \in Entries \X SeKeys \X SeAddresses :
                  i[3][1] = i[2] /\ (i[2] \in Entries => i[1] = i[2])}
SeTasks     == ({"se"} \X Entries \X EntryValues \X EntryValues)
                 \cup ({"wle"} \X Wles \X WleValues \X WleValues)

IndexStates   == [pc : {"index"}, deleted : SUBSET Insts, updated : SUBSET Insts,
                  keys : SUBSET Entries]
RebuildStates == [pc : {"rebuild"}, keys : SUBSET Entries, entries : [Entries -> EntryValues]]
KeyStates     == [pc : {"refresh", "reset", "eds"}, keys : SUBSET Entries]
GiveStates    == [pc : {"give"}, keys : SUBSET Entries, found : SUBSET Insts]

SeTypes ==
  /\ seStore \in [Entries -> EntryValues]
  /\ wleStore \in [Wles -> WleValues]
  /\ podStore \subseteq SePods /\ byIP \subseteq SePods
  /\ seEvents \in Seq(SeTasks) /\ podEvents \in Seq(SePods \X BOOLEAN)
  /\ instances \subseteq Insts /\ ip2instance \subseteq Insts
  /\ selectors \subseteq Entries \X EntrySpecs
  /\ refreshIndexes \in BOOLEAN /\ raced \in BOOLEAN
  /\ at \in [Threads -> {Resting} \cup IndexStates \cup RebuildStates \cup KeyStates \cup GiveStates]
  /\ shards \in [Entries -> SUBSET SeAddresses]
  /\ unwritten \in [Threads -> BOOLEAN]
  /\ passed \in [Threads -> SUBSET Threads]
  /\ late \in [Threads -> SUBSET Entries] /\ reversed \subseteq Entries

(***************************************************************************)
(* The config thread is about to change instances of WorkloadEntries, the  *)
(* pod thread those of pods, of the hosts it will give to the XDS server.  *)
(***************************************************************************)
At(p, pcs) == at[p].pc \in pcs

Touched(p) == at[p].deleted \cup at[p].updated

IndexersOK ==
  \A p \in Threads : At(p, {"index"}) =>
    /\ p # "reader"
    /\ \A j \in Touched(p) : /\ j[1] \in at[p].keys
                             /\ j[2] \in IF p = "config" THEN Wles ELSE SePods

(***************************************************************************)
(* The events of an object start where the one before ended, and the last  *)
(* ends at what the store has.                                             *)
(***************************************************************************)
InStore(v)  == IF v[1] = "se" THEN seStore[v[2]] ELSE wleStore[v[2]]
SameObj(v)  == {u \in SeTasks : u[1] = v[1] /\ u[2] = v[2]}
Successors(v)    == {u \in SameObj(v) : u[3] = v[4]}

Current(k, n) == {u \in SeTasks : u[1] = k /\ u[2] = n /\ u[4] = InStore(u)}

SeLinked ==
  \A k \in 1..Len(seEvents) :
    \/ \E j \in (k+1)..Len(seEvents) : seEvents[j] \in Successors(seEvents[k])
    \/ /\ seEvents[k][4] = InStore(seEvents[k])
       /\ \A j \in (k+1)..Len(seEvents) : seEvents[j] \notin SameObj(seEvents[k])

SeReaches ==
  \A k \in 1..Len(seEvents) :
    \E j \in k..Len(seEvents) : seEvents[j] \in Current(seEvents[k][1], seEvents[k][2])

PodLinked ==
  \A k \in 1..Len(podEvents) :
    \/ \E j \in (k+1)..Len(podEvents) : podEvents[j][1] = podEvents[k][1]
    \/ podEvents[k][2] <=> podEvents[k][1] \notin podStore

PodsKnown ==
  \A p \in SePods : (p \in byIP <=> p \in podStore) \/ Has(podEvents, {p} \X BOOLEAN)

(***************************************************************************)
(* Somebody has written, or will write, from a stale read.                 *)
(***************************************************************************)
Doomed ==
  raced \/ \E p \in Threads : At(p, {"index", "rebuild", "reset"}) /\ ~unwritten[p]

(***************************************************************************)
(* The index once the threads about to write it have done so.              *)
(***************************************************************************)
Adds(i) == \E p \in Threads : At(p, {"index"}) /\ i \in at[p].updated

Will(i) ==
  \/ Adds(i)
  \/ /\ i \in instances
     /\ \A p \in Threads : At(p, {"index"}) =>
          \A j \in Touched(p) : j[1] # i[1] \/ j[2] # i[2]

WillByIP(i) ==
  \/ Adds(i)
  \/ /\ i \in ip2instance
     /\ \A p \in Threads : At(p, {"index"}) => \A j \in Touched(p) : j[3] # i[3]

(***************************************************************************)
(* What is to come for an entry: an event, one that changes its services,  *)
(* one that brings an endpoint; and for a WorkloadEntry.                   *)
(***************************************************************************)
SeTasksOf(e)  == {v \in SeTasks : v[1] = "se" /\ v[2] = e}
SvcTasksOf(e) == {v \in SeTasksOf(e) : ~OnlyEndpoints(v[3], v[4])}
Brings(i)     == {v \in SeTasksOf(i[1]) : i \in OwnInstances(i[1], v[4])}
WleTasksOf(w) == {v \in SeTasks : v[1] = "wle" /\ v[2] = w}
Moves(sels, i) == {v \in WleTasksOf(i[2]) : \/ i \in WleInstances(sels, i[2], v[3])
                                           \/ i \in WleInstances(sels, i[2], v[4])}
Relabels(i, l) == {v \in WleTasksOf(i[2]) : v[4] # Missing /\ v[4].label = l /\ i[3] = <<i[2], v[4].addr>>}

(***************************************************************************)
(* The handler of a ServiceEntry has marked the index and nobody has       *)
(* rebuilt it yet.                                                         *)
(***************************************************************************)
Marking(e) ==
  /\ refreshIndexes /\ At("config", {"refresh", "rebuild"})
  /\ \A p \in Threads : ~At(p, {"reset"})
  /\ seStore[e] = Missing \/ e \in at["config"].keys

Selects(sels, e, l) == \E t \in sels : t[1] = e /\ t[2].selector = l

SelectorsFollow ==
  \A e \in Entries :
    \/ Has(seEvents, SvcTasksOf(e)) \/ Marking(e)
    \/ \A l \in Labels :
         Selects(selectors, e, l) <=> seStore[e] # Missing /\ seStore[e].selector = l

OwnFollow ==
  \A e \in Entries :
    \/ Has(seEvents, SeTasksOf(e)) \/ Marking(e)
    \/ seStore[e] # Missing /\ seStore[e].endpoint = Missing
    \/ \A i \in Insts : i[2] = e => (Will(i) <=> i \in OwnInstances(e, seStore[e]))

PodsFollow ==
  \A p \in SePods, i \in Insts : i[2] = p =>
    (Will(i) <=> p \in byIP /\ i \in PodInstances(selectors, p))

WlesFollow ==
  \A w \in Wles, i \in Insts : i[2] = w =>
    /\ Will(i) => i \in WleInstances(selectors, w, wleStore[w]) \/ Has(seEvents, Moves(selectors, i))
    /\ i \in WleInstances(selectors, w, wleStore[w]) => Will(i) \/ Has(seEvents, WleTasksOf(w))

ByIPFollows ==
  \A i \in Insts : Will(i) => WillByIP(i) \/ Has(seEvents, WleTasksOf(i[2]))

(***************************************************************************)
(* What a thread has read of the ServiceEntries.                           *)
(***************************************************************************)
Agree(v, s) == IF v = Missing \/ s = Missing THEN v = s
               ELSE v.selector = s.selector /\ v.svc = s.svc

ReadsOK ==
  \A p \in Threads : At(p, {"rebuild"}) =>
    /\ refreshIndexes
    /\ \A e \in Entries :
         /\ at[p].entries[e] = seStore[e] \/ Has(seEvents, SeTasksOf(e))
         /\ Agree(at[p].entries[e], seStore[e]) \/ Has(seEvents, SvcTasksOf(e))
         /\ \A i \in OwnInstances(e, at[p].entries[e]) :
              \/ i \in instances \/ Has(seEvents, Brings(i))
              \/ At("config", {"refresh", "rebuild"}) /\ e \in at["config"].keys

(***************************************************************************)
(* A goroutine will read the instances of a host, to give them to the XDS  *)
(* server.                                                                 *)
(***************************************************************************)
Busy(e) == \E p \in Threads : ~At(p, {"idle", "give"}) /\ e \in at[p].keys

Soon(e, i) ==
  \/ Busy(e)
  \/ Has(seEvents, SvcTasksOf(e))
  \/ Has(seEvents, Brings(i))
  \/ Has(seEvents, Relabels(i, seStore[e].selector))

(***************************************************************************)
(* A goroutine is about to give the host what it read without i.  The XDS  *)
(* server has i, or was given the host's endpoints in reverse order, and   *)
(* whoever is still to give them without i comes late; or a goroutine is   *)
(* about to give i, which it read after everybody who has it not.          *)
(***************************************************************************)
Blind(q, e, i) == At(q, {"give"}) /\ e \in at[q].keys /\ i \notin at[q].found

Holds(e, i) ==
  /\ i[3] \in shards[e] \/ e \in reversed
  /\ \A q \in Threads : Blind(q, e, i) => e \in late[q]

Gives(p, e, i) ==
  /\ At(p, {"give"}) /\ e \in at[p].keys /\ i \in at[p].found
  /\ \A q \in Threads : Blind(q, e, i) => p \in passed[q] \/ e \in late[q]

Given(e, i) == Holds(e, i) \/ \E p \in Threads : Gives(p, e, i)

(***************************************************************************)
(* What the index has for a host, or should have, is with the XDS server or*)
(* will be.                                                                *)
(***************************************************************************)
EndpointsGiven ==
  \A e \in Entries, i \in Insts :
    /\ i[1] = e /\ seStore[e] # Missing
    /\ i \in instances \/ i \in Rebuilt(seStore, byIP, wleStore)
    => Given(e, i) \/ Soon(e, i)

IndexFacts == SelectorsFollow /\ OwnFollow /\ PodsFollow /\ WlesFollow /\ ByIPFollows

SeFacts == IndexFacts /\ ReadsOK /\ EndpointsGiven

SeInv == /\ SeTypes /\ IndexersOK /\ SeLinked /\ SeReaches /\ PodLinked /\ PodsKnown
         /\ Doomed \/ SeFacts
-----------------------------------------------------------------------------
(***************************************************************************)
(* The states of a goroutine.                                              *)
(***************************************************************************)
LEMMA AtTypes ==
  ASSUME SeTypes, NEW p \in Threads
  PROVE  /\ at[p].pc \in {"idle", "index", "refresh", "rebuild", "reset", "eds", "give"}
         /\ At(p, {"idle"}) <=> at[p] = Resting
         /\ At(p, {"index"}) => at[p] \in IndexStates
         /\ At(p, {"rebuild"}) => at[p] \in RebuildStates
         /\ At(p, {"refresh", "reset", "eds"}) => at[p] \in KeyStates
         /\ At(p, {"give"}) => at[p] \in GiveStates
         /\ ~At(p, {"idle"}) => at[p].keys \subseteq Entries
<1>1. at[p] \in {Resting} \cup IndexStates \cup RebuildStates \cup KeyStates \cup GiveStates
  BY DEF SeTypes
<1>2. CASE at[p] = Resting
  BY <1>2 DEF Resting, At
<1>3. CASE at[p] \in IndexStates
  BY <1>3 DEF Resting, At, IndexStates
<1>4. CASE at[p] \in RebuildStates
  BY <1>4 DEF Resting, At, RebuildStates
<1>5. CASE at[p] \in KeyStates
  BY <1>5 DEF Resting, At, KeyStates
<1>6. CASE at[p] \in GiveStates
  BY <1>6 DEF Resting, At, GiveStates
<1> QED
  BY <1>1, <1>2, <1>3, <1>4, <1>5, <1>6

(***************************************************************************)
(* The conversions.                                                        *)
(***************************************************************************)
LEMMA OwnFacts ==
  ASSUME NEW e \in Entries, NEW s \in EntryValues
  PROVE  /\ OwnInstances(e, s) \subseteq Insts
         /\ \A i \in OwnInstances(e, s) : i[1] = e /\ i[2] = e /\ i = <<e, e, i[3]>>
         /\ \A i, j \in OwnInstances(e, s) : i = j
         /\ OwnInstances(e, s) = {} <=> s = Missing \/ s.endpoint = Missing
<1>1. CASE s = Missing \/ s.endpoint = Missing
  BY <1>1 DEF OwnInstances
<1>2. CASE ~(s = Missing \/ s.endpoint = Missing)
  <2>1. OwnInstances(e, s) = {<<e, e, <<e, s.endpoint>>>>}
    BY <1>2 DEF OwnInstances
  <2>2. s.endpoint \in Addrs
    BY <1>2 DEF EntryValues, Addrs
  <2>3. <<e, e, <<e, s.endpoint>>>> \in Insts
    BY <2>2 DEF Insts, SeKeys, SeAddresses
  <2> QED
    BY <2>1, <2>3, <1>2
<1> QED
  BY <1>1, <1>2

(***************************************************************************)
(* What a selection gives for one key, label and address: one instance for *)
(* every host whose selector matches.                                      *)
(***************************************************************************)
LEMMA SelectedFacts ==
  ASSUME NEW sels \in SUBSET (Entries \X EntrySpecs), NEW k \in SePods \cup Wles,
         NEW l, NEW a \in Addrs
  PROVE  /\ Selected(sels, k, l, a) \subseteq Insts
         /\ \A i \in Selected(sels, k, l, a) : i[2] = k
         /\ \A i \in Insts : i[2] = k =>
              (i \in Selected(sels, k, l, a) <=> i[3][2] = a /\ Selects(sels, i[1], l))
<1>0. \A e \in Entries : <<e, k, <<k, a>>>> \in Insts
  BY SeAssumption DEF Insts, SeKeys, SeAddresses
<1>1. ASSUME NEW i \in Selected(sels, k, l, a)
      PROVE  i \in Insts /\ i[2] = k /\ i[3][2] = a /\ Selects(sels, i[1], l)
  <2>1. PICK t \in sels : t[2].selector = l /\ i = <<t[1], k, <<k, a>>>>
    BY DEF Selected
  <2>2. t[1] \in Entries
    OBVIOUS
  <2> QED
    BY <2>1, <2>2, <1>0 DEF Selects
<1>2. ASSUME NEW i \in Insts, i[2] = k, i[3][2] = a, Selects(sels, i[1], l)
      PROVE  i \in Selected(sels, k, l, a)
  <2>1. PICK t \in sels : t[1] = i[1] /\ t[2].selector = l
    BY <1>2 DEF Selects
  <2>2. i = <<i[1], i[2], i[3]>> /\ i[3] = <<i[3][1], i[3][2]>> /\ i[3][1] = i[2]
    BY DEF Insts, SeAddresses
  <2>3. i = <<t[1], k, <<k, a>>>>
    BY <2>1, <2>2, <1>2
  <2> QED
    BY <2>1, <2>3 DEF Selected
<1> QED
  BY <1>1, <1>2

(***************************************************************************)
(* The same for a WorkloadEntry, which gives none once it is gone.         *)
(***************************************************************************)
LEMMA WleFacts ==
  ASSUME NEW sels \in SUBSET (Entries \X EntrySpecs), NEW w \in Wles, NEW s \in WleValues
  PROVE  /\ WleInstances(sels, w, s) \subseteq Insts
         /\ \A i \in WleInstances(sels, w, s) : i[2] = w /\ s # Missing
         /\ \A i \in Insts : i[2] = w =>
              (i \in WleInstances(sels, w, s) <=>
                 s # Missing /\ i[3][2] = s.addr /\ Selects(sels, i[1], s.label))
<1>1. CASE s = Missing
  BY <1>1 DEF WleInstances
<1>2. CASE s # Missing
  <2>1. s.addr \in Addrs
    BY <1>2 DEF WleValues, Addrs
  <2> QED
    BY <1>2, <2>1, SelectedFacts DEF WleInstances
<1> QED
  BY <1>1, <1>2

(***************************************************************************)
(* The same for a pod.                                                     *)
(***************************************************************************)
LEMMA PodFacts ==
  ASSUME NEW sels \in SUBSET (Entries \X EntrySpecs), NEW p \in SePods
  PROVE  /\ PodInstances(sels, p) \subseteq Insts
         /\ \A i \in PodInstances(sels, p) : i[2] = p
         /\ \A i \in Insts : i[2] = p =>
              (i \in PodInstances(sels, p) <=> i[3][2] = 0 /\ Selects(sels, i[1], PodLabel[p]))
<1>1. 0 \in Addrs
  BY DEF Addrs
<1> QED
  BY <1>1, SelectedFacts DEF PodInstances

(***************************************************************************)
(* The selectors of a rebuild are those of the ServiceEntries it read.     *)
(***************************************************************************)
LEMMA SelectorFacts ==
  ASSUME NEW store \in [Entries -> EntryValues]
  PROVE  /\ WithSelector(store) \in SUBSET (Entries \X EntrySpecs)
         /\ \A e \in Entries, l \in Labels :
              Selects(WithSelector(store), e, l) <=> store[e] # Missing /\ store[e].selector = l
<1>1. \A l \in Labels : l # Missing
  BY SeAssumption DEF Labels
<1>2. WithSelector(store) \in SUBSET (Entries \X EntrySpecs)
  BY DEF WithSelector, EntryValues
<1>3. ASSUME NEW e \in Entries, NEW l \in Labels
      PROVE  Selects(WithSelector(store), e, l) <=> store[e] # Missing /\ store[e].selector = l
  <2>1. ASSUME store[e] # Missing, store[e].selector = l PROVE Selects(WithSelector(store), e, l)
    <3>1. <<e, store[e]>> \in WithSelector(store)
      BY <2>1, <1>1 DEF WithSelector
    <3> QED
      BY <3>1, <2>1 DEF Selects
  <2>2. ASSUME Selects(WithSelector(store), e, l) PROVE store[e] # Missing /\ store[e].selector = l
    <3>1. PICK t \in WithSelector(store) : t[1] = e /\ t[2].selector = l
      BY <2>2 DEF Selects
    <3>2. PICK d \in Entries : t = <<d, store[d]>> /\ store[d] # Missing
      BY DEF WithSelector
    <3> QED
      BY <3>1, <3>2
  <2> QED
    BY <2>1, <2>2
<1> QED
  BY <1>2, <1>3

(***************************************************************************)
(* What a rebuild gives, by the object an instance comes from.             *)
(***************************************************************************)
LEMMA RebuiltFacts ==
  ASSUME NEW store \in [Entries -> EntryValues], NEW pods \in SUBSET SePods,
         NEW wles \in [Wles -> WleValues]
  PROVE  /\ Rebuilt(store, pods, wles) \subseteq Insts
         /\ \A i \in Insts :
              i \in Rebuilt(store, pods, wles) <=>
                \/ i[2] \in Entries /\ i \in OwnInstances(i[2], store[i[2]])
                \/ i[2] \in pods /\ i \in PodInstances(WithSelector(store), i[2])
                \/ i[2] \in Wles /\ i \in WleInstances(WithSelector(store), i[2], wles[i[2]])
<1> DEFINE sels == WithSelector(store)
<1>0. sels \in SUBSET (Entries \X EntrySpecs)
  BY SelectorFacts
<1> HIDE DEF sels
<1>1. \A i : i \in Rebuilt(store, pods, wles) <=>
        \/ \E e \in Entries : i \in OwnInstances(e, store[e])
        \/ \E p \in pods : i \in PodInstances(sels, p)
        \/ \E w \in Wles : i \in WleInstances(sels, w, wles[w])
  BY DEF Rebuilt, sels
<1>2. \A e \in Entries : OwnInstances(e, store[e]) \subseteq Insts
                           /\ \A i \in OwnInstances(e, store[e]) : i[2] = e
  BY OwnFacts
<1>3. \A p \in pods : PodInstances(sels, p) \subseteq Insts
                        /\ \A i \in PodInstances(sels, p) : i[2] = p
  BY <1>0, PodFacts
<1>4. \A w \in Wles : WleInstances(sels, w, wles[w]) \subseteq Insts
                        /\ \A i \in WleInstances(sels, w, wles[w]) : i[2] = w
  BY <1>0, WleFacts
<1>5. Rebuilt(store, pods, wles) \subseteq Insts
  BY <1>1, <1>2, <1>3, <1>4
<1>6. ASSUME NEW i \in Insts
      PROVE  i \in Rebuilt(store, pods, wles) <=>
                \/ i[2] \in Entries /\ i \in OwnInstances(i[2], store[i[2]])
                \/ i[2] \in pods /\ i \in PodInstances(sels, i[2])
                \/ i[2] \in Wles /\ i \in WleInstances(sels, i[2], wles[i[2]])
  BY <1>1, <1>2, <1>3, <1>4
<1> QED
  BY <1>5, <1>6 DEF sels

-----------------------------------------------------------------------------
(***************************************************************************)
(* Types.                                                                  *)
(***************************************************************************)
LEMMA SeEventHead ==
  ASSUME SeTypes, seEvents # <<>>, NEW v, v = Head(seEvents)
  PROVE  /\ v \in SeTasks /\ v = <<v[1], v[2], v[3], v[4]>> /\ Tail(seEvents) \in Seq(SeTasks)
         /\ v[1] = "se" => v[2] \in Entries /\ v[3] \in EntryValues /\ v[4] \in EntryValues
         /\ v[1] = "wle" => v[2] \in Wles /\ v[3] \in WleValues /\ v[4] \in WleValues
         /\ v[1] \in {"se", "wle"}
<1>1. v \in SeTasks /\ Tail(seEvents) \in Seq(SeTasks)
  BY DEF SeTypes
<1> QED
  BY <1>1 DEF SeTasks

(***************************************************************************)
(* A change of an object keeps the types.                                  *)
(***************************************************************************)
LEMMA ChangeTypes ==
  ASSUME SeTypes, IndexersOK,
         \/ \E e \in Entries, spec \in EntrySpecs \cup {Missing} : ChangeEntry(e, spec)
         \/ \E w \in Wles, spec \in WleSpecs \cup {Missing} : ChangeWle(w, spec)
         \/ \E p \in SePods : ChangePod(p)
  PROVE  SeTypes' /\ IndexersOK'
<1>0. UNCHANGED at
  BY DEF ChangeEntry, ChangeWle, ChangePod
<1>1. IndexersOK'
  BY <1>0 DEF IndexersOK, At, Touched
<1>2. ASSUME NEW e \in Entries, NEW spec \in EntrySpecs \cup {Missing}, ChangeEntry(e, spec)
      PROVE  SeTypes'
  <2>1. <<"se", e, seStore[e], spec>> \in SeTasks
    BY DEF SeTasks, SeTypes, EntryValues
  <2> QED
    BY <1>2, <2>1 DEF SeTypes, ChangeEntry, EntryValues, orderVars
<1>3. ASSUME NEW w \in Wles, NEW spec \in WleSpecs \cup {Missing}, ChangeWle(w, spec)
      PROVE  SeTypes'
  <2>1. <<"wle", w, wleStore[w], spec>> \in SeTasks
    BY DEF SeTasks, SeTypes, WleValues
  <2> QED
    BY <1>3, <2>1 DEF SeTypes, ChangeWle, WleValues, orderVars
<1>4. ASSUME NEW p \in SePods, ChangePod(p) PROVE SeTypes'
  <2> DEFINE b == p \in podStore
  <2>0. b \in BOOLEAN
    OBVIOUS
  <2> HIDE DEF b
  <2>1a. <<p, b>> \in SePods \X BOOLEAN
    BY <2>0
  <2>1. <<p, p \in podStore>> \in SePods \X BOOLEAN
    BY <2>1a DEF b
  <2>2. podEvents' \in Seq(SePods \X BOOLEAN) /\ podStore' \subseteq SePods
    BY <1>4, <2>1 DEF SeTypes, ChangePod
  <2> QED
    BY <1>4, <2>2 DEF SeTypes, ChangePod, orderVars
<1> QED
  BY <1>1, <1>2, <1>3, <1>4

(***************************************************************************)
(* What the handlers of a WorkloadEntry and of a pod will do to the index: *)
(* everything for the old and the new labels, or for the pod, is replaced. *)
(***************************************************************************)
LEMMA WleHandlerIndex ==
  ASSUME SeTypes, WleHandlerStart, selectors # {}, NEW v, v = Head(seEvents)
  PROVE  /\ v[2] \in Wles /\ v[3] \in WleValues /\ v[4] \in WleValues /\ v \in WleTasksOf(v[2])
         /\ at'["config"] \in IndexStates
         /\ at'["config"].updated = WleInstances(selectors, v[2], v[4])
         /\ \A p \in Threads \ {"config"} : at'[p] = at[p]
         /\ at' \in [Threads -> {Resting} \cup IndexStates \cup RebuildStates \cup KeyStates \cup GiveStates]
         /\ \A j \in Touched("config")' : j[2] = v[2] /\ j[1] \in at'["config"].keys
         /\ \A j \in WleInstances(selectors, v[2], v[3]) \cup WleInstances(selectors, v[2], v[4]) :
              \E i \in Touched("config")' : i[1] = j[1]
         /\ \A j \in WleInstances(selectors, v[2], v[3]) \cup WleInstances(selectors, v[2], v[4]) :
              j[1] \in at'["config"].keys
         /\ Touched("config")' \subseteq WleInstances(selectors, v[2], v[3])
                                           \cup WleInstances(selectors, v[2], v[4])
<1> DEFINE w == v[2]
           spec == IF v[4] = Missing THEN v[3] ELSE v[4]
           upd == WleInstances(selectors, w, spec)
           del == IF v[4] = Missing THEN {}
                  ELSE {i \in WleInstances(selectors, w, v[3]) : \A j \in upd : j[1] # i[1]}
           new == [pc |-> "index", deleted |-> IF v[4] = Missing THEN upd ELSE del,
                   updated |-> IF v[4] = Missing THEN {} ELSE upd,
                   keys |-> {i[1] : i \in upd \cup del}]
           O == WleInstances(selectors, w, v[3])
           C == WleInstances(selectors, w, v[4])
<1>0. v[1] = "wle" /\ w \in Wles /\ v[3] \in WleValues /\ v[4] \in WleValues
        /\ v \in WleTasksOf(v[2])
  BY SeEventHead DEF WleHandlerStart, WleTasksOf
<1>1. at' = [at EXCEPT !["config"] = new] /\ "config" \in Threads
  BY DEF WleHandlerStart, Threads
<1>2. at'["config"] = new /\ \A p \in Threads \ {"config"} : at'[p] = at[p]
  BY <1>1 DEF SeTypes
<1>3. O \subseteq Insts /\ C \subseteq Insts /\ \A j \in O \cup C : j[2] = w
  BY <1>0, WleFacts DEF SeTypes
<1>4. v[4] = Missing => C = {} /\ upd = O /\ del = {}
  BY DEF WleInstances
<1>5. v[4] # Missing => upd = C /\ del \subseteq O /\ \A j \in O : j \in del \/ \E i \in C : i[1] = j[1]
  OBVIOUS
<1> HIDE DEF O, C, upd, del, w
<1>6. upd \cup del \subseteq O \cup C /\ upd \cup del \subseteq Insts
  BY <1>3, <1>4, <1>5
<1>7. {i[1] : i \in upd \cup del} \subseteq Entries
  <2>1. \A i \in Insts : i[1] \in Entries
    BY DEF Insts
  <2> QED
    BY <1>6, <2>1
<1>8. new \in IndexStates
  BY <1>6, <1>7, <1>4, <1>5 DEF IndexStates
<1>9. new.updated = C
  BY <1>4, <1>5
<1>10. new.deleted \cup new.updated = upd \cup del
  BY <1>4, <1>5
<1>11. Touched("config")' = upd \cup del
  BY <1>2, <1>10 DEF Touched
<1>12. \A j \in O \cup C : \E i \in upd \cup del : i[1] = j[1]
  BY <1>4, <1>5
<1>13. \A i \in upd \cup del : i[1] \in new.keys
  OBVIOUS
<1>14. \A j \in O \cup C : j[1] \in new.keys
  BY <1>12, <1>13
<1>15. at' \in [Threads -> {Resting} \cup IndexStates \cup RebuildStates \cup KeyStates \cup GiveStates]
  BY <1>1, <1>8 DEF SeTypes
<1> HIDE DEF new
<1>16. \A j \in Touched("config")' : j[2] = v[2] /\ j[1] \in at'["config"].keys
  BY <1>2, <1>11, <1>13, <1>6, <1>3 DEF w
<1>17. at'["config"].updated = C /\ at'["config"] \in IndexStates
  BY <1>2, <1>8, <1>9
<1>18. (\A j \in O \cup C : \E i \in Touched("config")' : i[1] = j[1])
        /\ (\A j \in O \cup C : j[1] \in at'["config"].keys) /\ Touched("config")' \subseteq O \cup C
  BY <1>2, <1>11, <1>12, <1>14, <1>6
<1> QED
  BY <1>0, <1>2, <1>15, <1>16, <1>17, <1>18 DEF O, C, w

(***************************************************************************)
(* The handler of a pod's event: it is about to add or to delete the       *)
(* instances of the pod, for the selectors read, and will give their       *)
(* hosts.                                                                  *)
(***************************************************************************)
LEMMA PodHandlerIndex ==
  ASSUME SeTypes, PodHandlerStart, NEW v, v = Head(podEvents),
         selectors # {}, (v[1] \in byIP) = v[2]
  PROVE  /\ at'["pod"] \in IndexStates
         /\ Touched("pod")' = PodInstances(selectors, v[1])
         /\ at'["pod"].updated = IF v[2] THEN {} ELSE PodInstances(selectors, v[1])
         /\ \A j \in PodInstances(selectors, v[1]) : j[1] \in at'["pod"].keys /\ j[2] = v[1]
         /\ \A p \in Threads \ {"pod"} : at'[p] = at[p]
         /\ at' \in [Threads -> {Resting} \cup IndexStates \cup RebuildStates \cup KeyStates \cup GiveStates]
<1> DEFINE own == PodInstances(selectors, v[1])
           new == [pc |-> "index", deleted |-> IF v[2] THEN own ELSE {},
                    updated |-> IF v[2] THEN {} ELSE own, keys |-> {i[1] : i \in own}]
<1>0. v \in SePods \X BOOLEAN
  BY DEF SeTypes, PodHandlerStart
<1>1. at' = [at EXCEPT !["pod"] = new] /\ "pod" \in Threads
  BY DEF PodHandlerStart, Threads
<1>2. at'["pod"] = new /\ \A p \in Threads \ {"pod"} : at'[p] = at[p]
  BY <1>1 DEF SeTypes
<1>3. v[1] \in SePods /\ v[2] \in BOOLEAN
  BY <1>0
<1>4. own \subseteq Insts /\ \A j \in own : j[2] = v[1]
  BY <1>3, PodFacts DEF SeTypes
<1> HIDE DEF own
<1>5. {i[1] : i \in own} \subseteq Entries
  <2>1. \A i \in Insts : i[1] \in Entries
    BY DEF Insts
  <2> QED
    BY <1>4, <2>1
<1>6. new \in IndexStates
  BY <1>4, <1>5, <1>3 DEF IndexStates
<1>7. new.deleted \cup new.updated = own /\ new.updated = (IF v[2] THEN {} ELSE own)
        /\ \A j \in own : j[1] \in new.keys
  BY <1>3
<1>8. at' \in [Threads -> {Resting} \cup IndexStates \cup RebuildStates \cup KeyStates \cup GiveStates]
  BY <1>1, <1>6 DEF SeTypes
<1> HIDE DEF new
<1> QED
  BY <1>2, <1>4, <1>6, <1>7, <1>8 DEF Touched, own

(***************************************************************************)
(* One goroutine moves.                                                    *)
(***************************************************************************)
LEMMA OneMoves ==
  ASSUME SeTypes, NEW p \in Threads,
         NEW new \in {Resting} \cup RebuildStates \cup KeyStates \cup GiveStates,
         at' = [at EXCEPT ![p] = new]
  PROVE  /\ at' \in [Threads -> {Resting} \cup IndexStates \cup RebuildStates \cup KeyStates \cup GiveStates]
         /\ at'[p] = new /\ ~At(p, {"index"})'
         /\ \A q \in Threads \ {p} : at'[q] = at[q]
         /\ IndexersOK => IndexersOK'
<1>1. at' \in [Threads -> {Resting} \cup IndexStates \cup RebuildStates \cup KeyStates \cup GiveStates]
  BY DEF SeTypes
<1>2. at'[p] = new /\ \A q \in Threads \ {p} : at'[q] = at[q]
  BY DEF SeTypes
<1>3. ~At(p, {"index"})'
  BY <1>2 DEF At, Resting, RebuildStates, KeyStates, GiveStates
<1>4. IndexersOK => IndexersOK'
  BY <1>2, <1>3 DEF IndexersOK, At, Touched
<1> QED
  BY <1>1, <1>2, <1>3, <1>4

(***************************************************************************)
(* The handlers keep the types, and who is about to write the index        *)
(* touches only instances of its own kind of objects.                      *)
(***************************************************************************)
LEMMA HandlerTypes ==
  ASSUME SeTypes, IndexersOK,
         WleHandlerStart \/ PodHandlerStart \/ EntryHandlerEndpoints \/ EntryHandlerServices
  PROVE  SeTypes' /\ IndexersOK'
<1>0. {"config", "pod", "reader"} = Threads
  BY DEF Threads
<1>1. CASE WleHandlerStart
  <2>0. /\ seEvents' \in Seq(SeTasks)
        /\ unwritten' \in [Threads -> BOOLEAN]
    BY <1>1, <1>0 DEF SeTypes, WleHandlerStart, Reads
  <2>1. CASE selectors = {}
    <3>1. at' = [at EXCEPT !["config"] = Resting]
      BY <1>1, <2>1 DEF WleHandlerStart
    <3>2. at' \in [Threads -> {Resting} \cup IndexStates \cup RebuildStates \cup KeyStates \cup GiveStates]
            /\ IndexersOK'
      BY <3>1, <1>0, OneMoves
    <3> QED
      BY <1>1, <2>0, <3>2 DEF SeTypes, WleHandlerStart, objectVars, orderVars
  <2>2. CASE selectors # {}
    <3>1. /\ at' \in [Threads -> {Resting} \cup IndexStates \cup RebuildStates \cup KeyStates \cup GiveStates]
          /\ \A p \in Threads \ {"config"} : at'[p] = at[p]
          /\ \A j \in Touched("config")' : j[2] \in Wles /\ j[1] \in at'["config"].keys
      BY <1>1, <2>2, WleHandlerIndex
    <3>2. IndexersOK'
      BY <3>1 DEF IndexersOK, At, Touched
    <3> QED
      BY <1>1, <2>0, <3>1, <3>2 DEF SeTypes, WleHandlerStart, objectVars, orderVars
  <2> QED
    BY <2>1, <2>2
<1>2. CASE PodHandlerStart
  <2> DEFINE v == Head(podEvents)
  <2>0. /\ podEvents' \in Seq(SePods \X BOOLEAN)
        /\ unwritten' \in [Threads -> BOOLEAN]
        /\ v \in SePods \X BOOLEAN
        /\ byIP' \subseteq SePods
    BY <1>2, <1>0 DEF SeTypes, PodHandlerStart, Reads
  <2>3. v[1] \in SePods /\ v[2] \in BOOLEAN
    BY <2>0
  <2>1. CASE selectors = {} \/ (v[1] \in byIP) # v[2]
    <3>1. at' = [at EXCEPT !["pod"] = Resting]
      BY <1>2, <2>1 DEF PodHandlerStart
    <3>2. at' \in [Threads -> {Resting} \cup IndexStates \cup RebuildStates \cup KeyStates \cup GiveStates]
            /\ IndexersOK'
      BY <3>1, <1>0, OneMoves
    <3> QED
      BY <1>2, <2>0, <3>2 DEF SeTypes, PodHandlerStart, objectVars, orderVars
  <2>2. CASE selectors # {} /\ (v[1] \in byIP) = v[2]
    <3>1. /\ at' \in [Threads -> {Resting} \cup IndexStates \cup RebuildStates \cup KeyStates \cup GiveStates]
          /\ \A p \in Threads \ {"pod"} : at'[p] = at[p]
          /\ \A j \in Touched("pod")' : j[2] = v[1] /\ j[1] \in at'["pod"].keys
      BY <1>2, <2>2, PodHandlerIndex
    <3>2. IndexersOK'
      BY <3>1, <2>3 DEF IndexersOK, At, Touched
    <3> QED
      BY <1>2, <2>0, <3>1, <3>2 DEF SeTypes, PodHandlerStart, objectVars, orderVars
  <2> QED
    BY <2>1, <2>2
<1>3. CASE EntryHandlerEndpoints
  <2> DEFINE v == Head(seEvents)
             own == OwnInstances(v[2], v[4])
             new == [pc |-> "refresh", keys |-> {i[1] : i \in own}]
  <2>0. v[2] \in Entries /\ v[4] \in EntryValues /\ seEvents' \in Seq(SeTasks)
    BY <1>3, SeEventHead DEF EntryHandlerEndpoints
  <2>1. own \subseteq Insts /\ \A i \in own : i[1] \in Entries
    BY <2>0, OwnFacts
  <2>2. instances' \subseteq Insts /\ ip2instance' \subseteq Insts
    <3>1. instances' = Deleted(instances, {} \cup own) \cup own
            /\ ip2instance' = {i \in ip2instance : \A j \in {} \cup own : j[3] # i[3]} \cup own
      BY <1>3 DEF EntryHandlerEndpoints, Replace
    <3> HIDE DEF own
    <3> QED
      BY <3>1, <2>1 DEF Deleted, SeTypes
  <2>3. new \in KeyStates
    BY <2>1 DEF KeyStates
  <2>4. at' = [at EXCEPT !["config"] = new]
    BY <1>3 DEF EntryHandlerEndpoints
  <2> HIDE DEF new
  <2>5. at' \in [Threads -> {Resting} \cup IndexStates \cup RebuildStates \cup KeyStates \cup GiveStates]
          /\ IndexersOK'
    BY <2>3, <2>4, <1>0, OneMoves
  <2> QED
    BY <1>3, <2>0, <2>2, <2>5 DEF SeTypes, EntryHandlerEndpoints, Wrote, objectVars, orderVars
<1>4. CASE EntryHandlerServices
  <2> DEFINE v == Head(seEvents)
             new == [pc |-> "refresh", keys |-> IF v[4] = Missing THEN {} ELSE {v[2]}]
  <2>0. v[2] \in Entries /\ v[4] \in EntryValues /\ seEvents' \in Seq(SeTasks)
    BY <1>4, SeEventHead DEF EntryHandlerServices
  <2>1. new \in KeyStates
    BY <2>0 DEF KeyStates
  <2>2. at' = [at EXCEPT !["config"] = new]
          /\ shards' = (IF v[4] = Missing THEN [shards EXCEPT ![v[2]] = {}] ELSE shards)
    BY <1>4 DEF EntryHandlerServices
  <2> HIDE DEF new, v
  <2>3. at' \in [Threads -> {Resting} \cup IndexStates \cup RebuildStates \cup KeyStates \cup GiveStates]
          /\ IndexersOK'
    BY <2>1, <2>2, <1>0, OneMoves
  <2>4. shards' \in [Entries -> SUBSET SeAddresses]
    BY <2>2, <2>0 DEF SeTypes
  <2> QED
    BY <1>4, <2>0, <2>3, <2>4 DEF SeTypes, EntryHandlerServices, Wrote, objectVars, orderVars
<1> QED
  BY <1>1, <1>2, <1>3, <1>4

(***************************************************************************)
(* Where the steps of a goroutine after its handler take it.               *)
(***************************************************************************)
LEMMA ThreadMoves ==
  ASSUME SeTypes, NEW p \in Threads
  PROVE  /\ UpdateIndex(p) =>
              /\ at[p] \in IndexStates /\ [pc |-> "refresh", keys |-> at[p].keys] \in KeyStates
              /\ at' = [at EXCEPT ![p] = [pc |-> "refresh", keys |-> at[p].keys]]
         /\ RefreshNotNeeded(p) =>
              /\ at[p] \in KeyStates /\ [pc |-> "eds", keys |-> at[p].keys] \in KeyStates
              /\ at' = [at EXCEPT ![p] = [pc |-> "eds", keys |-> at[p].keys]]
         /\ RefreshRead(p) =>
              /\ at[p] \in KeyStates
              /\ [pc |-> "rebuild", keys |-> at[p].keys, entries |-> seStore] \in RebuildStates
              /\ at' = [at EXCEPT ![p] = [pc |-> "rebuild", keys |-> at[p].keys,
                                          entries |-> seStore]]
         /\ RefreshWrite(p) =>
              /\ at[p] \in RebuildStates /\ [pc |-> "reset", keys |-> at[p].keys] \in KeyStates
              /\ at' = [at EXCEPT ![p] = [pc |-> "reset", keys |-> at[p].keys]]
         /\ RefreshReset(p) =>
              /\ at[p] \in KeyStates /\ [pc |-> "eds", keys |-> at[p].keys] \in KeyStates
              /\ at' = [at EXCEPT ![p] = [pc |-> "eds", keys |-> at[p].keys]]
         /\ EdsRead(p) =>
              at[p] \in KeyStates /\ \E new \in {Resting} \cup GiveStates : at' = [at EXCEPT ![p] = new]
         /\ \A e \in Entries : EdsGive(p, e) =>
              at[p] \in GiveStates /\ \E new \in {Resting} \cup GiveStates : at' = [at EXCEPT ![p] = new]
<1>1. UpdateIndex(p) => at[p] \in IndexStates
  BY AtTypes DEF At, UpdateIndex
<1>2. RefreshWrite(p) => at[p] \in RebuildStates
  BY AtTypes DEF At, RefreshWrite
<1>3. RefreshNotNeeded(p) \/ RefreshRead(p) \/ RefreshReset(p) \/ EdsRead(p)
        => at[p] \in KeyStates
  BY AtTypes DEF At, RefreshNotNeeded, RefreshRead, RefreshReset, EdsRead
<1>4. ASSUME at[p] \in KeyStates
      PROVE  [at EXCEPT ![p].pc = "eds"] = [at EXCEPT ![p] = [pc |-> "eds", keys |-> at[p].keys]]
  <2>1. [at[p] EXCEPT !.pc = "eds"] = [pc |-> "eds", keys |-> at[p].keys]
    BY <1>4 DEF KeyStates
  <2> QED
    BY <2>1
<1>5. \A k \in SUBSET Entries : /\ [pc |-> "eds", keys |-> k] \in KeyStates
                                /\ [pc |-> "reset", keys |-> k] \in KeyStates
                                /\ [pc |-> "refresh", keys |-> k] \in KeyStates
                                /\ [pc |-> "rebuild", keys |-> k, entries |-> seStore] \in RebuildStates
  BY DEF KeyStates, RebuildStates, SeTypes
<1>6. at[p] \in IndexStates \cup RebuildStates \cup KeyStates => at[p].keys \in SUBSET Entries
  BY DEF IndexStates, RebuildStates, KeyStates
<1>7. UpdateIndex(p) => at' = [at EXCEPT ![p] = [pc |-> "refresh", keys |-> at[p].keys]]
  BY DEF UpdateIndex
<1>8. RefreshNotNeeded(p) => at' = [at EXCEPT ![p].pc = "eds"]
  BY DEF RefreshNotNeeded
<1>9. RefreshRead(p) => at' = [at EXCEPT ![p] = [pc |-> "rebuild", keys |-> at[p].keys,
                                          entries |-> seStore]]
  BY DEF RefreshRead
<1>10. RefreshWrite(p) => at' = [at EXCEPT ![p] = [pc |-> "reset", keys |-> at[p].keys]]
  BY DEF RefreshWrite
<1>11. RefreshReset(p) => at' = [at EXCEPT ![p].pc = "eds"]
  BY DEF RefreshReset
<1>12. ASSUME EdsRead(p) PROVE \E new \in {Resting} \cup GiveStates : at' = [at EXCEPT ![p] = new]
  <2> DEFINE found == {i \in instances : i[1] \in at[p].keys}
             hosts == IF found = {} THEN at[p].keys ELSE {i[1] : i \in found}
             give == [pc |-> "give", keys |-> hosts, found |-> found]
  <2>1. at' = [at EXCEPT ![p] = IF hosts = {} THEN Resting ELSE give]
    BY <1>12 DEF EdsRead
  <2>2. found \subseteq Insts /\ hosts \subseteq Entries
    BY <1>12, <1>3, <1>6 DEF SeTypes
  <2> HIDE DEF found, hosts
  <2>3. give \in GiveStates
    BY <2>2 DEF GiveStates
  <2> QED
    BY <2>1, <2>3
<1>13. ASSUME NEW e \in Entries, EdsGive(p, e)
       PROVE  at[p] \in GiveStates /\ \E new \in {Resting} \cup GiveStates : at' = [at EXCEPT ![p] = new]
  <2> DEFINE give == [pc |-> "give", keys |-> at[p].keys \ {e}, found |-> at[p].found]
  <2>1. at' = [at EXCEPT ![p] = IF at[p].keys = {e} THEN Resting ELSE give]
    BY <1>13 DEF EdsGive
  <2>2. at[p] \in GiveStates
    BY <1>13, AtTypes DEF At, EdsGive
  <2>3. give \in GiveStates
    BY <2>2 DEF GiveStates
  <2> QED
    BY <2>1, <2>2, <2>3
<1> QED
  BY <1>1, <1>2, <1>3, <1>4, <1>5, <1>6, <1>7, <1>8, <1>9, <1>10, <1>11, <1>12, <1>13

(***************************************************************************)
(* So do the later steps of a goroutine.                                   *)
(***************************************************************************)
LEMMA ThreadTypes ==
  ASSUME SeTypes, IndexersOK, NEW p \in Threads,
         \/ UpdateIndex(p) \/ EdsRead(p) \/ (\E e \in Entries : EdsGive(p, e))
         \/ RefreshNotNeeded(p) \/ RefreshRead(p)
         \/ RefreshWrite(p) \/ RefreshReset(p)
  PROVE  SeTypes' /\ IndexersOK'
<1>0. at' \in [Threads -> {Resting} \cup IndexStates \cup RebuildStates \cup KeyStates \cup GiveStates] /\ IndexersOK'
  BY ThreadMoves, OneMoves
<1>1. CASE UpdateIndex(p)
  <2>1. at[p] \in IndexStates
    BY <1>1, ThreadMoves
  <2>2. at[p].deleted \subseteq Insts /\ at[p].updated \subseteq Insts
    BY <2>1 DEF IndexStates
  <2>3. instances' \subseteq Insts /\ ip2instance' \subseteq Insts
    BY <1>1, <2>2 DEF SeTypes, UpdateIndex, Replace, Deleted
  <2> QED
    BY <1>0, <1>1, <2>3 DEF SeTypes, UpdateIndex, Writes, Wrote, objectVars, orderVars
<1>2. CASE EdsRead(p)
  <2>1. passed' \in [Threads -> SUBSET Threads]
    BY <1>2 DEF SeTypes, EdsRead
  <2> QED
    BY <1>0, <1>2, <2>1 DEF SeTypes, EdsRead, objectVars
<1>7. ASSUME NEW e \in Entries, EdsGive(p, e) PROVE SeTypes'
  <2>1. at[p].found \subseteq Insts
    BY <1>7, ThreadMoves DEF GiveStates
  <2>2. HostAddresses(at[p].found, e) \subseteq SeAddresses
    <3>1. \A i \in Insts : i[3] \in SeAddresses
      BY DEF Insts
    <3> QED
      BY <2>1, <3>1 DEF HostAddresses
  <2>3. shards' \in [Entries -> SUBSET SeAddresses]
    BY <1>7, <2>2 DEF SeTypes, EdsGive
  <2>4. /\ passed' \in [Threads -> SUBSET Threads] /\ late' \in [Threads -> SUBSET Entries]
        /\ reversed' \subseteq Entries
    BY <1>7 DEF SeTypes, EdsGive, Forget
  <2> QED
    BY <1>0, <1>7, <2>3, <2>4 DEF SeTypes, EdsGive, objectVars
<1>3. CASE RefreshNotNeeded(p)
  BY <1>0, <1>3 DEF SeTypes, RefreshNotNeeded, objectVars, orderVars
<1>4. CASE RefreshRead(p)
  BY <1>0, <1>4 DEF SeTypes, RefreshRead, Reads, objectVars, orderVars
<1>5. CASE RefreshWrite(p)
  <2>1. at[p] \in RebuildStates
    BY <1>5, ThreadMoves
  <2>2. at[p].entries \in [Entries -> EntryValues]
    BY <2>1 DEF RebuildStates
  <2>3. Rebuilt(at[p].entries, byIP, wleStore) \subseteq Insts
          /\ WithSelector(at[p].entries) \subseteq Entries \X EntrySpecs
    BY <2>2, RebuiltFacts, SelectorFacts DEF SeTypes
  <2> QED
    BY <1>0, <1>5, <2>3 DEF SeTypes, RefreshWrite, Writes, Wrote, objectVars, orderVars
<1>6. CASE RefreshReset(p)
  BY <1>0, <1>6 DEF SeTypes, RefreshReset, Writes, Wrote, objectVars, orderVars
<1> QED
  BY <1>0, <1>1, <1>2, <1>3, <1>4, <1>5, <1>6, <1>7

(***************************************************************************)
(* Every step keeps the types.                                             *)
(***************************************************************************)
LEMMA SeTypesStep ==
  ASSUME SeTypes, IndexersOK, SENext
  PROVE  SeTypes' /\ IndexersOK'
<1>1. CASE ReaderStart
  <2>1. [pc |-> "refresh", keys |-> {}] \in KeyStates /\ "reader" \in Threads
    BY DEF KeyStates, Threads
  <2>2. at' \in [Threads -> {Resting} \cup IndexStates \cup RebuildStates \cup KeyStates \cup GiveStates] /\ IndexersOK'
    BY <1>1, <2>1, OneMoves DEF ReaderStart
  <2> QED
    BY <1>1, <2>2 DEF SeTypes, ReaderStart, objectVars, orderVars
<1> QED
  BY <1>1, ChangeTypes, HandlerTypes, ThreadTypes DEF SENext

-----------------------------------------------------------------------------
(***************************************************************************)
(* The sequence of events: handling the first, and a new one.              *)
(***************************************************************************)
LEMMA EventHandled ==
  ASSUME SeTypes, SeLinked, SeReaches, seEvents # <<>>, seEvents' = Tail(seEvents),
         UNCHANGED <<seStore, wleStore>>, NEW v, v = Head(seEvents)
  PROVE  /\ SeLinked' /\ SeReaches'
         /\ \/ Has(seEvents', Successors(v))
            \/ v[4] = InStore(v) /\ ~Has(seEvents', SameObj(v))
         /\ \A B : Has(seEvents, B) <=> v \in B \/ Has(seEvents', B)
<1> DEFINE n == Len(seEvents)
           t == Tail(seEvents)
<1>1. /\ seEvents \in Seq(SeTasks) /\ n \in Nat /\ n > 0 /\ Len(t) = n - 1 /\ v = seEvents[1]
      /\ \A k \in 1..(n-1) : t[k] = seEvents[k+1]
  BY DEF SeTypes
<1> HIDE DEF n
<1>2. \A u : InStore(u)' = InStore(u)
  BY DEF InStore
<1>3. \A x, y : Current(x, y)' = Current(x, y)
  BY <1>2 DEF Current
<1>4. SeLinked'
  <2> SUFFICES ASSUME NEW k \in 1..(n-1)
               PROVE  \/ \E j \in (k+1)..(n-1) : t[j] \in Successors(t[k])
                      \/ /\ t[k][4] = InStore(t[k])
                         /\ \A j \in (k+1)..(n-1) : t[j] \notin SameObj(t[k])
    BY <1>1, <1>2 DEF SeLinked
  <2>1. k + 1 \in 1..n /\ t[k] = seEvents[k+1]
    BY <1>1
  <2>2. CASE \E j \in (k+2)..n : seEvents[j] \in Successors(seEvents[k+1])
    <3>1. PICK j \in (k+2)..n : seEvents[j] \in Successors(seEvents[k+1])
      BY <2>2
    <3>2. j - 1 \in (k+1)..(n-1) /\ t[j-1] = seEvents[j]
      BY <1>1, <3>1
    <3> QED
      BY <2>1, <3>1, <3>2
  <2>3. CASE /\ seEvents[k+1][4] = InStore(seEvents[k+1])
             /\ \A j \in (k+2)..n : seEvents[j] \notin SameObj(seEvents[k+1])
    <3>1. \A j \in (k+1)..(n-1) : j + 1 \in (k+2)..n /\ t[j] = seEvents[j+1]
      BY <1>1
    <3> QED
      BY <2>1, <2>3, <3>1
  <2>4. (k+1)+1 = k+2
    BY <1>1
  <2> QED
    BY <2>1, <2>2, <2>3, <2>4 DEF SeLinked, n
<1>5. SeReaches'
  <2> SUFFICES ASSUME NEW k \in 1..(n-1)
               PROVE  \E j \in k..(n-1) : t[j] \in Current(t[k][1], t[k][2])
    BY <1>1, <1>3 DEF SeReaches
  <2>1. k + 1 \in 1..n /\ t[k] = seEvents[k+1]
    BY <1>1
  <2>2. PICK j \in (k+1)..n : seEvents[j] \in Current(t[k][1], t[k][2])
    BY <2>1 DEF SeReaches, n
  <2>3. j - 1 \in k..(n-1) /\ t[j-1] = seEvents[j]
    BY <1>1, <2>2
  <2> QED
    BY <2>2, <2>3
<1>6. \/ Has(t, Successors(v))
      \/ v[4] = InStore(v) /\ ~Has(t, SameObj(v))
  <2>1. CASE \E j \in (1+1)..n : seEvents[j] \in Successors(seEvents[1])
    <3>1. PICK j \in 2..n : seEvents[j] \in Successors(seEvents[1])
      BY <2>1
    <3>2. j - 1 \in 1..Len(t) /\ t[j-1] = seEvents[j]
      BY <1>1, <3>1
    <3> QED
      BY <1>1, <3>1, <3>2 DEF Has
  <2>2. CASE /\ seEvents[1][4] = InStore(seEvents[1])
             /\ \A j \in (1+1)..n : seEvents[j] \notin SameObj(seEvents[1])
    <3>1. \A j \in 1..Len(t) : j + 1 \in 2..n /\ t[j] = seEvents[j+1]
      BY <1>1
    <3> QED
      BY <1>1, <2>2, <3>1 DEF Has
  <2>3. 1 \in 1..n
    BY <1>1
  <2> QED
    BY <2>1, <2>2, <2>3 DEF SeLinked, n
<1>7. \A B : Has(seEvents, B) <=> v \in B \/ Has(t, B)
  BY <1>1, TailHas
<1> QED
  BY <1>4, <1>5, <1>6, <1>7

(***************************************************************************)
(* A new event continues the events of its object.                         *)
(***************************************************************************)
LEMMA EventAppended ==
  ASSUME SeTypes, SeLinked, SeReaches, NEW v \in SeTasks, seEvents' = Append(seEvents, v),
         v[3] = InStore(v), v[4] = InStore(v)',
         \A u \in SeTasks : u[1] # v[1] \/ u[2] # v[2] => InStore(u)' = InStore(u)
  PROVE  /\ SeLinked' /\ SeReaches'
         /\ \A B : Has(seEvents', B) <=> v \in B \/ Has(seEvents, B)
<1> DEFINE n == Len(seEvents)
           t == Append(seEvents, v)
<1>1. /\ seEvents \in Seq(SeTasks) /\ n \in Nat /\ Len(t) = n + 1 /\ t[n+1] = v
      /\ \A k \in 1..n : t[k] = seEvents[k] /\ seEvents[k] \in SeTasks
  BY DEF SeTypes
<1> HIDE DEF n
<1>2. \A u \in SeTasks : u[1] = v[1] /\ u[2] = v[2] => InStore(u) = InStore(v) /\ InStore(u)' = v[4]
  BY DEF InStore
<1>3. SeLinked'
  <2> SUFFICES ASSUME NEW k \in 1..(n+1), NEW u, u = t[k]
               PROVE  \/ \E j \in (k+1)..(n+1) : t[j] \in Successors(u)
                      \/ /\ u[4] = InStore(u)'
                         /\ \A j \in (k+1)..(n+1) : t[j] \notin SameObj(u)
    <3>1. seEvents' = t /\ Len(t) = n + 1
      BY <1>1
    <3> HIDE DEF t
    <3>2. \A k \in 1..(n+1) :
             \/ \E j \in (k+1)..(n+1) : t[j] \in Successors(t[k])
             \/ /\ t[k][4] = IF t[k][1] = "se" THEN seStore'[t[k][2]] ELSE wleStore'[t[k][2]]
                /\ \A j \in (k+1)..(n+1) : t[j] \notin SameObj(t[k])
      BY DEF InStore
    <3> QED
      BY <3>1, <3>2 DEF SeLinked, InStore
  <2>1. CASE k = n + 1
    BY <2>1, <1>1, <1>2
  <2>2. CASE k \in 1..n
    <3>0. u = seEvents[k] /\ u \in SeTasks
      BY <2>2, <1>1
    <3>1. CASE \E j \in (k+1)..n : seEvents[j] \in Successors(u)
      <4>1. PICK j \in (k+1)..n : seEvents[j] \in Successors(u)
        BY <3>1
      <4>2. j \in (k+1)..(n+1) /\ t[j] = seEvents[j]
        BY <4>1, <1>1, <2>2
      <4> QED
        BY <4>1, <4>2
    <3>2. CASE /\ u[4] = InStore(u)
               /\ \A j \in (k+1)..n : seEvents[j] \notin SameObj(u)
      <4>1. CASE v \in SameObj(u)
        <5>1. v \in Successors(u)
          BY <4>1, <3>2, <3>0, <1>2 DEF Successors, SameObj
        <5>2. n + 1 \in (k+1)..(n+1) /\ t[n+1] = v
          BY <1>1, <2>2
        <5> QED
          BY <5>1, <5>2
      <4>2. CASE v \notin SameObj(u)
        <5>1. InStore(u)' = InStore(u)
          BY <4>2, <3>0 DEF SameObj
        <5>2. \A j \in (k+1)..(n+1) : t[j] \notin SameObj(u)
          BY <4>2, <3>2, <1>1, <2>2
        <5> QED
          BY <5>1, <5>2, <3>2
      <4> QED
        BY <4>1, <4>2
    <3> QED
      BY <3>0, <3>1, <3>2, <2>2 DEF SeLinked, n
  <2> QED
    BY <2>1, <2>2, <1>1
<1>4. SeReaches'
  <2>s. SUFFICES ASSUME NEW k \in 1..(n+1)
                 PROVE  \E j \in k..(n+1) : seEvents'[j] \in
                          {u \in SeTasks : u[1] = seEvents'[k][1] /\ u[2] = seEvents'[k][2] /\ u[4] = InStore(u)'}
    <3>1. Len(seEvents') = n + 1
      BY <1>1
    <3> QED
      BY <3>1 DEF SeReaches, Current
  <2>p. PICK x, y : x = t[k][1] /\ y = t[k][2]
    OBVIOUS
  <2>q. SUFFICES \E j \in k..(n+1) : t[j] \in Current(x, y)'
    BY <2>p DEF Current
  <2>0. \A a, b : a = v[1] /\ b = v[2] => v \in Current(a, b)'
    BY <1>2 DEF Current
  <2>1. CASE x = v[1] /\ y = v[2]
    <3>1. n + 1 \in k..(n+1) /\ t[n+1] = v
      BY <1>1
    <3>2. v \in Current(x, y)'
      BY <2>1, <2>0
    <3> HIDE DEF t
    <3> QED
      BY <3>1, <3>2
  <2>2. CASE ~(x = v[1] /\ y = v[2])
    <3>0. k \in 1..n /\ t[k] = seEvents[k]
      <4> HIDE DEF t
      <4>1. k # n + 1
        BY <2>2, <2>p, <1>1
      <4> QED
        BY <4>1, <1>1
    <3>1. PICK j \in k..n : seEvents[j] \in Current(x, y)
      BY <2>p, <3>0 DEF SeReaches, n
    <3>2. j \in k..(n+1) /\ t[j] = seEvents[j]
      BY <3>0, <3>1, <1>1
    <3>3. PICK u \in SeTasks : u = seEvents[j] /\ u \in Current(x, y)
      BY <3>0, <3>1, <1>1
    <3>4. u \in Current(x, y)'
      BY <3>3, <2>2 DEF Current
    <3> QED
      BY <3>2, <3>3, <3>4
  <2> QED
    BY <2>1, <2>2
<1>5. \A B : Has(t, B) <=> v \in B \/ Has(seEvents, B)
  BY <1>1, AppendHas
<1> QED
  BY <1>3, <1>4, <1>5

(***************************************************************************)
(* While an object has events, one of them brings what the store has.      *)
(***************************************************************************)
LEMMA ReachesStore ==
  ASSUME SeTypes, SeReaches, NEW k, NEW n, NEW B,
         \A u \in B : u[1] = k /\ u[2] = n, Has(seEvents, B)
  PROVE  Has(seEvents, Current(k, n))
<1>1. PICK i \in 1..Len(seEvents) : seEvents[i] \in B
  BY DEF Has
<1>2. PICK j \in i..Len(seEvents) : seEvents[j] \in Current(k, n)
  BY <1>1 DEF SeReaches
<1>3. j \in 1..Len(seEvents)
  BY <1>1, <1>2 DEF SeTypes
<1> QED
  BY <1>2, <1>3 DEF Has

(***************************************************************************)
(* The event of a pod is taken: the registry knows what it says, and the   *)
(* last event of a pod says what runs.                                     *)
(***************************************************************************)
LEMMA PodHandled ==
  ASSUME SeTypes, PodLinked, PodsKnown, PodHandlerStart
  PROVE  PodLinked' /\ PodsKnown'
<1> DEFINE n == Len(podEvents)
           t == Tail(podEvents)
           v == Head(podEvents)
<1>1. /\ podEvents \in Seq(SePods \X BOOLEAN) /\ podEvents # <<>> /\ n \in Nat /\ n > 0
      /\ Len(t) = n - 1 /\ v = podEvents[1] /\ podEvents' = t /\ v \in SePods \X BOOLEAN
      /\ \A k \in 1..(n-1) : t[k] = podEvents[k+1]
      /\ UNCHANGED podStore /\ byIP' = IF v[2] THEN byIP \ {v[1]} ELSE byIP \cup {v[1]}
  BY DEF SeTypes, PodHandlerStart, objectVars, orderVars
<1> HIDE DEF n
<1>2. PodLinked'
  <2> SUFFICES ASSUME NEW k \in 1..(n-1)
               PROVE  \/ \E j \in (k+1)..(n-1) : t[j][1] = t[k][1]
                      \/ t[k][2] <=> t[k][1] \notin podStore
    BY <1>1 DEF PodLinked
  <2>1. k + 1 \in 1..n /\ t[k] = podEvents[k+1]
    BY <1>1
  <2>2. CASE \E j \in (k+1+1)..n : podEvents[j][1] = podEvents[k+1][1]
    <3>1. PICK j \in (k+2)..n : podEvents[j][1] = podEvents[k+1][1]
      BY <2>2
    <3>2. j - 1 \in (k+1)..(n-1) /\ t[j-1] = podEvents[j]
      BY <1>1, <3>1
    <3> QED
      BY <2>1, <3>1, <3>2
  <2> QED
    BY <2>1, <2>2 DEF PodLinked, n
<1>3. ASSUME NEW p \in SePods, ~Has(t, {p} \X BOOLEAN)
      PROVE  p \in byIP' <=> p \in podStore
  <2>1. CASE p = v[1]
    <3>1. ~\E j \in (1+1)..n : podEvents[j][1] = podEvents[1][1]
      <4> SUFFICES ASSUME NEW j \in 2..n, podEvents[j][1] = podEvents[1][1] PROVE FALSE
        OBVIOUS
      <4>1. j - 1 \in 1..Len(t) /\ t[j-1] = podEvents[j] /\ podEvents[j] \in SePods \X BOOLEAN
        BY <1>1 DEF n
      <4>2. podEvents[j] \in {p} \X BOOLEAN
        BY <4>1, <2>1, <1>1
      <4> QED
        BY <4>1, <4>2, <1>3 DEF Has
    <3>2. 1 \in 1..n
      BY <1>1
    <3>3. v[2] <=> v[1] \notin podStore
      BY <3>1, <3>2, <1>1 DEF PodLinked, n
    <3> QED
      BY <3>3, <2>1, <1>1
  <2>2. CASE p # v[1]
    <3>1. ~Has(podEvents, {p} \X BOOLEAN)
      <4>1. v \notin {p} \X BOOLEAN
        BY <2>2
      <4> QED
        BY <4>1, <1>1, <1>3, TailHas
    <3> QED
      BY <3>1, <2>2, <1>1 DEF PodsKnown
  <2> QED
    BY <2>1, <2>2
<1>4. PodsKnown'
  BY <1>1, <1>3 DEF PodsKnown, Has
<1> QED
  BY <1>2, <1>4

(***************************************************************************)
(* A pod comes or goes.                                                    *)
(***************************************************************************)
LEMMA PodChanged ==
  ASSUME SeTypes, PodLinked, PodsKnown, NEW q \in SePods, ChangePod(q)
  PROVE  PodLinked' /\ PodsKnown'
<1> DEFINE n == Len(podEvents)
           b == q \in podStore
           v == <<q, b>>
           t == Append(podEvents, v)
<1>0. b \in BOOLEAN
  OBVIOUS
<1>1. /\ podEvents' = t /\ UNCHANGED byIP
      /\ \A p \in SePods : p # q => (p \in podStore' <=> p \in podStore)
      /\ b <=> q \notin podStore'
  BY DEF ChangePod
<1> HIDE DEF b
<1>2. v \in SePods \X BOOLEAN
  BY <1>0
<1>3. /\ n \in Nat /\ Len(t) = n + 1 /\ t[n+1] = v
      /\ \A k \in 1..n : t[k] = podEvents[k] /\ podEvents[k] \in SePods \X BOOLEAN
      /\ podEvents \in Seq(SePods \X BOOLEAN)
  BY <1>2 DEF SeTypes
<1>4. v[1] = q /\ v[2] = b
  OBVIOUS
<1> HIDE DEF n, v
<1>5. PodLinked'
  <2> SUFFICES ASSUME NEW k \in 1..(n+1)
               PROVE  \/ \E j \in (k+1)..(n+1) : t[j][1] = t[k][1]
                      \/ t[k][2] <=> t[k][1] \notin podStore'
    BY <1>1, <1>3 DEF PodLinked
  <2>1. CASE k = n + 1
    BY <2>1, <1>1, <1>3, <1>4
  <2>2. CASE k \in 1..n
    <3>0. t[k] = podEvents[k] /\ t[k][1] \in SePods
      BY <2>2, <1>3
    <3>1. CASE t[k][1] = q
      <4>1. n + 1 \in (k+1)..(n+1) /\ t[n+1][1] = q
        BY <1>3, <1>4, <2>2
      <4> QED
        BY <4>1, <3>1
    <3>2. CASE t[k][1] # q
      <4>1. CASE \E j \in (k+1)..n : podEvents[j][1] = podEvents[k][1]
        <5>1. PICK j \in (k+1)..n : podEvents[j][1] = podEvents[k][1]
          BY <4>1
        <5>2. j \in (k+1)..(n+1) /\ t[j] = podEvents[j]
          BY <5>1, <1>3, <2>2
        <5> QED
          BY <5>1, <5>2, <3>0
      <4> QED
        BY <4>1, <2>2, <3>0, <3>2, <1>1 DEF PodLinked, n
    <3> QED
      BY <3>1, <3>2
  <2> QED
    BY <2>1, <2>2, <1>3
<1>6. PodsKnown'
  <2> SUFFICES ASSUME NEW p \in SePods
               PROVE  (p \in byIP <=> p \in podStore') \/ Has(t, {p} \X BOOLEAN)
    BY <1>1 DEF PodsKnown, Has
  <2>1. Has(t, {p} \X BOOLEAN) <=> Has(podEvents, {p} \X BOOLEAN) \/ v \in {p} \X BOOLEAN
    BY <1>2, <1>3, AppendHas
  <2>2. p = q => v \in {p} \X BOOLEAN
    BY <1>0 DEF v
  <2> QED
    BY <2>1, <2>2, <1>1 DEF PodsKnown
<1> QED
  BY <1>5, <1>6

(***************************************************************************)
(* The new event of a change.                                              *)
(***************************************************************************)
LEMMA ChangeEvent ==
  ASSUME SeTypes, SeLinked, SeReaches
  PROVE  /\ \A e \in Entries, spec \in EntrySpecs \cup {Missing} : ChangeEntry(e, spec) =>
              /\ <<"se", e, seStore[e], spec>> \in SeTasks
              /\ SeLinked' /\ SeReaches'
              /\ \A B : Has(seEvents', B) <=> <<"se", e, seStore[e], spec>> \in B \/ Has(seEvents, B)
         /\ \A w \in Wles, spec \in WleSpecs \cup {Missing} : ChangeWle(w, spec) =>
              /\ <<"wle", w, wleStore[w], spec>> \in SeTasks
              /\ SeLinked' /\ SeReaches'
              /\ \A B : Has(seEvents', B) <=> <<"wle", w, wleStore[w], spec>> \in B \/ Has(seEvents, B)
<1>1. ASSUME NEW e \in Entries, NEW spec \in EntrySpecs \cup {Missing}, ChangeEntry(e, spec)
      PROVE  LET v == <<"se", e, seStore[e], spec>> IN
             /\ v \in SeTasks /\ SeLinked' /\ SeReaches'
             /\ \A B : Has(seEvents', B) <=> v \in B \/ Has(seEvents, B)
  <2>1. PICK v : v = <<"se", e, seStore[e], spec>>
    OBVIOUS
  <2>2. v \in SeTasks
    BY <2>1 DEF SeTasks, SeTypes, EntryValues
  <2>3. seEvents' = Append(seEvents, v) /\ seStore' = [seStore EXCEPT ![e] = spec] /\ UNCHANGED wleStore
    BY <1>1, <2>1 DEF ChangeEntry
  <2>4. v[3] = InStore(v) /\ v[4] = InStore(v)'
    BY <2>1, <2>3 DEF InStore, SeTypes
  <2>5. \A u \in SeTasks : u[1] # v[1] \/ u[2] # v[2] => InStore(u)' = InStore(u)
    BY <2>1, <2>3 DEF InStore, SeTypes, SeTasks
  <2>6. SeLinked' /\ SeReaches' /\ \A B : Has(seEvents', B) <=> v \in B \/ Has(seEvents, B)
    BY <2>2, <2>3, <2>4, <2>5, EventAppended
  <2> QED
    BY <2>1, <2>2, <2>6
<1>2. ASSUME NEW w \in Wles, NEW spec \in WleSpecs \cup {Missing}, ChangeWle(w, spec)
      PROVE  LET v == <<"wle", w, wleStore[w], spec>> IN
             /\ v \in SeTasks /\ SeLinked' /\ SeReaches'
             /\ \A B : Has(seEvents', B) <=> v \in B \/ Has(seEvents, B)
  <2>1. PICK v : v = <<"wle", w, wleStore[w], spec>>
    OBVIOUS
  <2>2. v \in SeTasks
    BY <2>1 DEF SeTasks, SeTypes, WleValues
  <2>3. seEvents' = Append(seEvents, v) /\ wleStore' = [wleStore EXCEPT ![w] = spec] /\ UNCHANGED seStore
    BY <1>2, <2>1 DEF ChangeWle
  <2>4. v[3] = InStore(v) /\ v[4] = InStore(v)'
    BY <2>1, <2>3 DEF InStore, SeTypes
  <2>5. \A u \in SeTasks : u[1] # v[1] \/ u[2] # v[2] => InStore(u)' = InStore(u)
    BY <2>1, <2>3 DEF InStore, SeTypes, SeTasks
  <2>6. SeLinked' /\ SeReaches' /\ \A B : Has(seEvents', B) <=> v \in B \/ Has(seEvents, B)
    BY <2>2, <2>3, <2>4, <2>5, EventAppended
  <2> QED
    BY <2>1, <2>2, <2>6
<1> QED
  BY <1>1, <1>2

(***************************************************************************)
(* The events of every object lead to what the store has, at every step.   *)
(***************************************************************************)
LEMMA EventsStep ==
  ASSUME SeTypes, SeLinked, SeReaches, PodLinked, PodsKnown, SENext
  PROVE  SeLinked' /\ SeReaches' /\ PodLinked' /\ PodsKnown'
<1>0. UNCHANGED <<podEvents, podStore, byIP>> => PodLinked' /\ PodsKnown'
  BY DEF PodLinked, PodsKnown, Has
<1>1. UNCHANGED <<seEvents, seStore, wleStore>> => SeLinked' /\ SeReaches'
  BY DEF SeLinked, SeReaches, InStore, Current
<1>2. ASSUME NEW e \in Entries, NEW spec \in EntrySpecs \cup {Missing}, ChangeEntry(e, spec)
      PROVE  SeLinked' /\ SeReaches' /\ PodLinked' /\ PodsKnown'
  <2>1. UNCHANGED <<podEvents, podStore, byIP>>
    BY <1>2 DEF ChangeEntry
  <2> QED
    BY <1>0, <2>1, <1>2, ChangeEvent
<1>3. ASSUME NEW w \in Wles, NEW spec \in WleSpecs \cup {Missing}, ChangeWle(w, spec)
      PROVE  SeLinked' /\ SeReaches' /\ PodLinked' /\ PodsKnown'
  <2>1. UNCHANGED <<podEvents, podStore, byIP>>
    BY <1>3 DEF ChangeWle
  <2> QED
    BY <1>0, <2>1, <1>3, ChangeEvent
<1>4. ASSUME NEW p \in SePods, ChangePod(p)
      PROVE  SeLinked' /\ SeReaches' /\ PodLinked' /\ PodsKnown'
  <2>1. UNCHANGED <<seEvents, seStore, wleStore>>
    BY <1>4 DEF ChangePod
  <2> QED
    BY <1>1, <1>4, <2>1, PodChanged
<1>5. CASE PodHandlerStart
  <2>1. UNCHANGED <<seEvents, seStore, wleStore>>
    BY <1>5 DEF PodHandlerStart, objectVars
  <2> QED
    BY <1>1, <1>5, <2>1, PodHandled
<1>6. CASE WleHandlerStart \/ EntryHandlerEndpoints \/ EntryHandlerServices
  <2>1. /\ UNCHANGED <<podEvents, podStore, byIP>> /\ UNCHANGED <<seStore, wleStore>>
        /\ seEvents # <<>> /\ seEvents' = Tail(seEvents)
    BY <1>6 DEF WleHandlerStart, EntryHandlerEndpoints, EntryHandlerServices, objectVars
  <2> QED
    BY <1>0, <2>1, EventHandled
<1>7. CASE ReaderStart
  BY <1>7, <1>0, <1>1 DEF ReaderStart, objectVars
<1>8. ASSUME NEW p \in Threads,
             \/ UpdateIndex(p) \/ EdsRead(p) \/ (\E e \in Entries : EdsGive(p, e))
             \/ RefreshNotNeeded(p) \/ RefreshRead(p)
             \/ RefreshWrite(p) \/ RefreshReset(p)
      PROVE  UNCHANGED <<podEvents, podStore, byIP>> /\ UNCHANGED <<seEvents, seStore, wleStore>>
  BY <1>8 DEF UpdateIndex, EdsRead, EdsGive, RefreshNotNeeded, RefreshRead, RefreshWrite, RefreshReset,
              objectVars
<1> QED
  BY <1>0, <1>1, <1>2, <1>3, <1>4, <1>5, <1>6, <1>7, <1>8 DEF SENext

-----------------------------------------------------------------------------
(***************************************************************************)
(* A write from a stale read is not undone, nor is the stale read: the     *)
(* goroutine writes next.  And who writes is the only one about to, or     *)
(* dooms the others.                                                       *)
(***************************************************************************)
Pending == {"index", "rebuild", "reset"}

(***************************************************************************)
(* Once a write from a stale read has happened, or is bound to happen, it  *)
(* stays so.                                                               *)
(***************************************************************************)
LEMMA DoomedStays ==
  ASSUME SeTypes, SENext, Doomed
  PROVE  Doomed'
<1>1. CASE raced
  <2>1. raced'
    BY <1>1 DEF SENext, ChangeEntry, ChangeWle, ChangePod, WleHandlerStart, PodHandlerStart,
                EntryHandlerEndpoints, EntryHandlerServices, ReaderStart, UpdateIndex, EdsRead,
                EdsGive, RefreshNotNeeded, RefreshRead, RefreshWrite, RefreshReset, Writes
  <2> QED
    BY <2>1 DEF Doomed
<1>2. ASSUME NEW p \in Threads, at[p].pc \in Pending, ~unwritten[p] PROVE Doomed'
  <2>1. CASE at'[p] = at[p] /\ ~unwritten'[p]
    BY <2>1, <1>2 DEF Doomed, At, Pending
  <2>2. CASE raced'
    BY <2>2 DEF Doomed
  <2>3. ASSUME NEW q \in Threads, q # p, Wrote(q) \/ Reads(q), \E new : at' = [at EXCEPT ![q] = new]
        PROVE  at'[p] = at[p] /\ ~unwritten'[p]
    BY <2>3, <1>2 DEF Wrote, Reads, SeTypes
  <2>4. ASSUME NEW q \in Threads, q # p, UNCHANGED unwritten, \E new : at' = [at EXCEPT ![q] = new]
        PROVE  at'[p] = at[p] /\ ~unwritten'[p]
    BY <2>4, <1>2 DEF SeTypes
  <2>5. at[p].pc # "idle" /\ at[p].pc # "refresh" /\ at[p].pc # "eds" /\ at[p].pc # "give"
    BY <1>2 DEF Pending
  <2>6. CASE \/ \E e \in Entries, spec \in EntrySpecs \cup {Missing} : ChangeEntry(e, spec)
             \/ \E w \in Wles, spec \in WleSpecs \cup {Missing} : ChangeWle(w, spec)
             \/ \E q \in SePods : ChangePod(q)
    <3>1. UNCHANGED <<at, unwritten>>
      BY <2>6 DEF ChangeEntry, ChangeWle, ChangePod
    <3> QED
      BY <3>1, <1>2, <2>1
  <2>7. CASE WleHandlerStart
    <3>1. "config" # p /\ "config" \in Threads /\ Reads("config") /\ \E new : at' = [at EXCEPT !["config"] = new]
      BY <2>7, <2>5 DEF WleHandlerStart, Threads
    <3> QED
      BY <3>1, <2>3, <2>1
  <2>8. CASE PodHandlerStart
    <3>1. "pod" # p /\ "pod" \in Threads /\ Reads("pod") /\ \E new : at' = [at EXCEPT !["pod"] = new]
      BY <2>8, <2>5 DEF PodHandlerStart, Threads
    <3> QED
      BY <3>1, <2>3, <2>1
  <2>9. CASE EntryHandlerEndpoints \/ EntryHandlerServices
    <3>1. "config" # p /\ "config" \in Threads /\ Wrote("config") /\ \E new : at' = [at EXCEPT !["config"] = new]
      BY <2>9, <2>5 DEF EntryHandlerEndpoints, EntryHandlerServices, Threads
    <3> QED
      BY <3>1, <2>3, <2>1
  <2>10. CASE ReaderStart
    <3>1. "reader" # p /\ "reader" \in Threads /\ UNCHANGED unwritten /\ \E new : at' = [at EXCEPT !["reader"] = new]
      BY <2>10, <2>5 DEF ReaderStart, Threads
    <3> QED
      BY <3>1, <2>4, <2>1
  <2>11. ASSUME NEW q \in Threads,
                \/ UpdateIndex(q) \/ EdsRead(q) \/ (\E e \in Entries : EdsGive(q, e))
                \/ RefreshNotNeeded(q) \/ RefreshRead(q)
                \/ RefreshWrite(q) \/ RefreshReset(q)
         PROVE  Doomed'
    <3>1. \E new : at' = [at EXCEPT ![q] = new]
      BY <2>11, ThreadMoves
    <3>2. CASE \/ EdsRead(q) \/ (\E e \in Entries : EdsGive(q, e))
               \/ RefreshNotNeeded(q) \/ RefreshRead(q)
      <4>1. q # p /\ (UNCHANGED unwritten \/ Reads(q))
        BY <3>2, <2>5 DEF EdsRead, EdsGive, RefreshNotNeeded, RefreshRead
      <4> QED
        BY <4>1, <3>1, <2>1, <2>3, <2>4
    <3>3. CASE UpdateIndex(q) \/ RefreshWrite(q) \/ RefreshReset(q)
      <4>1. Writes(q)
        BY <3>3 DEF UpdateIndex, RefreshWrite, RefreshReset
      <4>2. CASE q = p
        BY <4>1, <4>2, <1>2, <2>2 DEF Writes
      <4>3. CASE q # p
        BY <4>1, <4>3, <3>1, <2>3, <2>1 DEF Writes
      <4> QED
        BY <4>2, <4>3
    <3> QED
      BY <2>11, <3>2, <3>3
  <2> QED
    BY <2>6, <2>7, <2>8, <2>9, <2>10, <2>11 DEF SENext
<1> QED
  BY <1>1, <1>2 DEF Doomed, At, Pending

(***************************************************************************)
(* A write that dooms nobody finds no other goroutine about to write.      *)
(***************************************************************************)
LEMMA WriterAlone ==
  ASSUME SeTypes, ~Doomed', NEW p \in Threads, Wrote(p), NEW new, at' = [at EXCEPT ![p] = new]
  PROVE  \A q \in Threads : q # p => ~At(q, Pending) /\ ~At(q, {"index"}) /\ ~At(q, {"rebuild"})
                                       /\ ~At(q, {"reset"})
<1> SUFFICES ASSUME NEW q \in Threads, q # p PROVE at[q].pc \notin Pending
  BY DEF At, Pending
<1>1. at'[q] = at[q] /\ ~unwritten'[q]
  BY DEF SeTypes, Wrote
<1> QED
  BY <1>1 DEF Doomed, At, Pending

-----------------------------------------------------------------------------
(***************************************************************************)
(* What a rebuild gives, by host.                                          *)
(***************************************************************************)
LEMMA RebuiltByHost ==
  ASSUME NEW store \in [Entries -> EntryValues], NEW pods \in SUBSET SePods,
         NEW wles \in [Wles -> WleValues], NEW i \in Insts
  PROVE  i \in Rebuilt(store, pods, wles) <=>
           \/ i[2] \in Entries /\ i[1] = i[2] /\ i \in OwnInstances(i[1], store[i[1]])
           \/ /\ i[2] \in pods /\ i[3][2] = 0
              /\ store[i[1]] # Missing /\ store[i[1]].selector = PodLabel[i[2]]
           \/ /\ i[2] \in Wles /\ wles[i[2]] # Missing /\ i[3][2] = wles[i[2]].addr
              /\ store[i[1]] # Missing /\ store[i[1]].selector = wles[i[2]].label
<1> DEFINE sels == WithSelector(store)
<1>0. sels \in SUBSET (Entries \X EntrySpecs)
        /\ \A e \in Entries, l \in Labels :
              Selects(sels, e, l) <=> store[e] # Missing /\ store[e].selector = l
  BY SelectorFacts
<1>1. i[1] \in Entries /\ (i[2] \in Entries => i[1] = i[2])
  BY DEF Insts
<1>2. i \in Rebuilt(store, pods, wles) <=>
                \/ i[2] \in Entries /\ i \in OwnInstances(i[2], store[i[2]])
                \/ i[2] \in pods /\ i \in PodInstances(sels, i[2])
                \/ i[2] \in Wles /\ i \in WleInstances(sels, i[2], wles[i[2]])
  BY RebuiltFacts
<1> HIDE DEF sels
<1>3. i[2] \in pods => PodLabel[i[2]] \in Labels
        /\ (i \in PodInstances(sels, i[2]) <=> i[3][2] = 0 /\ Selects(sels, i[1], PodLabel[i[2]]))
  BY <1>0, PodFacts DEF Labels
<1>4. i[2] \in Wles =>
        /\ wles[i[2]] # Missing => wles[i[2]].label \in Labels
        /\ (i \in WleInstances(sels, i[2], wles[i[2]]) <=>
              wles[i[2]] # Missing /\ i[3][2] = wles[i[2]].addr /\ Selects(sels, i[1], wles[i[2]].label))
  <2>1. i[2] \in Wles => wles[i[2]] \in WleValues
    OBVIOUS
  <2>2. i[2] \in Wles /\ wles[i[2]] # Missing => wles[i[2]].label \in Labels
    BY <2>1 DEF WleValues, Labels
  <2> QED
    BY <1>0, <2>1, <2>2, WleFacts
<1> QED
  BY <1>0, <1>1, <1>2, <1>3, <1>4

(***************************************************************************)
(* Steps that leave the index and the goroutines about to write it alone.  *)
(***************************************************************************)
LEMMA WillSame ==
  ASSUME UNCHANGED <<instances, ip2instance>>,
         \A p \in Threads : /\ At(p, {"index"})' <=> At(p, {"index"})
                            /\ At(p, {"index"}) => at'[p] = at[p]
  PROVE  \A i : /\ Will(i)' <=> Will(i)
                /\ WillByIP(i)' <=> WillByIP(i)
<1> SUFFICES ASSUME NEW i PROVE /\ Will(i)' <=> Will(i)
                                /\ WillByIP(i)' <=> WillByIP(i)
  OBVIOUS
<1>1. Adds(i)' <=> Adds(i)
  BY DEF Adds
<1>2. \A p \in Threads : At(p, {"index"}) => Touched(p)' = Touched(p)
  BY DEF Touched
<1> QED
  BY <1>1, <1>2 DEF Will, WillByIP

(***************************************************************************)
(* With nobody about to update the index, it is what it will be.           *)
(***************************************************************************)
LEMMA NobodyIndexing ==
  ASSUME \A p \in Threads : ~At(p, {"index"})
  PROVE  \A i : (Will(i) <=> i \in instances) /\ (WillByIP(i) <=> i \in ip2instance)
BY DEF Will, WillByIP, Adds

(***************************************************************************)
(* What is known of the index to come depends on that index, the objects,  *)
(* the events and the marks only.                                          *)
(***************************************************************************)
LEMMA IndexFactsKept ==
  ASSUME IndexFacts, UNCHANGED <<selectors, byIP, seStore, wleStore, seEvents>>,
         \A i : (Will(i)' <=> Will(i)) /\ (WillByIP(i)' <=> WillByIP(i)),
         \A e \in Entries : Marking(e) => Marking(e)'
  PROVE  IndexFacts'
<1>0. \A B : Has(seEvents, B)' <=> Has(seEvents, B)
  BY DEF Has
<1>1. SelectorsFollow'
  BY <1>0 DEF IndexFacts, SelectorsFollow
<1>2. OwnFollow'
  BY <1>0 DEF IndexFacts, OwnFollow
<1>3. PodsFollow'
  BY DEF IndexFacts, PodsFollow
<1>4. WlesFollow'
  BY <1>0 DEF IndexFacts, WlesFollow
<1>5. ByIPFollows'
  BY <1>0 DEF IndexFacts, ByIPFollows
<1> QED
  BY <1>1, <1>2, <1>3, <1>4, <1>5 DEF IndexFacts

-----------------------------------------------------------------------------
(***************************************************************************)
(* A step of nobody who reads or gives endpoints.                          *)
(***************************************************************************)
NoGive ==
  /\ UNCHANGED <<passed, late, reversed>>
  /\ \A q \in Threads : /\ At(q, {"give"})' <=> At(q, {"give"})
                        /\ At(q, {"give"}) => at'[q] = at[q]

(***************************************************************************)
(* It leaves what the XDS server has been or is being given alone.         *)
(***************************************************************************)
LEMMA GivenSame ==
  ASSUME NoGive, NEW e, shards'[e] = shards[e]
  PROVE  \A i : Given(e, i)' <=> Given(e, i)
<1> SUFFICES ASSUME NEW i PROVE Given(e, i)' <=> Given(e, i)
  OBVIOUS
<1>1. \A q \in Threads : Blind(q, e, i)' <=> Blind(q, e, i)
  BY DEF NoGive, Blind
<1>2. Holds(e, i)' <=> Holds(e, i)
  BY <1>1 DEF Holds, NoGive
<1>3. \A p \in Threads : Gives(p, e, i)' <=> Gives(p, e, i)
  BY <1>1 DEF Gives, NoGive
<1> QED
  BY <1>2, <1>3 DEF Given

(***************************************************************************)
(* One goroutine moves, and is not about to give before or after.          *)
(***************************************************************************)
LEMMA NoGiveMove ==
  ASSUME NEW p \in Threads, \A q \in Threads \ {p} : at'[q] = at[q],
         at[p].pc # "give", at'[p].pc # "give", UNCHANGED orderVars
  PROVE  NoGive
BY DEF NoGive, At, orderVars

(***************************************************************************)
(* The changes of objects and the handlers are such steps.                 *)
(***************************************************************************)
LEMMA HandlersNoGive ==
  ASSUME SeTypes,
         \/ \E e \in Entries, spec \in EntrySpecs \cup {Missing} : ChangeEntry(e, spec)
         \/ \E w \in Wles, spec \in WleSpecs \cup {Missing} : ChangeWle(w, spec)
         \/ \E p \in SePods : ChangePod(p)
         \/ WleHandlerStart \/ PodHandlerStart
         \/ EntryHandlerEndpoints \/ EntryHandlerServices \/ ReaderStart
  PROVE  NoGive
<1>0. "config" \in Threads /\ "pod" \in Threads /\ "reader" \in Threads /\ Resting.pc # "give"
  BY DEF Threads, Resting
<1>1. CASE \/ \E e \in Entries, spec \in EntrySpecs \cup {Missing} : ChangeEntry(e, spec)
           \/ \E w \in Wles, spec \in WleSpecs \cup {Missing} : ChangeWle(w, spec)
           \/ \E p \in SePods : ChangePod(p)
  BY <1>1 DEF ChangeEntry, ChangeWle, ChangePod, NoGive, At, orderVars
<1>2. CASE WleHandlerStart
  <2>1. UNCHANGED orderVars /\ at["config"].pc # "give"
          /\ at'["config"].pc # "give" /\ \A q \in Threads \ {"config"} : at'[q] = at[q]
    BY <1>2, <1>0 DEF WleHandlerStart, SeTypes
  <2> QED
    BY <2>1, <1>0, NoGiveMove
<1>3. CASE PodHandlerStart
  <2>1. UNCHANGED orderVars /\ at["pod"].pc # "give"
          /\ at'["pod"].pc # "give" /\ \A q \in Threads \ {"pod"} : at'[q] = at[q]
    BY <1>3, <1>0 DEF PodHandlerStart, SeTypes
  <2> QED
    BY <2>1, <1>0, NoGiveMove
<1>4. CASE EntryHandlerEndpoints \/ EntryHandlerServices
  <2>1. UNCHANGED orderVars /\ at["config"].pc # "give"
          /\ at'["config"].pc # "give" /\ \A q \in Threads \ {"config"} : at'[q] = at[q]
    BY <1>4, <1>0 DEF EntryHandlerEndpoints, EntryHandlerServices, SeTypes
  <2> QED
    BY <2>1, <1>0, NoGiveMove
<1>5. CASE ReaderStart
  <2>1. UNCHANGED orderVars /\ at["reader"].pc # "give"
          /\ at'["reader"].pc # "give" /\ \A q \in Threads \ {"reader"} : at'[q] = at[q]
    BY <1>5, <1>0 DEF ReaderStart, SeTypes
  <2> QED
    BY <2>1, <1>0, NoGiveMove
<1> QED
  BY <1>1, <1>2, <1>3, <1>4, <1>5

(***************************************************************************)
(* So are the steps of a goroutine that refresh the index.                 *)
(***************************************************************************)
LEMMA ThreadNoGive ==
  ASSUME SeTypes, NEW p \in Threads,
         \/ UpdateIndex(p) \/ RefreshNotNeeded(p) \/ RefreshRead(p)
         \/ RefreshWrite(p) \/ RefreshReset(p)
  PROVE  NoGive
<1>1. UNCHANGED orderVars /\ at[p].pc # "give"
  BY DEF UpdateIndex, RefreshNotNeeded, RefreshRead, RefreshWrite, RefreshReset
<1>2. at'[p].pc # "give" /\ \A q \in Threads \ {p} : at'[q] = at[q]
  BY ThreadMoves DEF KeyStates, RebuildStates, SeTypes
<1> QED
  BY <1>1, <1>2, NoGiveMove

-----------------------------------------------------------------------------
(***************************************************************************)
(* A ServiceEntry changes.                                                 *)
(***************************************************************************)
LEMMA ChangeEntryFacts ==
  ASSUME SeTypes, SeLinked, SeReaches, SeFacts,
         NEW e \in Entries, NEW spec \in EntrySpecs \cup {Missing}, ChangeEntry(e, spec)
  PROVE  SeFacts'
<1>1. PICK v : v = <<"se", e, seStore[e], spec>>
  OBVIOUS
<1>2. /\ v \in SeTasks /\ v[1] = "se" /\ v[2] = e /\ v[3] = seStore[e] /\ v[4] = spec
      /\ \A B : Has(seEvents', B) <=> v \in B \/ Has(seEvents, B)
  BY <1>1, ChangeEvent
<1>3. /\ UNCHANGED <<wleStore, instances, ip2instance, selectors, byIP, refreshIndexes, at, shards>>
      /\ seStore'[e] = spec /\ \A d \in Entries : d # e => seStore'[d] = seStore[d]
      /\ seStore' \in [Entries -> EntryValues]
  BY DEF ChangeEntry, SeTypes, EntryValues
<1>4. v \in SeTasksOf(e) /\ (v \in SvcTasksOf(e) <=> ~OnlyEndpoints(seStore[e], spec))
        /\ \A w : v \notin WleTasksOf(w)
  BY <1>2 DEF SeTasksOf, SvcTasksOf, WleTasksOf
<1>5. \A i : (Will(i)' <=> Will(i)) /\ (WillByIP(i)' <=> WillByIP(i))
  BY <1>3, WillSame DEF At
<1>6. \A p, pcs : At(p, pcs)' <=> At(p, pcs)
  BY <1>3 DEF At
<1>7. \A d \in Entries : \/ Has(seEvents', SvcTasksOf(d))
                         \/ /\ Marking(d) => Marking(d)'
                            /\ seStore'[d] = Missing <=> seStore[d] = Missing
                            /\ seStore[d] # Missing => seStore'[d].selector = seStore[d].selector
                                                         /\ seStore'[d].svc = seStore[d].svc
  BY <1>2, <1>3, <1>4, <1>6 DEF Marking, OnlyEndpoints
<1>8. SelectorsFollow'
  <2> SUFFICES ASSUME NEW d \in Entries, ~Has(seEvents', SvcTasksOf(d)), ~Marking(d)',
                      NEW l \in Labels
               PROVE  Selects(selectors', d, l) <=> seStore'[d] # Missing /\ seStore'[d].selector = l
    BY DEF SelectorsFollow, Has
  <2>1. ~Has(seEvents, SvcTasksOf(d)) /\ ~Marking(d)
    BY <1>2, <1>7
  <2>2. Selects(selectors, d, l) <=> seStore[d] # Missing /\ seStore[d].selector = l
    BY <2>1 DEF SeFacts, IndexFacts, SelectorsFollow
  <2> QED
    BY <2>2, <1>7, <1>3
<1>9. OwnFollow'
  <2> SUFFICES ASSUME NEW d \in Entries, ~Has(seEvents', SeTasksOf(d)), ~Marking(d)',
                      ~(seStore'[d] # Missing /\ seStore'[d].endpoint = Missing),
                      NEW i \in Insts, i[2] = d
               PROVE  Will(i)' <=> i \in OwnInstances(d, seStore'[d])
    BY DEF OwnFollow, Has
  <2>1. d # e /\ ~Has(seEvents, SeTasksOf(d))
    BY <1>2, <1>4
  <2>2. ~Marking(d) /\ seStore'[d] = seStore[d]
    BY <2>1, <1>3, <1>6 DEF Marking
  <2> QED
    BY <2>1, <2>2, <1>5 DEF SeFacts, IndexFacts, OwnFollow
<1>10. PodsFollow'
  BY <1>3, <1>5 DEF SeFacts, IndexFacts, PodsFollow
<1>11. WlesFollow'
  <2>1. \A B : Has(seEvents, B) => Has(seEvents, B)'
    BY <1>2 DEF Has
  <2> QED
    BY <2>1, <1>3, <1>5 DEF SeFacts, IndexFacts, WlesFollow
<1>12. ByIPFollows'
  <2>1. \A B : Has(seEvents, B) => Has(seEvents, B)'
    BY <1>2 DEF Has
  <2> QED
    BY <2>1, <1>3, <1>5 DEF SeFacts, IndexFacts, ByIPFollows
<1>13. ReadsOK'
  <2> SUFFICES ASSUME NEW p \in Threads, At(p, {"rebuild"})
               PROVE  /\ refreshIndexes
                      /\ \A d \in Entries :
                           /\ at[p].entries[d] = seStore'[d] \/ Has(seEvents', SeTasksOf(d))
                           /\ Agree(at[p].entries[d], seStore'[d]) \/ Has(seEvents', SvcTasksOf(d))
                           /\ \A i \in OwnInstances(d, at[p].entries[d]) :
                                \/ i \in instances \/ Has(seEvents', Brings(i))
                                \/ At("config", {"refresh", "rebuild"}) /\ d \in at["config"].keys
    BY <1>3, <1>6 DEF ReadsOK, Has
  <2>1. refreshIndexes
    BY DEF SeFacts, ReadsOK
  <2>2. ASSUME NEW d \in Entries
        PROVE  /\ at[p].entries[d] = seStore'[d] \/ Has(seEvents', SeTasksOf(d))
               /\ Agree(at[p].entries[d], seStore'[d]) \/ Has(seEvents', SvcTasksOf(d))
               /\ \A i \in OwnInstances(d, at[p].entries[d]) :
                    \/ i \in instances \/ Has(seEvents', Brings(i))
                    \/ At("config", {"refresh", "rebuild"}) /\ d \in at["config"].keys
    <3>1. /\ at[p].entries[d] = seStore[d] \/ Has(seEvents, SeTasksOf(d))
          /\ Agree(at[p].entries[d], seStore[d]) \/ Has(seEvents, SvcTasksOf(d))
          /\ \A i \in OwnInstances(d, at[p].entries[d]) :
               \/ i \in instances \/ Has(seEvents, Brings(i))
               \/ At("config", {"refresh", "rebuild"}) /\ d \in at["config"].keys
      BY DEF SeFacts, ReadsOK
    <3>2. at[p].entries[d] = seStore'[d] \/ Has(seEvents', SeTasksOf(d))
      BY <3>1, <1>2, <1>3, <1>4
    <3>3. Agree(at[p].entries[d], seStore'[d]) \/ Has(seEvents', SvcTasksOf(d))
      BY <3>1, <1>2, <1>7 DEF Agree
    <3> QED
      BY <3>1, <3>2, <3>3, <1>2
  <2> QED
    BY <2>1, <2>2
<1>14. EndpointsGiven'
  <2> SUFFICES ASSUME NEW d \in Entries, NEW i \in Insts, i[1] = d, seStore'[d] # Missing,
                      i \in instances \/ i \in Rebuilt(seStore', byIP, wleStore)
               PROVE  Given(d, i)' \/ Soon(d, i)'
    BY <1>3 DEF EndpointsGiven
  <2>1. CASE Has(seEvents', SvcTasksOf(d))
    BY <2>1 DEF Soon, Has
  <2>2. CASE Has(seEvents', Brings(i))
    BY <2>2 DEF Soon, Has
  <2>3. CASE ~Has(seEvents', SvcTasksOf(d)) /\ ~Has(seEvents', Brings(i))
    <3>1. seStore[d] # Missing /\ seStore'[d].selector = seStore[d].selector
      BY <1>7, <2>3
    <3>2. i \in OwnInstances(d, seStore'[d]) => i \in OwnInstances(d, seStore[d])
      <4>1. CASE d = e
        <5>1. i \in OwnInstances(d, seStore'[d]) => v \in Brings(i)
          BY <4>1, <1>2, <1>3, <1>4 DEF Brings
        <5> QED
          BY <5>1, <2>3, <1>2
      <4> QED
        BY <4>1, <1>3
    <3>3. i \in instances \/ i \in Rebuilt(seStore, byIP, wleStore)
      <4>1. CASE i \in Rebuilt(seStore', byIP, wleStore)
        <5>1. byIP \in SUBSET SePods /\ wleStore \in [Wles -> WleValues]
                /\ seStore \in [Entries -> EntryValues]
          BY DEF SeTypes
        <5>2. \/ i[2] \in Entries /\ i[1] = i[2] /\ i \in OwnInstances(i[1], seStore'[i[1]])
              \/ /\ i[2] \in byIP /\ i[3][2] = 0
                 /\ seStore'[i[1]] # Missing /\ seStore'[i[1]].selector = PodLabel[i[2]]
              \/ /\ i[2] \in Wles /\ wleStore[i[2]] # Missing /\ i[3][2] = wleStore[i[2]].addr
                 /\ seStore'[i[1]] # Missing /\ seStore'[i[1]].selector = wleStore[i[2]].label
          BY <4>1, <5>1, <1>3, RebuiltByHost
        <5> QED
          BY <5>1, <5>2, <3>1, <3>2, RebuiltByHost
      <4> QED
        BY <4>1
    <3>4. Given(d, i) \/ Soon(d, i)
      BY <3>1, <3>3 DEF SeFacts, EndpointsGiven
    <3>5. Busy(d) => Busy(d)'
      BY <1>3, <1>6 DEF Busy
    <3>6. Has(seEvents, Relabels(i, seStore[d].selector)) => Has(seEvents', Relabels(i, seStore'[d].selector))
      BY <1>2, <3>1
    <3>7. Soon(d, i) => Soon(d, i)'
      BY <3>5, <3>6, <2>3, <1>2 DEF Soon, Has
    <3>8. Given(d, i) => Given(d, i)'
      BY <1>3, HandlersNoGive, GivenSame
    <3> QED
      BY <3>4, <3>7, <3>8
  <2> QED
    BY <2>1, <2>2, <2>3
<1> QED
  BY <1>8, <1>9, <1>10, <1>11, <1>12, <1>13, <1>14 DEF SeFacts, IndexFacts

(***************************************************************************)
(* A WorkloadEntry changes.                                                *)
(***************************************************************************)
LEMMA ChangeWleFacts ==
  ASSUME SeTypes, SeLinked, SeReaches, SeFacts,
         NEW w \in Wles, NEW spec \in WleSpecs \cup {Missing}, ChangeWle(w, spec)
  PROVE  SeFacts'
<1>1. PICK v : v = <<"wle", w, wleStore[w], spec>>
  OBVIOUS
<1>2. /\ v \in SeTasks /\ v[1] = "wle" /\ v[2] = w /\ v[3] = wleStore[w] /\ v[4] = spec
      /\ \A B : Has(seEvents', B) <=> v \in B \/ Has(seEvents, B)
  BY <1>1, ChangeEvent
<1>3. /\ UNCHANGED <<seStore, instances, ip2instance, selectors, byIP, refreshIndexes, at, shards>>
      /\ wleStore'[w] = spec /\ \A x \in Wles : x # w => wleStore'[x] = wleStore[x]
      /\ wleStore' \in [Wles -> WleValues]
  BY DEF ChangeWle, SeTypes, WleValues
<1>4. v \in WleTasksOf(w)
  BY <1>2 DEF WleTasksOf
<1>5. \A i : (Will(i)' <=> Will(i)) /\ (WillByIP(i)' <=> WillByIP(i))
  BY <1>3, WillSame DEF At
<1>6. \A p, pcs : At(p, pcs)' <=> At(p, pcs)
  BY <1>3 DEF At
<1>7. \A B : Has(seEvents, B) => Has(seEvents, B)'
  BY <1>2 DEF Has
<1>8. \A d \in Entries : Marking(d)' <=> Marking(d)
  BY <1>3, <1>6 DEF Marking
<1>9. SelectorsFollow' /\ OwnFollow' /\ PodsFollow' /\ ByIPFollows'
  <2>1. SelectorsFollow'
    BY <1>3, <1>7, <1>8 DEF SeFacts, IndexFacts, SelectorsFollow
  <2>2. OwnFollow'
    BY <1>3, <1>5, <1>7, <1>8 DEF SeFacts, IndexFacts, OwnFollow
  <2>3. PodsFollow'
    BY <1>3, <1>5 DEF SeFacts, IndexFacts, PodsFollow
  <2>4. ByIPFollows'
    BY <1>3, <1>5, <1>7 DEF SeFacts, IndexFacts, ByIPFollows
  <2> QED
    BY <2>1, <2>2, <2>3, <2>4
<1>10. WlesFollow'
  <2> SUFFICES ASSUME NEW x \in Wles, NEW i \in Insts, i[2] = x
               PROVE  /\ Will(i)' => \/ i \in WleInstances(selectors, x, wleStore'[x])
                                     \/ Has(seEvents', Moves(selectors, i))
                      /\ i \in WleInstances(selectors, x, wleStore'[x])
                           => Will(i)' \/ Has(seEvents', WleTasksOf(x))
    BY <1>3 DEF WlesFollow, Has
  <2>1. /\ Will(i) => i \in WleInstances(selectors, x, wleStore[x]) \/ Has(seEvents, Moves(selectors, i))
        /\ i \in WleInstances(selectors, x, wleStore[x]) => Will(i) \/ Has(seEvents, WleTasksOf(x))
    BY DEF SeFacts, IndexFacts, WlesFollow
  <2>2. CASE x = w
    <3>1. i \in WleInstances(selectors, x, wleStore[x]) => v \in Moves(selectors, i)
      BY <2>2, <1>2, <1>4 DEF Moves
    <3> QED
      BY <2>1, <2>2, <3>1, <1>2, <1>4, <1>5
  <2>3. CASE x # w
    BY <2>1, <2>3, <1>2, <1>3, <1>5
  <2> QED
    BY <2>2, <2>3
<1>11. ReadsOK'
  BY <1>3, <1>6, <1>7 DEF SeFacts, ReadsOK
<1>12. EndpointsGiven'
  <2> SUFFICES ASSUME NEW d \in Entries, NEW i \in Insts, i[1] = d, seStore[d] # Missing,
                      i \in instances \/ i \in Rebuilt(seStore, byIP, wleStore')
               PROVE  Given(d, i)' \/ Soon(d, i)'
    BY <1>3 DEF EndpointsGiven
  <2>0. byIP \in SUBSET SePods /\ wleStore \in [Wles -> WleValues]
          /\ seStore \in [Entries -> EntryValues]
    BY DEF SeTypes
  <2>1. Soon(d, i) => Soon(d, i)'
    <3>1. Busy(d) => Busy(d)'
      BY <1>3, <1>6 DEF Busy
    <3>2. Has(seEvents, Relabels(i, seStore[d].selector)) => Has(seEvents', Relabels(i, seStore'[d].selector))
      BY <1>2, <1>3
    <3> QED
      BY <3>1, <3>2, <1>2 DEF Soon, Has
  <2>2. CASE i \in instances \/ i \in Rebuilt(seStore, byIP, wleStore)
    <3>1. Given(d, i) => Given(d, i)'
      BY <1>3, HandlersNoGive, GivenSame
    <3> QED
      BY <2>1, <2>2, <3>1 DEF SeFacts, EndpointsGiven
  <2>3. CASE i \in Rebuilt(seStore, byIP, wleStore') /\ i \notin Rebuilt(seStore, byIP, wleStore)
    <3>1. /\ i[2] \in Wles /\ wleStore'[i[2]] # Missing /\ i[3][2] = wleStore'[i[2]].addr
          /\ seStore[i[1]].selector = wleStore'[i[2]].label
          /\ i[2] = w
      <4> DEFINE wles == wleStore'
      <4>1. wles \in [Wles -> WleValues] /\ \A x \in Wles : x # w => wles[x] = wleStore[x]
        BY <1>3
      <4> HIDE DEF wles
      <4>2. i \in Rebuilt(seStore, byIP, wles) /\ i \notin Rebuilt(seStore, byIP, wleStore)
        BY <2>3 DEF wles
      <4>3. /\ i[2] \in Wles /\ wles[i[2]] # Missing /\ i[3][2] = wles[i[2]].addr
            /\ seStore[i[1]].selector = wles[i[2]].label
            /\ i[2] = w
        BY <2>0, <4>1, <4>2, RebuiltByHost
      <4> QED
        BY <4>3 DEF wles
    <3>2. i[3] = <<i[2], i[3][2]>>
      BY DEF Insts, SeAddresses
    <3>3. v \in Relabels(i, seStore[d].selector)
      BY <3>1, <3>2, <1>2, <1>3, <1>4 DEF Relabels
    <3>4. Has(seEvents', Relabels(i, seStore'[d].selector))
      BY <3>3, <1>2, <1>3
    <3> QED
      BY <3>4 DEF Soon, Has
  <2> QED
    BY <2>2, <2>3
<1> QED
  BY <1>9, <1>10, <1>11, <1>12 DEF SeFacts, IndexFacts

(***************************************************************************)
(* Steps that change neither the objects nor the events nor the index.     *)
(***************************************************************************)
LEMMA GivenKept ==
  ASSUME EndpointsGiven, UNCHANGED <<seStore, wleStore, byIP, seEvents>>,
         instances' = instances, shards' = shards, NoGive,
         \A e \in Entries : Busy(e) => Busy(e)'
  PROVE  EndpointsGiven'
<1>1. \A e \in Entries, i \in Insts : Soon(e, i) => Soon(e, i)'
  BY DEF Soon, Has
<1>2. \A e \in Entries, i \in Insts : Given(e, i) => Given(e, i)'
  BY GivenSame
<1> QED
  BY <1>1, <1>2 DEF EndpointsGiven

(***************************************************************************)
(* A pod comes or goes: the registry knows only once it has the event.     *)
(***************************************************************************)
LEMMA ChangePodFacts ==
  ASSUME SeTypes, SeFacts, NEW p \in SePods, ChangePod(p)
  PROVE  SeFacts'
<1>1. /\ UNCHANGED <<instances, ip2instance>> /\ UNCHANGED <<selectors, byIP, seStore, wleStore, seEvents>>
      /\ UNCHANGED <<at, refreshIndexes, shards>>
  BY DEF ChangePod
<1>2. \A i : (Will(i)' <=> Will(i)) /\ (WillByIP(i)' <=> WillByIP(i))
  BY <1>1, WillSame DEF At
<1>3. \A d \in Entries : Marking(d) => Marking(d)'
  BY <1>1 DEF Marking, At
<1>4. IndexFacts'
  BY <1>1, <1>2, <1>3, IndexFactsKept DEF SeFacts
<1>5. ReadsOK'
  BY <1>1 DEF SeFacts, ReadsOK, At, Has
<1>6. EndpointsGiven'
  <2>1. \A d \in Entries : Busy(d) => Busy(d)'
    BY <1>1 DEF Busy, At
  <2> QED
    BY <1>1, <2>1, HandlersNoGive, GivenKept DEF SeFacts
<1> QED
  BY <1>4, <1>5, <1>6 DEF SeFacts

(***************************************************************************)
(* One goroutine moves and keeps its hosts.                                *)
(***************************************************************************)
LEMMA ThreadMovesOn ==
  ASSUME SeTypes, SeFacts, NEW p \in Threads, NEW new \in {Resting} \cup RebuildStates \cup KeyStates,
         at' = [at EXCEPT ![p] = new], ~At(p, {"index"}),
         ~At(p, {"idle"}) => new.pc # "idle" /\ new.keys = at[p].keys,
         UNCHANGED <<instances, ip2instance>>, UNCHANGED <<selectors, byIP, seStore, wleStore, seEvents>>,
         UNCHANGED shards, NoGive,
         \A e \in Entries : Marking(e) => Marking(e)'
  PROVE  IndexFacts' /\ EndpointsGiven'
<1>1. at'[p] = new /\ ~At(p, {"index"})' /\ \A q \in Threads \ {p} : at'[q] = at[q]
  BY OneMoves
<1>2. \A i : (Will(i)' <=> Will(i)) /\ (WillByIP(i)' <=> WillByIP(i))
  <2>1. \A q \in Threads : /\ At(q, {"index"})' <=> At(q, {"index"})
                           /\ At(q, {"index"}) => at'[q] = at[q]
    BY <1>1 DEF At
  <2> QED
    BY <2>1, WillSame
<1>3. \A e \in Entries : Busy(e) => Busy(e)'
  BY <1>1 DEF Busy, At, NoGive
<1> QED
  BY <1>2, <1>3, IndexFactsKept, GivenKept DEF SeFacts

(***************************************************************************)
(* A reader begins.                                                        *)
(***************************************************************************)
LEMMA ReaderStartFacts ==
  ASSUME SeTypes, SeFacts, ReaderStart
  PROVE  SeFacts'
<1> DEFINE new == [pc |-> "refresh", keys |-> {}]
<1>1. new \in KeyStates /\ "reader" \in Threads /\ "config" \in Threads
  BY DEF KeyStates, Threads
<1>2. /\ at' = [at EXCEPT !["reader"] = new] /\ UNCHANGED <<instances, ip2instance>>
      /\ UNCHANGED <<selectors, byIP, seStore, wleStore, seEvents>>
      /\ UNCHANGED shards /\ UNCHANGED refreshIndexes /\ at["reader"].pc = "idle"
  BY DEF ReaderStart, objectVars
<1>3. at'["reader"] = new /\ \A q \in Threads \ {"reader"} : at'[q] = at[q]
  BY <1>1, <1>2 DEF SeTypes
<1>4. \A e \in Entries : Marking(e) => Marking(e)'
  BY <1>1, <1>2, <1>3 DEF Marking, At
<1>5. IndexFacts' /\ EndpointsGiven'
  <2> HIDE DEF new
  <2> QED
    BY <1>1, <1>2, <1>4, HandlersNoGive, ThreadMovesOn DEF At
<1>6. ReadsOK'
  BY <1>1, <1>2, <1>3 DEF SeFacts, ReadsOK, At, Has
<1> QED
  BY <1>5, <1>6 DEF SeFacts

(***************************************************************************)
(* The index is not marked.                                                *)
(***************************************************************************)
LEMMA RefreshNotNeededFacts ==
  ASSUME SeTypes, SeFacts, NEW p \in Threads, RefreshNotNeeded(p)
  PROVE  SeFacts'
<1> DEFINE new == [pc |-> "eds", keys |-> at[p].keys]
<1>1. new \in KeyStates /\ at' = [at EXCEPT ![p] = new]
  BY ThreadMoves
<1>2. /\ UNCHANGED <<instances, ip2instance>> /\ UNCHANGED <<selectors, byIP, seStore, wleStore, seEvents>>
      /\ UNCHANGED shards /\ UNCHANGED refreshIndexes /\ at[p].pc = "refresh" /\ ~refreshIndexes
  BY DEF RefreshNotNeeded, objectVars
<1>3. at'[p] = new /\ \A q \in Threads \ {p} : at'[q] = at[q]
  BY <1>1 DEF SeTypes
<1>4. \A e \in Entries : Marking(e) => Marking(e)'
  BY <1>2 DEF Marking
<1>5. new.pc # "idle" /\ new.keys = at[p].keys /\ new.pc # "rebuild"
  OBVIOUS
<1> HIDE DEF new
<1>6. IndexFacts' /\ EndpointsGiven'
  BY <1>1, <1>2, <1>4, <1>5, ThreadNoGive, ThreadMovesOn DEF At
<1>7. ReadsOK'
  BY <1>2, <1>3, <1>5 DEF SeFacts, ReadsOK, At
<1> QED
  BY <1>6, <1>7 DEF SeFacts

(***************************************************************************)
(* The mark is reset, and nobody is left who would have needed it.         *)
(***************************************************************************)
LEMMA RefreshResetFacts ==
  ASSUME SeTypes, SeFacts, ~Doomed', NEW p \in Threads, RefreshReset(p)
  PROVE  SeFacts'
<1> DEFINE new == [pc |-> "eds", keys |-> at[p].keys]
<1>1. new \in KeyStates /\ at' = [at EXCEPT ![p] = new]
  BY ThreadMoves
<1>2. /\ UNCHANGED <<instances, ip2instance>> /\ UNCHANGED <<selectors, byIP, seStore, wleStore, seEvents>>
      /\ UNCHANGED shards /\ at[p].pc = "reset" /\ Wrote(p)
  BY DEF RefreshReset, objectVars, Writes
<1>3. at'[p] = new /\ \A q \in Threads \ {p} : at'[q] = at[q] /\ ~At(q, {"rebuild"})
  BY <1>1, <1>2, WriterAlone DEF SeTypes
<1>4. \A e \in Entries : Marking(e) => Marking(e)'
  BY <1>2 DEF Marking, At
<1>5. new.pc # "idle" /\ new.keys = at[p].keys /\ new.pc # "rebuild"
  OBVIOUS
<1> HIDE DEF new
<1>6. IndexFacts' /\ EndpointsGiven'
  BY <1>1, <1>2, <1>4, <1>5, ThreadNoGive, ThreadMovesOn DEF At
<1>7. ReadsOK'
  BY <1>3, <1>5 DEF ReadsOK, At
<1> QED
  BY <1>6, <1>7 DEF SeFacts

(***************************************************************************)
(* maybeRefreshIndexes reads the ServiceEntries.                           *)
(***************************************************************************)
LEMMA RefreshReadFacts ==
  ASSUME SeTypes, IndexersOK, SeReaches, SeFacts, NEW p \in Threads, RefreshRead(p)
  PROVE  SeFacts'
<1> DEFINE new == [pc |-> "rebuild", keys |-> at[p].keys, entries |-> seStore]
<1>1. new \in RebuildStates /\ at' = [at EXCEPT ![p] = new]
  BY ThreadMoves
<1>2. /\ UNCHANGED <<instances, ip2instance>> /\ UNCHANGED <<selectors, byIP, seStore, wleStore, seEvents>>
      /\ UNCHANGED shards /\ UNCHANGED refreshIndexes /\ at[p].pc = "refresh" /\ refreshIndexes
  BY DEF RefreshRead, objectVars
<1>3. at'[p] = new /\ \A q \in Threads \ {p} : at'[q] = at[q]
  BY <1>1 DEF SeTypes
<1>0. "config" \in Threads
  BY DEF Threads
<1>5. new.pc = "rebuild" /\ new.keys = at[p].keys /\ new.entries = seStore
  OBVIOUS
<1> HIDE DEF new
<1>4. \A e \in Entries : Marking(e) => Marking(e)'
  BY <1>0, <1>2, <1>3, <1>5 DEF Marking, At
<1>6. IndexFacts' /\ EndpointsGiven'
  BY <1>1, <1>2, <1>4, <1>5, ThreadNoGive, ThreadMovesOn DEF At
<1>7. ASSUME NEW e \in Entries, NEW i \in OwnInstances(e, seStore[e])
      PROVE  \/ i \in instances \/ Has(seEvents, Brings(i))
             \/ At("config", {"refresh", "rebuild"}) /\ e \in at["config"].keys
  <2>0. seStore[e] \in EntryValues
    BY DEF SeTypes
  <2>1. i \in Insts /\ i[1] = e /\ i[2] = e /\ seStore[e] # Missing /\ seStore[e].endpoint # Missing
    BY <2>0, OwnFacts
  <2>2. CASE Has(seEvents, SeTasksOf(e))
    <3>1. Has(seEvents, Current("se", e))
      <4>1. \A u \in SeTasksOf(e) : u[1] = "se" /\ u[2] = e
        BY DEF SeTasksOf
      <4> QED
        BY <4>1, <2>2, ReachesStore
    <3>2. Current("se", e) \subseteq Brings(i)
      BY <2>1 DEF Current, InStore, Brings, SeTasksOf
    <3> QED
      BY <3>1, <3>2 DEF Has
  <2>3. CASE Marking(e)
    BY <2>1, <2>3 DEF Marking
  <2>4. CASE Will(i)
    <3>1. ~Adds(i)
      <4> SUFFICES ASSUME NEW q \in Threads, At(q, {"index"}), i \in at[q].updated PROVE FALSE
        BY DEF Adds
      <4>1. i[2] \in Wles \cup SePods
        BY DEF IndexersOK, Touched
      <4> QED
        BY <4>1, <2>1, SeAssumption
    <3> QED
      BY <2>4, <3>1 DEF Will
  <2> QED
    BY <2>1, <2>2, <2>3, <2>4 DEF SeFacts, IndexFacts, OwnFollow
<1>8. ReadsOK'
  <2> SUFFICES ASSUME NEW q \in Threads, At(q, {"rebuild"})'
               PROVE  /\ refreshIndexes
                      /\ \A d \in Entries :
                           /\ at'[q].entries[d] = seStore[d] \/ Has(seEvents, SeTasksOf(d))
                           /\ Agree(at'[q].entries[d], seStore[d]) \/ Has(seEvents, SvcTasksOf(d))
                           /\ \A i \in OwnInstances(d, at'[q].entries[d]) :
                                \/ i \in instances \/ Has(seEvents, Brings(i))
                                \/ At("config", {"refresh", "rebuild"})' /\ d \in at'["config"].keys
    BY <1>2 DEF ReadsOK, Has
  <2>1. \A d : At("config", {"refresh", "rebuild"}) /\ d \in at["config"].keys
          => At("config", {"refresh", "rebuild"})' /\ d \in at'["config"].keys
    BY <1>0, <1>2, <1>3, <1>5 DEF At
  <2>2. CASE q = p
    <3>1. at'[q].entries = seStore
      BY <2>2, <1>3, <1>5
    <3>2. \A s : Agree(s, s)
      BY DEF Agree
    <3> QED
      BY <3>1, <3>2, <1>2, <1>7, <2>1
  <2>3. CASE q # p
    <3>1. at'[q] = at[q] /\ At(q, {"rebuild"})
      BY <2>3, <1>3 DEF At
    <3> QED
      BY <3>1, <1>2, <2>1 DEF SeFacts, ReadsOK
  <2> QED
    BY <2>2, <2>3
<1> QED
  BY <1>6, <1>8 DEF SeFacts

-----------------------------------------------------------------------------
(***************************************************************************)
(* What a rebuild would add for a host is in the index, or a goroutine or  *)
(* an event brings it.                                                     *)
(***************************************************************************)
Due(e, i) ==
  \/ i \in instances
  \/ \E p \in Threads : At(p, {"index", "refresh", "rebuild"}) /\ e \in at[p].keys
  \/ Has(seEvents, SvcTasksOf(e))
  \/ Has(seEvents, Brings(i))
  \/ Has(seEvents, Relabels(i, seStore[e].selector))

RebuiltDue ==
  \A e \in Entries, i \in Insts :
    i[1] = e /\ seStore[e] # Missing /\ i \in Rebuilt(seStore, byIP, wleStore) => Due(e, i)

InstancesGiven ==
  \A e \in Entries, i \in Insts :
    i[1] = e /\ seStore[e] # Missing /\ i \in instances => Given(e, i) \/ Soon(e, i)

(***************************************************************************)
(* It follows from what is known of the index to come.                     *)
(***************************************************************************)
LEMMA RebuiltIsDue == SeTypes /\ IndexersOK /\ SeReaches /\ IndexFacts => RebuiltDue
<1> SUFFICES ASSUME SeTypes, IndexersOK, SeReaches, IndexFacts,
                    NEW e \in Entries, NEW i \in Insts, i[1] = e, seStore[e] # Missing,
                    i \in Rebuilt(seStore, byIP, wleStore)
             PROVE  Due(e, i)
  BY DEF RebuiltDue
<1>0. /\ seStore \in [Entries -> EntryValues] /\ byIP \in SUBSET SePods
      /\ wleStore \in [Wles -> WleValues] /\ selectors \in SUBSET (Entries \X EntrySpecs)
      /\ "config" \in Threads
  BY DEF SeTypes, Threads
<1>1. Marking(e) => Due(e, i)
  BY <1>0 DEF Marking, Due, At
<1>2. Will(i) => Due(e, i)
  <2>1. ASSUME NEW p \in Threads, At(p, {"index"}), i \in at[p].updated PROVE Due(e, i)
    <3>1. e \in at[p].keys
      BY <2>1 DEF IndexersOK, Touched
    <3> QED
      BY <3>1, <2>1 DEF Due, At
  <2>2. i \in instances => Due(e, i)
    BY DEF Due
  <2> QED
    BY <2>1, <2>2 DEF Will, Adds
<1>3. \/ Due(e, i)
      \/ \A l \in Labels : Selects(selectors, e, l) <=> seStore[e].selector = l
  BY <1>1 DEF IndexFacts, SelectorsFollow, Due
<1>4. CASE i[2] \in Entries /\ i[1] = i[2] /\ i \in OwnInstances(i[1], seStore[i[1]])
  <2>1. seStore[e].endpoint # Missing
    BY <1>4, <1>0, OwnFacts
  <2>2. CASE Has(seEvents, SeTasksOf(e))
    <3>1. Has(seEvents, Current("se", e))
      <4>1. \A u \in SeTasksOf(e) : u[1] = "se" /\ u[2] = e
        BY DEF SeTasksOf
      <4> QED
        BY <4>1, <2>2, ReachesStore
    <3>2. Current("se", e) \subseteq Brings(i)
      BY <1>4 DEF Current, InStore, Brings, SeTasksOf
    <3> QED
      BY <3>1, <3>2 DEF Has, Due
  <2> QED
    BY <2>1, <2>2, <1>1, <1>2, <1>4 DEF IndexFacts, OwnFollow
<1>5. CASE i[2] \in byIP /\ i[3][2] = 0 /\ seStore[e].selector = PodLabel[i[2]]
  <2>0. i[2] \in SePods /\ PodLabel[i[2]] \in Labels
    BY <1>5, <1>0 DEF Labels
  <2>1. CASE Selects(selectors, e, PodLabel[i[2]])
    <3>1. i \in PodInstances(selectors, i[2])
      BY <1>5, <2>0, <2>1, <1>0, PodFacts
    <3>2. Will(i)
      BY <3>1, <1>5, <2>0 DEF IndexFacts, PodsFollow
    <3> QED
      BY <3>2, <1>2
  <2> QED
    BY <2>0, <2>1, <1>3, <1>5
<1>6. CASE /\ i[2] \in Wles /\ wleStore[i[2]] # Missing /\ i[3][2] = wleStore[i[2]].addr
           /\ seStore[e].selector = wleStore[i[2]].label
  <2>0. wleStore[i[2]] \in WleSpecs /\ wleStore[i[2]].label \in Labels
    BY <1>6, <1>0 DEF Labels, WleValues
  <2>1. CASE Selects(selectors, e, wleStore[i[2]].label)
    <3>1. i \in WleInstances(selectors, i[2], wleStore[i[2]])
      BY <1>6, <2>0, <2>1, <1>0, WleFacts
    <3>2. CASE Has(seEvents, WleTasksOf(i[2]))
      <4>1. Has(seEvents, Current("wle", i[2]))
        <5>1. \A u \in WleTasksOf(i[2]) : u[1] = "wle" /\ u[2] = i[2]
          BY DEF WleTasksOf
        <5> QED
          BY <5>1, <3>2, ReachesStore
      <4>2. i[3] = <<i[2], i[3][2]>>
        BY DEF Insts, SeAddresses
      <4>3. Current("wle", i[2]) \subseteq Relabels(i, seStore[e].selector)
        BY <4>2, <1>6 DEF Current, InStore, Relabels, WleTasksOf
      <4> QED
        BY <4>1, <4>3 DEF Has, Due
    <3>3. CASE Will(i)
      BY <3>3, <1>2
    <3> QED
      BY <3>1, <3>2, <3>3, <1>6 DEF IndexFacts, WlesFollow
  <2> QED
    BY <2>0, <2>1, <1>3, <1>6
<1> QED
  BY <1>0, <1>4, <1>5, <1>6, RebuiltByHost

(***************************************************************************)
(* So only the instances in the index remain to be looked at.              *)
(***************************************************************************)
LEMMA GivenFromIndex ==
  SeTypes /\ IndexersOK /\ SeReaches /\ IndexFacts /\ InstancesGiven => EndpointsGiven
<1> SUFFICES ASSUME SeTypes, RebuiltDue, InstancesGiven,
                    NEW e \in Entries, NEW i \in Insts, i[1] = e, seStore[e] # Missing,
                    i \in instances \/ i \in Rebuilt(seStore, byIP, wleStore)
             PROVE  Given(e, i) \/ Soon(e, i)
  BY RebuiltIsDue DEF EndpointsGiven
<1>1. CASE i \in instances
  BY <1>1 DEF InstancesGiven
<1>2. CASE Due(e, i) /\ i \notin instances
  BY <1>2 DEF Due, Soon, Busy, At
<1> QED
  BY <1>1, <1>2 DEF RebuiltDue

(***************************************************************************)
(* The same in the state after a step.                                     *)
(***************************************************************************)
LEMMA GivenFromIndexNext ==
  (SeTypes /\ IndexersOK /\ SeReaches /\ IndexFacts /\ InstancesGiven)' => EndpointsGiven'
BY GivenFromIndex, PTL

(***************************************************************************)
(* The steps that read and give endpoints do not change the index.         *)
(***************************************************************************)
LEMMA GiverFacts ==
  ASSUME SeTypes, SeFacts, NEW p \in Threads, NEW new, at' = [at EXCEPT ![p] = new],
         at[p].pc \in {"eds", "give"}, new.pc \in {"idle", "give"},
         UNCHANGED <<instances, ip2instance>>, UNCHANGED <<selectors, byIP, seStore, wleStore, seEvents>>,
         UNCHANGED refreshIndexes
  PROVE  IndexFacts' /\ ReadsOK'
<1>1. at'[p] = new /\ "config" \in Threads /\ \A q \in Threads \ {p} : at'[q] = at[q]
  BY DEF SeTypes, Threads
<1>2. \A i : (Will(i)' <=> Will(i)) /\ (WillByIP(i)' <=> WillByIP(i))
  <2>1. \A q \in Threads : /\ At(q, {"index"})' <=> At(q, {"index"})
                           /\ At(q, {"index"}) => at'[q] = at[q]
    BY <1>1 DEF At
  <2> QED
    BY <2>1, WillSame
<1>3. \A e \in Entries : Marking(e) => Marking(e)'
  BY <1>1 DEF Marking, At
<1>4. IndexFacts'
  BY <1>2, <1>3, IndexFactsKept DEF SeFacts
<1>5. ReadsOK'
  <2>1. \A d : At("config", {"refresh", "rebuild"}) /\ d \in at["config"].keys
          => At("config", {"refresh", "rebuild"})' /\ d \in at'["config"].keys
    BY <1>1 DEF At
  <2>2. \A q \in Threads : At(q, {"rebuild"})' => At(q, {"rebuild"}) /\ at'[q] = at[q]
    BY <1>1 DEF At
  <2>3. \A B : Has(seEvents, B)' <=> Has(seEvents, B)
    BY DEF Has
  <2> QED
    BY <2>1, <2>2, <2>3 DEF SeFacts, ReadsOK
<1> QED
  BY <1>4, <1>5

(***************************************************************************)
(* edsUpdateByKeys reads the instances of its hosts, later than everybody  *)
(* who is about to give some.                                              *)
(***************************************************************************)
LEMMA EdsReadFacts ==
  ASSUME SeTypes, SeFacts, SeTypes', IndexersOK', SeReaches', NEW p \in Threads, EdsRead(p)
  PROVE  SeFacts'
<1> DEFINE found == {i \in instances : i[1] \in at[p].keys}
           hosts == IF found = {} THEN at[p].keys ELSE {i[1] : i \in found}
           new == IF hosts = {} THEN Resting ELSE [pc |-> "give", keys |-> hosts, found |-> found]
<1>1. /\ UNCHANGED <<instances, ip2instance>> /\ UNCHANGED <<selectors, byIP, seStore, wleStore, seEvents>>
      /\ UNCHANGED refreshIndexes /\ UNCHANGED <<shards, late, reversed>>
      /\ at[p].pc = "eds" /\ at' = [at EXCEPT ![p] = new]
      /\ \A q \in Threads : passed[q] \subseteq passed'[q] /\ (at[q].pc = "give" => p \in passed'[q])
  BY DEF EdsRead, objectVars
<1>2. /\ at'[p] = new /\ new.pc \in {"idle", "give"} /\ "config" \in Threads
      /\ \A q \in Threads \ {p} : at'[q] = at[q]
  BY <1>1 DEF SeTypes, Resting, Threads
<1>3. hosts \subseteq at[p].keys /\ \A i \in found : i[1] \in hosts
  OBVIOUS
<1>4. hosts # {} => at'[p].pc = "give" /\ at'[p].keys = hosts /\ at'[p].found = found
  BY <1>2
<1>5. hosts = {} => at'[p].pc = "idle"
  BY <1>2 DEF Resting
<1> HIDE DEF new, hosts
<1>6. IndexFacts' /\ ReadsOK'
  BY <1>1, <1>2, GiverFacts
<1>7. InstancesGiven'
  <2> SUFFICES ASSUME NEW e \in Entries, NEW i \in Insts, i[1] = e, seStore[e] # Missing, i \in instances
               PROVE  Given(e, i)' \/ Soon(e, i)'
    BY <1>1 DEF InstancesGiven
  <2>0. e \in at[p].keys => i \in found /\ e \in hosts
    BY <1>3
  <2> HIDE DEF found
  <2>1. \A q \in Threads : Blind(q, e, i)' => q # p /\ Blind(q, e, i)
    BY <2>0, <1>2, <1>3, <1>4, <1>5 DEF Blind, At
  <2>2. CASE e \in at[p].keys
    <3>1. At(p, {"give"})' /\ e \in at'[p].keys /\ i \in at'[p].found
      BY <2>0, <2>2, <1>4 DEF At
    <3>2. \A q \in Threads : Blind(q, e, i)' => p \in passed'[q]
      BY <2>1, <1>1 DEF Blind, At
    <3>3. Gives(p, e, i)'
      BY <3>1, <3>2 DEF Gives
    <3> QED
      BY <3>3 DEF Given
  <2>3. CASE e \notin at[p].keys
    <3>1. Busy(e) => Busy(e)'
      BY <2>3, <1>2 DEF Busy, At
    <3>2. Soon(e, i) => Soon(e, i)'
      BY <3>1, <1>1 DEF Soon, Has
    <3>3. Holds(e, i) => Holds(e, i)'
      BY <2>1, <1>1 DEF Holds
    <3>4. ASSUME NEW q \in Threads, Gives(q, e, i) PROVE Gives(q, e, i)'
      <4>1. q # p
        BY <3>4, <1>1 DEF Gives, At
      <4>2. at'[q] = at[q]
        BY <4>1, <1>2
      <4> QED
        BY <3>4, <4>2, <2>1, <1>1 DEF Gives, At
    <3>5. Given(e, i) => Given(e, i)'
      BY <3>3, <3>4 DEF Given
    <3> QED
      BY <3>2, <3>5 DEF SeFacts, EndpointsGiven
  <2> QED
    BY <2>2, <2>3
<1> QED
  BY <1>6, <1>7, GivenFromIndexNext DEF SeFacts

(***************************************************************************)
(* A goroutine gives one host what it read.                                *)
(***************************************************************************)
LEMMA EdsGiveFacts ==
  ASSUME SeTypes, SeFacts, SeTypes', IndexersOK', SeReaches', NEW p \in Threads, NEW e \in Entries,
         EdsGive(p, e)
  PROVE  SeFacts'
<1> DEFINE new == IF at[p].keys = {e} THEN Resting
                  ELSE [pc |-> "give", keys |-> at[p].keys \ {e}, found |-> at[p].found]
<1>1. /\ UNCHANGED <<instances, ip2instance>> /\ UNCHANGED <<selectors, byIP, seStore, wleStore, seEvents>>
      /\ UNCHANGED refreshIndexes /\ at[p].pc = "give" /\ e \in at[p].keys
      /\ at' = [at EXCEPT ![p] = new]
      /\ shards' = [shards EXCEPT ![e] = HostAddresses(at[p].found, e)]
      /\ reversed' = (IF e \in late[p] THEN reversed \cup {e} ELSE reversed \ {e})
  BY DEF EdsGive, objectVars
<1>2. /\ at'[p] = new /\ new.pc \in {"idle", "give"} /\ "config" \in Threads
      /\ \A q \in Threads \ {p} : at'[q] = at[q]
  BY <1>1 DEF SeTypes, Resting, Threads
<1>3. /\ at'[p].pc = "give" => /\ at'[p].keys = at[p].keys \ {e} /\ at'[p].found = at[p].found
                               /\ at[p].keys # {e}
      /\ at[p].keys # {e} => at'[p].pc = "give"
  BY <1>2 DEF Resting
<1> HIDE DEF new
<1>4. /\ shards'[e] = HostAddresses(at[p].found, e)
      /\ \A d \in Entries \ {e} : shards'[d] = shards[d] /\ (d \in reversed' <=> d \in reversed)
      /\ e \in late[p] => e \in reversed'
  BY <1>1 DEF SeTypes
<1>5. \A q \in Threads : q # p \/ at'[p].pc = "give" =>
        /\ passed'[q] = passed[q] /\ late[q] \subseteq late'[q]
        /\ p \in passed[q] => e \in late'[q]
  BY <1>3 DEF EdsGive, Forget, SeTypes
<1>6. IndexFacts' /\ ReadsOK'
  BY <1>1, <1>2, GiverFacts
<1>7. InstancesGiven'
  <2> SUFFICES ASSUME NEW d \in Entries, NEW i \in Insts, i[1] = d, seStore[d] # Missing, i \in instances
               PROVE  Given(d, i)' \/ Soon(d, i)'
    BY <1>1 DEF InstancesGiven
  <2>1. Soon(d, i) => Soon(d, i)'
    <3>1. Busy(d) => Busy(d)'
      BY <1>1, <1>2 DEF Busy, At
    <3> QED
      BY <3>1, <1>1 DEF Soon, Has
  <2>2. Given(d, i) \/ Soon(d, i)
    BY DEF SeFacts, EndpointsGiven
  <2>3. \A q \in Threads : Blind(q, d, i)' =>
          /\ Blind(q, d, i) /\ passed'[q] = passed[q] /\ late[q] \subseteq late'[q]
          /\ p \in passed[q] => e \in late'[q]
          /\ q = p => d # e
    BY <1>1, <1>2, <1>3, <1>5 DEF Blind, At
  <2>4. ASSUME NEW q \in Threads, Gives(q, d, i), q # p \/ d # e PROVE Gives(q, d, i)'
    <3>1. At(q, {"give"})' /\ d \in at'[q].keys /\ i \in at'[q].found
      BY <2>4, <1>1, <1>2, <1>3 DEF Gives, At
    <3> QED
      BY <2>3, <2>4, <3>1 DEF Gives
  <2>5. CASE d # e
    <3>1. Holds(d, i) => Holds(d, i)'
      BY <2>3, <2>5, <1>4 DEF Holds
    <3> QED
      BY <2>1, <2>2, <2>4, <2>5, <3>1 DEF Given
  <2>6. CASE d = e
    <3>1. i \in at[p].found => i[3] \in shards'[d]
      BY <2>6, <1>4 DEF HostAddresses
    <3>2. Gives(p, d, i) => Holds(d, i)'
      BY <2>3, <2>6, <3>1 DEF Gives, Holds
    <3>3. Holds(d, i) => Holds(d, i)'
      <4>1. i \notin at[p].found => Blind(p, d, i)
        BY <2>6, <1>1 DEF Blind, At
      <4> QED
        BY <4>1, <3>1, <2>3, <2>6, <1>4 DEF Holds
    <3> QED
      BY <2>1, <2>2, <2>4, <3>2, <3>3 DEF Given
  <2> QED
    BY <2>5, <2>6
<1> QED
  BY <1>6, <1>7, GivenFromIndexNext DEF SeFacts

(***************************************************************************)
(* The index is updated in place: what will be in it stays the same.       *)
(***************************************************************************)
LEMMA UpdateIndexFacts ==
  ASSUME SeTypes, IndexersOK, SeFacts, SeTypes', IndexersOK', SeReaches', ~Doomed',
         NEW p \in Threads, UpdateIndex(p)
  PROVE  SeFacts'
<1> DEFINE new == [pc |-> "refresh", keys |-> at[p].keys]
<1>1. at' = [at EXCEPT ![p] = new] /\ new.pc = "refresh" /\ new.keys = at[p].keys
  BY ThreadMoves
<1> HIDE DEF new
<1>2. /\ UNCHANGED <<selectors, byIP, seStore, wleStore, seEvents>> /\ UNCHANGED shards
      /\ UNCHANGED refreshIndexes /\ at[p].pc = "index" /\ Wrote(p)
  BY DEF UpdateIndex, objectVars, Writes
<1>3. /\ at'[p] = new /\ "config" \in Threads
      /\ \A q \in Threads \ {p} : at'[q] = at[q] /\ at[q].pc \notin {"index", "rebuild", "reset"}
  BY <1>1, <1>2, WriterAlone DEF SeTypes, Threads, At
<1>4. \A i : (Will(i)' <=> i \in instances') /\ (WillByIP(i)' <=> i \in ip2instance')
  <2>1. \A q \in Threads : at'[q].pc # "index"
    BY <1>1, <1>3
  <2> QED
    BY <2>1 DEF Will, WillByIP, Adds, At
<1>5. \A i : /\ Will(i) <=> \/ i \in at[p].updated
                            \/ /\ i \in instances
                               /\ \A j \in Touched(p) : j[1] # i[1] \/ j[2] # i[2]
             /\ WillByIP(i) <=> \/ i \in at[p].updated
                                \/ i \in ip2instance /\ \A j \in Touched(p) : j[3] # i[3]
  <2>1. \A q \in Threads : at[q].pc = "index" <=> q = p
    BY <1>2, <1>3
  <2> QED
    BY <2>1 DEF Will, WillByIP, Adds, At
<1>6. \A i : /\ i \in instances' <=> \/ i \in at[p].updated
                                     \/ /\ i \in instances
                                        /\ \A j \in Touched(p) : j[1] # i[1] \/ j[2] # i[2]
             /\ i \in ip2instance' <=> \/ i \in at[p].updated
                                       \/ i \in ip2instance /\ \A j \in Touched(p) : j[3] # i[3]
  <2>1. /\ instances' = Deleted(instances, Touched(p)) \cup at[p].updated
        /\ ip2instance' = {i \in ip2instance : \A j \in Touched(p) : j[3] # i[3]} \cup at[p].updated
    BY DEF UpdateIndex, Replace, Touched
  <2>2. \A i : i \in Deleted(instances, Touched(p)) <=>
                 i \in instances /\ \A j \in Touched(p) : j[1] # i[1] \/ j[2] # i[2]
    BY DEF Deleted
  <2> QED
    BY <2>1, <2>2
<1>7. \A e \in Entries : Marking(e) => Marking(e)'
  BY <1>1, <1>2, <1>3 DEF Marking, At
<1>8. IndexFacts'
  BY <1>2, <1>4, <1>5, <1>6, <1>7, IndexFactsKept DEF SeFacts
<1>9. ReadsOK'
  BY <1>1, <1>3 DEF ReadsOK, At
<1>10. InstancesGiven'
  <2> SUFFICES ASSUME NEW e \in Entries, NEW i \in Insts, i[1] = e, seStore[e] # Missing, i \in instances'
               PROVE  Given(e, i)' \/ Soon(e, i)'
    BY <1>2 DEF InstancesGiven
  <2>1. CASE i \in at[p].updated
    <3>1. e \in at[p].keys
      BY <2>1, <1>2 DEF IndexersOK, Touched, At
    <3> QED
      BY <3>1, <1>1, <1>3 DEF Soon, Busy, At
  <2>2. CASE i \in instances
    <3>1. Busy(e) => Busy(e)'
      BY <1>1, <1>3 DEF Busy, At
    <3>2. Soon(e, i) => Soon(e, i)'
      BY <3>1, <1>2 DEF Soon, Has
    <3>3. Given(e, i) => Given(e, i)'
      BY <1>2, ThreadNoGive, GivenSame
    <3> QED
      BY <3>2, <3>3, <2>2 DEF SeFacts, EndpointsGiven
  <2> QED
    BY <2>1, <2>2, <1>6
<1> QED
  BY <1>8, <1>9, <1>10, GivenFromIndexNext DEF SeFacts

(***************************************************************************)
(* A WorkloadEntry's event is taken: its instances will be those of the    *)
(* event, for the selectors read.                                          *)
(***************************************************************************)
LEMMA WleHandlerWill ==
  ASSUME SeTypes, IndexersOK, WleHandlerStart, NEW v, v = Head(seEvents)
  PROVE  LET O == WleInstances(selectors, v[2], v[3])
             C == WleInstances(selectors, v[2], v[4])
         IN  /\ \A i \in Insts : i[2] # v[2] => /\ Will(i)' <=> Will(i)
                                                /\ WillByIP(i)' <=> WillByIP(i)
             /\ \A i \in C : Will(i)' /\ WillByIP(i)' /\ Busy(i[1])'
             /\ \A i \in Insts : i[2] = v[2] /\ i \notin C /\ Will(i)' => Will(i) /\ i \notin O
             /\ \A e : Busy(e) => Busy(e)'
             /\ ~At("config", {"refresh", "rebuild"})'
             /\ \A p \in Threads : At(p, {"rebuild"})' => At(p, {"rebuild"}) /\ at'[p] = at[p]
<1> DEFINE O == WleInstances(selectors, v[2], v[3])
           C == WleInstances(selectors, v[2], v[4])
<1>0. /\ UNCHANGED <<instances, ip2instance>> /\ at["config"].pc = "idle" /\ "config" \in Threads
  BY DEF WleHandlerStart, Threads
<1>1. CASE selectors = {}
  <2>1. at' = at
    <3>1. at["config"] = Resting /\ at' = [at EXCEPT !["config"] = Resting]
      BY <1>0, <1>1, AtTypes DEF At, WleHandlerStart
    <3> QED
      BY <3>1 DEF SeTypes
  <2>2. O = {} /\ C = {}
    BY <1>1 DEF WleInstances, Selected
  <2>3. \A i : (Will(i)' <=> Will(i)) /\ (WillByIP(i)' <=> WillByIP(i))
    BY <1>0, <2>1, WillSame DEF At
  <2>4. \A e : Busy(e) => Busy(e)'
    BY <2>1 DEF Busy, At
  <2>5. /\ ~At("config", {"refresh", "rebuild"})'
        /\ \A p \in Threads : At(p, {"rebuild"})' => At(p, {"rebuild"}) /\ at'[p] = at[p]
    BY <1>0, <2>1 DEF At
  <2> QED
    BY <2>2, <2>3, <2>4, <2>5
<1>2. CASE selectors # {}
  <2>1. /\ v[2] \in Wles /\ at'["config"] \in IndexStates /\ at'["config"].updated = C
        /\ \A p \in Threads \ {"config"} : at'[p] = at[p]
        /\ \A j \in Touched("config")' : j[2] = v[2] /\ j[1] \in at'["config"].keys
        /\ \A j \in O \cup C : \E i \in Touched("config")' : i[1] = j[1]
        /\ \A j \in O \cup C : j[1] \in at'["config"].keys
        /\ Touched("config")' \subseteq O \cup C
    BY <1>2, WleHandlerIndex
  <2>2. O \subseteq Insts /\ C \subseteq Insts
    <3>1. v[3] \in WleValues /\ v[4] \in WleValues /\ selectors \in SUBSET (Entries \X EntrySpecs)
      BY <1>2, WleHandlerIndex DEF SeTypes
    <3> QED
      BY <2>1, <3>1, WleFacts
  <2> HIDE DEF O, C
  <2>3. at'["config"].pc = "index"
    BY <2>1 DEF IndexStates
  <2>4. \A p \in Threads \ {"config"} : (At(p, {"index"})' <=> At(p, {"index"})) /\ Touched(p)' = Touched(p)
    BY <2>1 DEF At, Touched
  <2>5. \A j \in Touched("config")' : j \in Insts /\ j[2] = v[2] /\ j[3][1] = v[2]
    BY <2>1, <2>2 DEF Insts
  <2>6. At("config", {"index"})' /\ ~At("config", {"index"})
    BY <2>3, <1>0 DEF At
  <2>7. ASSUME NEW i \in Insts
        PROVE  /\ Adds(i)' <=> i \in C \/ Adds(i)
               /\ Will(i)' <=> \/ i \in C \/ Adds(i)
                               \/ /\ i \in instances
                                  /\ \A j \in Touched("config")' : j[1] # i[1] \/ j[2] # i[2]
                                  /\ \A p \in Threads : At(p, {"index"}) =>
                                        \A j \in Touched(p) : j[1] # i[1] \/ j[2] # i[2]
               /\ WillByIP(i)' <=> \/ i \in C \/ Adds(i)
                                   \/ /\ i \in ip2instance
                                      /\ \A j \in Touched("config")' : j[3] # i[3]
                                      /\ \A p \in Threads : At(p, {"index"}) =>
                                           \A j \in Touched(p) : j[3] # i[3]
    <3>1. Adds(i)' <=> i \in C \/ Adds(i)
      BY <2>1, <2>4, <2>6, <1>0 DEF Adds
    <3>2. (\A p \in Threads : At(p, {"index"})' => \A j \in Touched(p)' : j[1] # i[1] \/ j[2] # i[2])
            <=> /\ \A j \in Touched("config")' : j[1] # i[1] \/ j[2] # i[2]
                /\ \A p \in Threads : At(p, {"index"}) => \A j \in Touched(p) : j[1] # i[1] \/ j[2] # i[2]
      BY <2>4, <2>6, <1>0
    <3>3. (\A p \in Threads : At(p, {"index"})' => \A j \in Touched(p)' : j[3] # i[3])
            <=> /\ \A j \in Touched("config")' : j[3] # i[3]
                /\ \A p \in Threads : At(p, {"index"}) => \A j \in Touched(p) : j[3] # i[3]
      BY <2>4, <2>6, <1>0
    <3>4. Will(i)' <=> \/ Adds(i)'
                       \/ /\ i \in instances'
                          /\ \A p \in Threads : At(p, {"index"})' =>
                               \A j \in Touched(p)' : j[1] # i[1] \/ j[2] # i[2]
      BY DEF Will
    <3>5. WillByIP(i)' <=> \/ Adds(i)'
                           \/ /\ i \in ip2instance'
                              /\ \A p \in Threads : At(p, {"index"})' => \A j \in Touched(p)' : j[3] # i[3]
      BY DEF WillByIP
    <3> QED
      BY <3>1, <3>2, <3>3, <3>4, <3>5, <1>0
  <2>8. ASSUME NEW i \in Insts, i[2] # v[2]
        PROVE  /\ Will(i)' <=> Will(i)
               /\ WillByIP(i)' <=> WillByIP(i)
    <3>1. i \notin C /\ \A j \in Touched("config")' : j[2] # i[2] /\ j[3] # i[3]
      <4>1. i[3][1] = i[2]
        BY DEF Insts
      <4>2. \A j \in C : j[2] = v[2]
        BY <2>1, <2>3 DEF Touched
      <4> QED
        BY <4>1, <4>2, <2>5, <2>8
    <3> QED
      BY <3>1, <2>7 DEF Will, WillByIP
  <2>9. ASSUME NEW i \in C PROVE Will(i)' /\ WillByIP(i)' /\ Busy(i[1])'
    <3>1. i[1] \in at'["config"].keys
      BY <2>1
    <3> QED
      BY <3>1, <2>2, <2>3, <2>7, <1>0 DEF Busy, At
  <2>10. ASSUME NEW i \in Insts, i[2] = v[2], i \notin C, Will(i)' PROVE Will(i) /\ i \notin O
    <3>1. ~Adds(i)
      <4>1. \A p \in Threads : At(p, {"index"}) => \A j \in at[p].updated : j[2] \in SePods
        BY <2>6 DEF IndexersOK, Touched
      <4>2. i[2] \notin SePods
        BY <2>10, <2>1, SeAssumption
      <4> QED
        BY <4>1, <4>2 DEF Adds
    <3>2. Will(i)
      BY <3>1, <2>7, <2>10 DEF Will
    <3>3. \A j \in Touched("config")' : j[1] # i[1]
      BY <3>1, <2>7, <2>10, <2>5
    <3> QED
      BY <3>2, <3>3, <2>1
  <2>11. \A e : Busy(e) => Busy(e)'
    BY <1>0, <2>1 DEF Busy, At
  <2>12. /\ ~At("config", {"refresh", "rebuild"})'
         /\ \A p \in Threads : At(p, {"rebuild"})' => At(p, {"rebuild"}) /\ at'[p] = at[p]
    BY <2>1, <2>3 DEF At
  <2> QED
    BY <2>8, <2>9, <2>10, <2>11, <2>12 DEF O, C
<1> QED
  BY <1>1, <1>2

(***************************************************************************)
(* The event leaves the queue: its instances are to come, or a later event *)
(* of the WorkloadEntry is.                                                *)
(***************************************************************************)
LEMMA WleHandlerFacts ==
  ASSUME SeTypes, IndexersOK, SeLinked, SeReaches, SeFacts, SeTypes', IndexersOK', SeReaches',
         WleHandlerStart
  PROVE  SeFacts'
<1>1. PICK v : v = Head(seEvents)
  OBVIOUS
<1>2. /\ UNCHANGED <<seStore, wleStore>> /\ seEvents # <<>> /\ seEvents' = Tail(seEvents)
      /\ UNCHANGED <<instances, ip2instance, selectors, byIP, refreshIndexes, shards>>
      /\ at["config"].pc = "idle" /\ v[1] = "wle"
  BY <1>1 DEF WleHandlerStart, objectVars
<1>3. v \in SeTasks /\ v[2] \in Wles /\ v[3] \in WleValues /\ v[4] \in WleValues /\ InStore(v) = wleStore[v[2]]
  BY <1>1, <1>2, SeEventHead DEF InStore
<1>4. /\ \/ Has(seEvents', Successors(v))
         \/ v[4] = wleStore[v[2]] /\ ~Has(seEvents', SameObj(v))
      /\ \A B : Has(seEvents, B) <=> v \in B \/ Has(seEvents', B)
  BY <1>1, <1>2, <1>3, EventHandled
<1> DEFINE w == v[2]
           O == WleInstances(selectors, w, v[3])
           C == WleInstances(selectors, w, v[4])
<1>5. /\ \A i \in Insts : i[2] # w => (Will(i)' <=> Will(i)) /\ (WillByIP(i)' <=> WillByIP(i))
      /\ \A i \in C : Will(i)' /\ WillByIP(i)' /\ Busy(i[1])'
      /\ \A i \in Insts : i[2] = w /\ i \notin C /\ Will(i)' => Will(i) /\ i \notin O
      /\ \A e : Busy(e) => Busy(e)'
      /\ ~At("config", {"refresh", "rebuild"})'
      /\ \A p \in Threads : At(p, {"rebuild"})' => At(p, {"rebuild"}) /\ at'[p] = at[p]
  BY <1>1, WleHandlerWill
<1>6. \A e : ~Marking(e) /\ v \notin SvcTasksOf(e) /\ v \notin SeTasksOf(e)
  BY <1>2 DEF Marking, At, SvcTasksOf, SeTasksOf
<1>7. \A e : /\ Has(seEvents, SvcTasksOf(e)) <=> Has(seEvents', SvcTasksOf(e))
             /\ Has(seEvents, SeTasksOf(e)) <=> Has(seEvents', SeTasksOf(e))
  BY <1>4, <1>6
<1>8. \A i : Has(seEvents, Brings(i)) <=> Has(seEvents', Brings(i))
  BY <1>4, <1>6 DEF Brings
<1>9. \A B : Has(seEvents, B)' <=> Has(seEvents', B)
  BY DEF Has
<1>10. SelectorsFollow'
  BY <1>2, <1>6, <1>7, <1>9 DEF SeFacts, IndexFacts, SelectorsFollow
<1>11. OwnFollow' /\ PodsFollow'
  <2>1. \A i \in Insts : i[2] \in Entries \cup SePods => (Will(i)' <=> Will(i))
    BY <1>3, <1>5, SeAssumption
  <2>2. OwnFollow'
    BY <2>1, <1>2, <1>6, <1>7, <1>9 DEF SeFacts, IndexFacts, OwnFollow
  <2>3. PodsFollow'
    BY <2>1, <1>2 DEF SeFacts, IndexFacts, PodsFollow
  <2> QED
    BY <2>2, <2>3
<1>12. WlesFollow'
  <2> SUFFICES ASSUME NEW x \in Wles, NEW i \in Insts, i[2] = x
               PROVE  /\ Will(i)' => \/ i \in WleInstances(selectors, x, wleStore[x])
                                     \/ Has(seEvents', Moves(selectors, i))
                      /\ i \in WleInstances(selectors, x, wleStore[x])
                           => Will(i)' \/ Has(seEvents', WleTasksOf(x))
    BY <1>2, <1>9 DEF WlesFollow
  <2>1. /\ Will(i) => i \in WleInstances(selectors, x, wleStore[x]) \/ Has(seEvents, Moves(selectors, i))
        /\ i \in WleInstances(selectors, x, wleStore[x]) => Will(i) \/ Has(seEvents, WleTasksOf(x))
    BY DEF SeFacts, IndexFacts, WlesFollow
  <2>2. CASE x # w
    <3>1. v \notin Moves(selectors, i) /\ v \notin WleTasksOf(x)
      BY <2>2 DEF Moves, WleTasksOf
    <3> QED
      BY <2>1, <2>2, <3>1, <1>4, <1>5
  <2>3. CASE x = w
    <3>1. Successors(v) \subseteq WleTasksOf(x)
      BY <2>3, <1>2 DEF Successors, SameObj, WleTasksOf
    <3>2. CASE Has(seEvents', Successors(v))
      <4>1. Has(seEvents', WleTasksOf(x))
        BY <3>1, <3>2 DEF Has
      <4>2. CASE i \in C
        <5>1. Successors(v) \subseteq Moves(selectors, i)
          BY <4>2, <3>1, <2>3 DEF Successors, Moves
        <5>2. Has(seEvents', Moves(selectors, i))
          BY <5>1, <3>2 DEF Has
        <5> QED
          BY <4>1, <5>2
      <4>3. CASE i \notin C /\ Will(i)'
        <5>1. Will(i) /\ i \notin O
          BY <4>3, <1>5, <2>3
        <5>2. v \notin Moves(selectors, i)
          BY <5>1, <4>3, <2>3 DEF Moves
        <5> QED
          BY <4>1, <5>1, <5>2, <2>1, <1>4
      <4> QED
        BY <4>1, <4>2, <4>3
    <3>3. CASE v[4] = wleStore[w]
      <4>1. C = WleInstances(selectors, x, wleStore[x])
        BY <3>3, <2>3
      <4>2. CASE i \notin C /\ Will(i)'
        <5>1. Will(i) /\ i \notin O
          BY <4>2, <1>5, <2>3
        <5>2. v \notin Moves(selectors, i)
          BY <5>1, <4>2, <2>3 DEF Moves
        <5> QED
          BY <4>1, <4>2, <5>1, <5>2, <2>1, <1>4
      <4> QED
        BY <4>1, <4>2, <1>5
    <3> QED
      BY <3>2, <3>3, <1>4
  <2> QED
    BY <2>2, <2>3
<1>13. ByIPFollows'
  <2> SUFFICES ASSUME NEW i \in Insts, Will(i)'
               PROVE  WillByIP(i)' \/ Has(seEvents', WleTasksOf(i[2]))
    BY <1>9 DEF ByIPFollows
  <2>1. CASE i[2] # w
    <3>1. v \notin WleTasksOf(i[2])
      BY <2>1 DEF WleTasksOf
    <3> QED
      BY <2>1, <3>1, <1>4, <1>5 DEF SeFacts, IndexFacts, ByIPFollows
  <2>2. CASE i[2] = w
    <3>1. /\ Moves(selectors, i) \subseteq WleTasksOf(i[2])
          /\ Successors(v) \subseteq WleTasksOf(i[2])
      BY <2>2, <1>2 DEF Moves, Successors, SameObj, WleTasksOf
    <3>2. CASE Has(seEvents', Successors(v))
      BY <3>1, <3>2 DEF Has
    <3>3. CASE v[4] = wleStore[w]
      <4>1. i \in C \/ Has(seEvents', Moves(selectors, i))
        BY <1>12, <1>2, <1>3, <1>9, <2>2, <3>3 DEF WlesFollow
      <4>2. Has(seEvents', Moves(selectors, i)) => Has(seEvents', WleTasksOf(i[2]))
        BY <3>1 DEF Has
      <4> QED
        BY <4>1, <4>2, <1>5
    <3> QED
      BY <3>2, <3>3, <1>4
  <2> QED
    BY <2>1, <2>2
<1>14. ReadsOK'
  <2>1. ~At("config", {"refresh", "rebuild"})
    BY <1>2 DEF At
  <2> QED
    BY <2>1, <1>2, <1>5, <1>7, <1>8, <1>9 DEF SeFacts, ReadsOK
<1>15. InstancesGiven'
  <2> SUFFICES ASSUME NEW e \in Entries, NEW i \in Insts, i[1] = e, seStore[e] # Missing, i \in instances
               PROVE  Given(e, i)' \/ Soon(e, i)'
    BY <1>2 DEF InstancesGiven
  <2>1. CASE v \in Relabels(i, seStore[e].selector)
    <3>1. /\ i[2] = w /\ v[4] # Missing /\ v[4].label = seStore[e].selector /\ i[3][2] = v[4].addr
      BY <2>1 DEF Relabels, WleTasksOf
    <3>2. v[4].label \in Labels
      BY <3>1, <1>3 DEF WleValues, Labels
    <3>3. CASE Has(seEvents', SvcTasksOf(e))
      BY <3>3, <1>9 DEF Soon
    <3>4. CASE Selects(selectors, e, v[4].label)
      <4>1. i \in C
        BY <3>1, <3>4, <1>3, WleFacts DEF SeTypes
      <4> QED
        BY <4>1, <1>5 DEF Soon
    <3> QED
      BY <3>1, <3>2, <3>3, <3>4, <1>6, <1>7 DEF SeFacts, IndexFacts, SelectorsFollow
  <2>2. CASE v \notin Relabels(i, seStore[e].selector)
    <3>1. Has(seEvents, Relabels(i, seStore[e].selector)) => Has(seEvents, Relabels(i, seStore[e].selector))'
      BY <2>2, <1>2, <1>4, <1>9
    <3>2. Soon(e, i) => Soon(e, i)'
      BY <3>1, <1>5, <1>7, <1>8, <1>9 DEF Soon
    <3>3. Given(e, i) => Given(e, i)'
      BY <1>2, HandlersNoGive, GivenSame
    <3> QED
      BY <3>2, <3>3 DEF SeFacts, EndpointsGiven
  <2> QED
    BY <2>1, <2>2
<1>16. IndexFacts'
  BY <1>10, <1>11, <1>12, <1>13 DEF IndexFacts
<1> QED
  BY <1>14, <1>15, <1>16, GivenFromIndexNext DEF SeFacts

(***************************************************************************)
(* A pod's event is taken, and recorded for the rebuilds.                  *)
(***************************************************************************)
LEMMA PodHandlerWill ==
  ASSUME SeTypes, IndexersOK, PodsFollow, ByIPFollows, PodHandlerStart,
         NEW v, v = Head(podEvents)
  PROVE  /\ \A i \in Insts : i[2] # v[1] => (Will(i)' <=> Will(i)) /\ (WillByIP(i)' <=> WillByIP(i))
         /\ \A i \in Insts : i[2] = v[1] =>
              /\ Will(i)' <=> v[1] \in byIP' /\ i \in PodInstances(selectors, v[1])
              /\ Will(i)' => WillByIP(i)' \/ Has(seEvents, WleTasksOf(i[2]))
<1>0. /\ UNCHANGED <<instances, ip2instance>> /\ at["pod"].pc = "idle" /\ "pod" \in Threads
      /\ v \in SePods \X BOOLEAN
      /\ byIP' = (IF v[2] THEN byIP \ {v[1]} ELSE byIP \cup {v[1]})
  BY DEF PodHandlerStart, Threads, SeTypes
<1> DEFINE own == PodInstances(selectors, v[1])
<1>1. own \subseteq Insts /\ \A i \in own : i[2] = v[1]
  BY <1>0, PodFacts DEF SeTypes
<1>2. CASE selectors = {} \/ (v[1] \in byIP) # v[2]
  <2>1. at' = at
    <3>1. at["pod"] = Resting
      BY <1>0, AtTypes DEF At
    <3>2. at' = [at EXCEPT !["pod"] = Resting]
      BY <1>2 DEF PodHandlerStart
    <3> QED
      BY <3>1, <3>2 DEF SeTypes
  <2>2. \A i : (Will(i)' <=> Will(i)) /\ (WillByIP(i)' <=> WillByIP(i))
    BY <1>0, <2>1, WillSame DEF At
  <2>3. own = {} \/ (v[1] \in byIP' <=> v[1] \in byIP)
    <3>1. CASE selectors = {}
      BY <3>1 DEF PodInstances, Selected
    <3>2. CASE (v[1] \in byIP) # v[2]
      BY <3>2, <1>0
    <3> QED
      BY <3>1, <3>2, <1>2
  <2>4. \A i \in Insts : i[2] = v[1] => (Will(i) <=> v[1] \in byIP /\ i \in own)
    BY <1>0 DEF PodsFollow
  <2> QED
    BY <2>2, <2>3, <2>4 DEF ByIPFollows
<1>3. CASE selectors # {} /\ (v[1] \in byIP) = v[2]
  <2>1. /\ at'["pod"] \in IndexStates /\ Touched("pod")' = own
        /\ at'["pod"].updated = IF v[2] THEN {} ELSE own
        /\ \A p \in Threads \ {"pod"} : at'[p] = at[p]
    BY <1>3, PodHandlerIndex
  <2> HIDE DEF own
  <2>3. at'["pod"].pc = "index"
    BY <2>1 DEF IndexStates
  <2>4. \A p \in Threads \ {"pod"} : (At(p, {"index"})' <=> At(p, {"index"})) /\ Touched(p)' = Touched(p)
    BY <2>1 DEF At, Touched
  <2>5. \A j \in own : j \in Insts /\ j[2] = v[1] /\ j[3][1] = v[1]
    BY <1>1 DEF Insts
  <2>6. At("pod", {"index"})' /\ ~At("pod", {"index"})
    BY <2>3, <1>0 DEF At
  <2>7. ASSUME NEW i \in Insts
        PROVE  /\ Will(i)' <=> \/ (i \in own /\ ~v[2]) \/ Adds(i)
                               \/ /\ i \in instances
                                  /\ \A j \in own : j[1] # i[1] \/ j[2] # i[2]
                                  /\ \A p \in Threads : At(p, {"index"}) =>
                                        \A j \in Touched(p) : j[1] # i[1] \/ j[2] # i[2]
               /\ WillByIP(i)' <=> \/ (i \in own /\ ~v[2]) \/ Adds(i)
                                   \/ /\ i \in ip2instance
                                      /\ \A j \in own : j[3] # i[3]
                                      /\ \A p \in Threads : At(p, {"index"}) =>
                                           \A j \in Touched(p) : j[3] # i[3]
    <3>1. Adds(i)' <=> (i \in own /\ ~v[2]) \/ Adds(i)
      BY <2>1, <2>4, <2>6, <1>0 DEF Adds
    <3>2. (\A p \in Threads : At(p, {"index"})' => \A j \in Touched(p)' : j[1] # i[1] \/ j[2] # i[2])
            <=> /\ \A j \in own : j[1] # i[1] \/ j[2] # i[2]
                /\ \A p \in Threads : At(p, {"index"}) => \A j \in Touched(p) : j[1] # i[1] \/ j[2] # i[2]
      BY <2>1, <2>4, <2>6, <1>0
    <3>3. (\A p \in Threads : At(p, {"index"})' => \A j \in Touched(p)' : j[3] # i[3])
            <=> /\ \A j \in own : j[3] # i[3]
                /\ \A p \in Threads : At(p, {"index"}) => \A j \in Touched(p) : j[3] # i[3]
      BY <2>1, <2>4, <2>6, <1>0
    <3>4. Will(i)' <=> \/ Adds(i)'
                       \/ /\ i \in instances'
                          /\ \A p \in Threads : At(p, {"index"})' =>
                               \A j \in Touched(p)' : j[1] # i[1] \/ j[2] # i[2]
      BY DEF Will
    <3>5. WillByIP(i)' <=> \/ Adds(i)'
                           \/ /\ i \in ip2instance'
                              /\ \A p \in Threads : At(p, {"index"})' => \A j \in Touched(p)' : j[3] # i[3]
      BY DEF WillByIP
    <3> QED
      BY <3>1, <3>2, <3>3, <3>4, <3>5, <1>0
  <2>8. ASSUME NEW i \in Insts, i[2] # v[1]
        PROVE  /\ Will(i)' <=> Will(i)
               /\ WillByIP(i)' <=> WillByIP(i)
    <3>1. i \notin own /\ \A j \in own : j[2] # i[2] /\ j[3] # i[3]
      <4>1. i[3][1] = i[2]
        BY DEF Insts
      <4> QED
        BY <4>1, <2>5, <2>8
    <3> QED
      BY <3>1, <2>7 DEF Will, WillByIP
  <2>9. ASSUME NEW i \in Insts, i[2] = v[1]
        PROVE  /\ Will(i)' <=> v[1] \in byIP' /\ i \in own
               /\ Will(i)' => WillByIP(i)'
    <3>1. ~Adds(i)
      <4>1. \A p \in Threads : At(p, {"index"}) => \A j \in at[p].updated : j[2] \in Wles
        BY <2>6, <1>0 DEF IndexersOK, Touched, Threads
      <4>2. i[2] \notin Wles
        BY <2>9, <1>0, SeAssumption
      <4> QED
        BY <4>1, <4>2 DEF Adds
    <3>2. Will(i) <=> v[1] \in byIP /\ i \in own
      BY <2>9, <1>0 DEF PodsFollow, own
    <3>3. Will(i)' /\ i \notin own => Will(i)
      BY <3>1, <2>7 DEF Will
    <3>4. i \in own => (Will(i)' <=> ~v[2]) /\ (~v[2] => WillByIP(i)')
      BY <3>1, <2>7, <2>9
    <3> QED
      BY <3>2, <3>3, <3>4, <1>0, <1>3
  <2> QED
    BY <2>8, <2>9 DEF own
<1> QED
  BY <1>2, <1>3

(***************************************************************************)
(* The event leaves the queue, and the pod's instances are to come or to   *)
(* go.                                                                     *)
(***************************************************************************)
LEMMA PodHandlerFacts ==
  ASSUME SeTypes, IndexersOK, SeFacts, SeTypes', IndexersOK', SeReaches', PodHandlerStart
  PROVE  SeFacts'
<1>1. PICK v : v = Head(podEvents)
  OBVIOUS
<1>2. /\ UNCHANGED <<seStore, wleStore, seEvents>>
      /\ UNCHANGED <<instances, ip2instance, selectors, refreshIndexes, shards>>
      /\ at["pod"].pc = "idle" /\ v \in SePods \X BOOLEAN
      /\ \A p \in SePods : p # v[1] => (p \in byIP' <=> p \in byIP)
  BY <1>1 DEF PodHandlerStart, objectVars, SeTypes
<1>3. /\ \A i \in Insts : i[2] # v[1] => (Will(i)' <=> Will(i)) /\ (WillByIP(i)' <=> WillByIP(i))
      /\ \A i \in Insts : i[2] = v[1] =>
              /\ Will(i)' <=> v[1] \in byIP' /\ i \in PodInstances(selectors, v[1])
              /\ Will(i)' => WillByIP(i)' \/ Has(seEvents, WleTasksOf(i[2]))
  BY <1>1, PodHandlerWill DEF SeFacts, IndexFacts
<1>4. /\ \A q \in Threads \ {"pod"} : at'[q] = at[q]
      /\ at'["pod"].pc \in {"idle", "index"}
      /\ "config" \in Threads \ {"pod"}
  BY DEF PodHandlerStart, SeTypes, Resting, Threads
<1>5. \A e \in Entries : Marking(e) => Marking(e)'
  BY <1>2, <1>4 DEF Marking, At
<1>6. \A B : Has(seEvents, B)' <=> Has(seEvents, B)
  BY <1>2 DEF Has
<1>7. IndexFacts'
  <2>1. \A i \in Insts : i[2] \in Entries \cup Wles => (Will(i)' <=> Will(i))
    BY <1>2, <1>3, SeAssumption
  <2>2. SelectorsFollow'
    BY <1>2, <1>5, <1>6 DEF SeFacts, IndexFacts, SelectorsFollow
  <2>3. OwnFollow'
    BY <2>1, <1>2, <1>5, <1>6 DEF SeFacts, IndexFacts, OwnFollow
  <2>4. PodsFollow'
    BY <1>2, <1>3 DEF SeFacts, IndexFacts, PodsFollow
  <2>5. WlesFollow'
    BY <2>1, <1>2, <1>6 DEF SeFacts, IndexFacts, WlesFollow
  <2>6. ByIPFollows'
    BY <1>3, <1>6 DEF SeFacts, IndexFacts, ByIPFollows
  <2> QED
    BY <2>2, <2>3, <2>4, <2>5, <2>6 DEF IndexFacts
<1>8. ReadsOK'
  <2>1. \A d : At("config", {"refresh", "rebuild"}) /\ d \in at["config"].keys
          => At("config", {"refresh", "rebuild"})' /\ d \in at'["config"].keys
    BY <1>4 DEF At
  <2>2. \A q \in Threads : At(q, {"rebuild"})' => At(q, {"rebuild"}) /\ at'[q] = at[q]
    BY <1>4 DEF At
  <2> QED
    BY <1>2, <2>1, <2>2, <1>6 DEF SeFacts, ReadsOK
<1>9. InstancesGiven'
  <2>1. \A e : Busy(e) => Busy(e)'
    BY <1>2, <1>4 DEF Busy, At
  <2>2. \A e, i : Soon(e, i) => Soon(e, i)'
    BY <2>1, <1>2, <1>6 DEF Soon
  <2>3. \A e, i : Given(e, i) => Given(e, i)'
    BY <1>2, HandlersNoGive, GivenSame
  <2> QED
    BY <2>2, <2>3, <1>2 DEF SeFacts, EndpointsGiven, InstancesGiven
<1> QED
  BY <1>7, <1>8, <1>9, GivenFromIndexNext DEF SeFacts

(***************************************************************************)
(* A ServiceEntry's event is taken while nobody is about to write.         *)
(***************************************************************************)
LEMMA EntryHandled ==
  ASSUME SeTypes, SeLinked, SeReaches, ~Doomed', EntryHandlerEndpoints \/ EntryHandlerServices,
         NEW v, v = Head(seEvents)
  PROVE  /\ UNCHANGED <<seStore, wleStore>> /\ UNCHANGED <<selectors, byIP>>
         /\ v \in SeTasks /\ v[1] = "se" /\ v[2] \in Entries /\ v[4] \in EntryValues
         /\ \/ Has(seEvents', Successors(v))
            \/ v[4] = seStore[v[2]] /\ ~Has(seEvents', SameObj(v))
         /\ \A B : Has(seEvents, B) <=> v \in B \/ Has(seEvents', B)
         /\ \A B : Has(seEvents, B)' <=> Has(seEvents', B)
         /\ "config" \in Threads /\ at'["config"].pc = "refresh"
         /\ \A e : ~Marking(e)
         /\ \A p \in Threads : ~At(p, {"rebuild"})' /\ ~At(p, {"reset"})'
         /\ \A i : (Will(i) <=> i \in instances) /\ (WillByIP(i) <=> i \in ip2instance)
         /\ \A i : (Will(i)' <=> i \in instances') /\ (WillByIP(i)' <=> i \in ip2instance')
         /\ \A e : Busy(e) => Busy(e)'
<1>1. /\ UNCHANGED <<seStore, wleStore>> /\ UNCHANGED <<selectors, byIP>> /\ v[1] = "se"
      /\ seEvents # <<>> /\ seEvents' = Tail(seEvents) /\ Wrote("config")
      /\ at["config"].pc = "idle" /\ "config" \in Threads
  BY DEF EntryHandlerEndpoints, EntryHandlerServices, objectVars, Threads
<1>2. v \in SeTasks /\ v[2] \in Entries /\ v[4] \in EntryValues /\ InStore(v) = seStore[v[2]]
  BY <1>1, SeEventHead DEF InStore
<1>3. /\ \/ Has(seEvents', Successors(v))
         \/ v[4] = seStore[v[2]] /\ ~Has(seEvents', SameObj(v))
      /\ \A B : Has(seEvents, B) <=> v \in B \/ Has(seEvents', B)
  BY <1>1, <1>2, EventHandled
<1>4. PICK keys : at' = [at EXCEPT !["config"] = [pc |-> "refresh", keys |-> keys]]
  BY DEF EntryHandlerEndpoints, EntryHandlerServices
<1>5. /\ at'["config"].pc = "refresh"
      /\ \A q \in Threads \ {"config"} : at'[q] = at[q] /\ at[q].pc \notin {"index", "rebuild", "reset"}
  BY <1>1, <1>4, WriterAlone DEF SeTypes, At
<1>6. \A e : ~Marking(e)
  BY <1>1 DEF Marking, At
<1>7. \A p \in Threads : /\ ~At(p, {"rebuild"})' /\ ~At(p, {"reset"})'
                         /\ ~At(p, {"index"}) /\ ~At(p, {"index"})'
  BY <1>1, <1>5 DEF At
<1>8. /\ \A i : (Will(i) <=> i \in instances) /\ (WillByIP(i) <=> i \in ip2instance)
      /\ \A i : (Will(i)' <=> i \in instances') /\ (WillByIP(i)' <=> i \in ip2instance')
  BY <1>7 DEF Will, WillByIP, Adds
<1>9. \A e : Busy(e) => Busy(e)'
  BY <1>1, <1>5 DEF Busy, At
<1>10. \A B : Has(seEvents, B)' <=> Has(seEvents', B)
  BY DEF Has
<1> QED
  BY <1>1, <1>2, <1>3, <1>5, <1>6, <1>7, <1>8, <1>9, <1>10

(***************************************************************************)
(* Only the endpoint changed: the index has the new one at once.           *)
(***************************************************************************)
LEMMA EntryHandlerEndpointsFacts ==
  ASSUME SeTypes, IndexersOK, SeLinked, SeReaches, SeFacts, SeTypes', IndexersOK', SeReaches',
         ~Doomed', EntryHandlerEndpoints
  PROVE  SeFacts'
<1>1. PICK v : v = Head(seEvents)
  OBVIOUS
<1> DEFINE e == v[2]
           own == OwnInstances(e, v[4])
<1>2. /\ UNCHANGED <<seStore, wleStore>> /\ UNCHANGED <<selectors, byIP>>
      /\ v \in SeTasks /\ v[1] = "se" /\ e \in Entries /\ v[4] \in EntryValues
      /\ \/ Has(seEvents', Successors(v))
         \/ v[4] = seStore[e] /\ ~Has(seEvents', SameObj(v))
      /\ \A B : Has(seEvents, B) <=> v \in B \/ Has(seEvents', B)
      /\ \A B : Has(seEvents, B)' <=> Has(seEvents', B)
  BY <1>1, EntryHandled
<1>3. /\ "config" \in Threads /\ at'["config"].pc = "refresh"
      /\ \A d : ~Marking(d)
      /\ \A p \in Threads : ~At(p, {"rebuild"})'
      /\ \A i : (Will(i) <=> i \in instances) /\ (WillByIP(i) <=> i \in ip2instance)
      /\ \A i : (Will(i)' <=> i \in instances') /\ (WillByIP(i)' <=> i \in ip2instance')
      /\ \A d : Busy(d) => Busy(d)'
  BY <1>1, EntryHandled
<1>4. /\ OnlyEndpoints(v[3], v[4]) /\ UNCHANGED shards
      /\ instances' = Deleted(instances, own) \cup own
      /\ ip2instance' = {i \in ip2instance : \A j \in own : j[3] # i[3]} \cup own
      /\ \A i \in own : i[1] \in at'["config"].keys
  <2>1. /\ OnlyEndpoints(v[3], v[4]) /\ UNCHANGED shards /\ Replace({}, own)
        /\ at' = [at EXCEPT !["config"] = [pc |-> "refresh", keys |-> {i[1] : i \in own}]]
    BY <1>1 DEF EntryHandlerEndpoints
  <2>2. at'["config"].keys = {i[1] : i \in own}
    BY <2>1, <1>3 DEF SeTypes
  <2>3. {} \cup own = own
    OBVIOUS
  <2> QED
    BY <2>1, <2>2, <2>3 DEF Replace
<1>5. /\ own \subseteq Insts /\ \A i \in own : i[1] = e /\ i[2] = e /\ i[3][1] = e
      /\ own = {} <=> v[4] = Missing \/ v[4].endpoint = Missing
  BY <1>2, OwnFacts DEF Insts
<1> HIDE DEF own
<1>6. \A i \in Insts : i[2] # e \/ own = {} =>
        (i \in instances' <=> i \in instances) /\ (i \in ip2instance' <=> i \in ip2instance)
  <2>1. \A i \in Insts : i[3][1] = i[2]
    BY DEF Insts
  <2>2. \A i : i \in Deleted(instances, own) <=>
                 i \in instances /\ \A j \in own : j[1] # i[1] \/ j[2] # i[2]
    BY DEF Deleted
  <2> QED
    BY <2>1, <2>2, <1>4, <1>5
<1>7. \A i \in Insts : i[2] = e /\ own # {} => (i \in instances' <=> i \in own)
  <2>1. \A i \in Insts : i[2] = e => i[1] = e
    BY <1>2 DEF Insts
  <2> QED
    BY <2>1, <1>4, <1>5 DEF Deleted
<1>8. /\ \A d : v \notin SvcTasksOf(d) /\ v \notin WleTasksOf(d) /\ (d # e => v \notin SeTasksOf(d))
      /\ \A i, l : v \notin Moves(selectors, i) /\ v \notin Relabels(i, l)
  BY <1>2, <1>4 DEF SvcTasksOf, WleTasksOf, SeTasksOf, Moves, Relabels
<1>9. SelectorsFollow'
  BY <1>2, <1>3, <1>8 DEF SeFacts, IndexFacts, SelectorsFollow
<1>10. OwnFollow'
  <2> SUFFICES ASSUME NEW d \in Entries
               PROVE  \/ Has(seEvents', SeTasksOf(d))
                      \/ seStore[d] # Missing /\ seStore[d].endpoint = Missing
                      \/ \A i \in Insts : i[2] = d => (i \in instances' <=> i \in OwnInstances(d, seStore[d]))
    BY <1>2, <1>3 DEF OwnFollow
  <2>1. CASE d # e
    BY <2>1, <1>2, <1>3, <1>6, <1>8 DEF SeFacts, IndexFacts, OwnFollow
  <2>2. CASE d = e
    <3>1. Successors(v) \subseteq SeTasksOf(d)
      BY <2>2, <1>2 DEF Successors, SameObj, SeTasksOf
    <3>2. CASE Has(seEvents', Successors(v))
      BY <3>1, <3>2 DEF Has
    <3>3. CASE v[4] = seStore[e]
      <4>1. v[4] # Missing
        BY <1>4 DEF OnlyEndpoints
      <4>2. CASE own = {}
        BY <4>1, <4>2, <3>3, <2>2, <1>5
      <4>3. CASE own # {}
        BY <4>3, <3>3, <2>2, <1>7 DEF own
      <4> QED
        BY <4>2, <4>3
    <3> QED
      BY <3>2, <3>3, <1>2
  <2> QED
    BY <2>1, <2>2
<1>11. PodsFollow' /\ WlesFollow'
  <2>1. \A i \in Insts : i[2] \in SePods \cup Wles => (Will(i)' <=> Will(i))
    BY <1>2, <1>3, <1>6, SeAssumption
  <2>2. PodsFollow'
    BY <2>1, <1>2 DEF SeFacts, IndexFacts, PodsFollow
  <2>3. WlesFollow'
    BY <2>1, <1>2, <1>8 DEF SeFacts, IndexFacts, WlesFollow
  <2> QED
    BY <2>2, <2>3
<1>12. ByIPFollows'
  <2>1. own \subseteq ip2instance'
    BY <1>4
  <2> QED
    BY <2>1, <1>2, <1>3, <1>6, <1>7, <1>8 DEF SeFacts, IndexFacts, ByIPFollows
<1>13. ReadsOK'
  BY <1>3 DEF ReadsOK
<1>14. InstancesGiven'
  <2> SUFFICES ASSUME NEW d \in Entries, NEW i \in Insts, i[1] = d, seStore[d] # Missing, i \in instances'
               PROVE  Given(d, i)' \/ Soon(d, i)'
    BY <1>2, <1>4 DEF InstancesGiven
  <2>1. CASE i \in own
    <3>1. Busy(d)'
      BY <2>1, <1>3, <1>4 DEF Busy, At
    <3> QED
      BY <3>1 DEF Soon
  <2>2. CASE i \in instances /\ i \notin own
    <3>1. v \notin Brings(i)
      BY <2>2 DEF Brings, SeTasksOf, own
    <3>2. Soon(d, i) => Soon(d, i)'
      BY <3>1, <1>2, <1>3, <1>8 DEF Soon
    <3>3. Given(d, i) => Given(d, i)'
      BY <1>4, HandlersNoGive, GivenSame
    <3> QED
      BY <2>2, <3>2, <3>3 DEF SeFacts, EndpointsGiven
  <2> QED
    BY <2>1, <2>2, <1>4 DEF Deleted
<1> QED
  BY <1>9, <1>10, <1>11, <1>12, <1>13, <1>14, GivenFromIndexNext DEF SeFacts, IndexFacts

(***************************************************************************)
(* The services changed: the index is marked, and whoever rebuilds it has  *)
(* read the entry as it is, or a later event follows.                      *)
(***************************************************************************)
LEMMA EntryHandlerServicesFacts ==
  ASSUME SeTypes, IndexersOK, SeLinked, SeReaches, SeFacts, SeTypes', IndexersOK', SeReaches',
         ~Doomed', EntryHandlerServices
  PROVE  SeFacts'
<1>1. PICK v : v = Head(seEvents)
  OBVIOUS
<1> DEFINE e == v[2]
<1>2. /\ UNCHANGED <<seStore, wleStore>> /\ UNCHANGED <<selectors, byIP>>
      /\ v \in SeTasks /\ v[1] = "se" /\ e \in Entries /\ v[4] \in EntryValues
      /\ \/ Has(seEvents', Successors(v))
         \/ v[4] = seStore[e] /\ ~Has(seEvents', SameObj(v))
      /\ \A B : Has(seEvents, B) <=> v \in B \/ Has(seEvents', B)
      /\ \A B : Has(seEvents, B)' <=> Has(seEvents', B)
  BY <1>1, EntryHandled
<1>3. /\ "config" \in Threads /\ at'["config"].pc = "refresh"
      /\ \A d : ~Marking(d)
      /\ \A p \in Threads : ~At(p, {"rebuild"})' /\ ~At(p, {"reset"})'
      /\ \A i : (Will(i) <=> i \in instances) /\ (WillByIP(i) <=> i \in ip2instance)
      /\ \A i : (Will(i)' <=> i \in instances') /\ (WillByIP(i)' <=> i \in ip2instance')
      /\ \A d : Busy(d) => Busy(d)'
  BY <1>1, EntryHandled
<1>4. /\ refreshIndexes' /\ UNCHANGED <<instances, ip2instance>>
      /\ at'["config"].keys = IF v[4] = Missing THEN {} ELSE {e}
      /\ \A d \in Entries : d # e => shards'[d] = shards[d]
  <2>1. /\ refreshIndexes' /\ UNCHANGED <<instances, ip2instance>>
        /\ at' = [at EXCEPT !["config"] = [pc |-> "refresh", keys |-> IF v[4] = Missing THEN {} ELSE {e}]]
        /\ shards' = IF v[4] = Missing THEN [shards EXCEPT ![e] = {}] ELSE shards
    BY <1>1 DEF EntryHandlerServices
  <2> QED
    BY <2>1, <1>3 DEF SeTypes
<1>5. Marking(e)' \/ Has(seEvents', SvcTasksOf(e))
  <2>1. CASE seStore[e] = Missing \/ v[4] # Missing
    BY <2>1, <1>2, <1>3, <1>4 DEF Marking, At
  <2>2. CASE seStore[e] # Missing /\ v[4] = Missing
    <3>1. Has(seEvents', Successors(v))
      BY <2>2, <1>2
    <3>2. Successors(v) \subseteq SvcTasksOf(e)
      BY <2>2, <1>2 DEF Successors, SameObj, SvcTasksOf, SeTasksOf, OnlyEndpoints
    <3> QED
      BY <3>1, <3>2 DEF Has
  <2> QED
    BY <2>1, <2>2
<1>6. /\ \A d : v \notin WleTasksOf(d) /\ (d # e => v \notin SeTasksOf(d) /\ v \notin SvcTasksOf(d))
      /\ \A i, l : v \notin Moves(selectors, i) /\ v \notin Relabels(i, l)
      /\ \A i : i[1] # e => v \notin Brings(i)
  BY <1>2 DEF SvcTasksOf, WleTasksOf, SeTasksOf, Moves, Relabels, Brings
<1>7. SvcTasksOf(e) \subseteq SeTasksOf(e)
  BY DEF SvcTasksOf
<1>8. \A i : (Will(i)' <=> Will(i)) /\ (WillByIP(i)' <=> WillByIP(i))
  BY <1>3, <1>4
<1>9. SelectorsFollow'
  BY <1>2, <1>3, <1>5, <1>6 DEF SeFacts, IndexFacts, SelectorsFollow
<1>10. OwnFollow'
  <2>1. Has(seEvents', SvcTasksOf(e)) => Has(seEvents', SeTasksOf(e))
    BY <1>7 DEF Has
  <2> QED
    BY <2>1, <1>2, <1>3, <1>5, <1>6, <1>8 DEF SeFacts, IndexFacts, OwnFollow
<1>11. PodsFollow'
  BY <1>2, <1>8 DEF SeFacts, IndexFacts, PodsFollow
<1>12. WlesFollow'
  BY <1>2, <1>6, <1>8 DEF SeFacts, IndexFacts, WlesFollow
<1>13. ByIPFollows'
  BY <1>2, <1>6, <1>8 DEF SeFacts, IndexFacts, ByIPFollows
<1>14. ReadsOK'
  BY <1>3 DEF ReadsOK
<1>15. InstancesGiven'
  <2> SUFFICES ASSUME NEW d \in Entries, NEW i \in Insts, i[1] = d, seStore[d] # Missing, i \in instances
               PROVE  Given(d, i)' \/ Soon(d, i)'
    BY <1>2, <1>4 DEF InstancesGiven
  <2>1. CASE d = e
    <3>1. CASE Marking(e)'
      <4>1. e \in at'["config"].keys
        BY <3>1, <2>1, <1>2 DEF Marking
      <4>2. Busy(d)'
        BY <4>1, <2>1, <1>3 DEF Busy, At
      <4> QED
        BY <4>2 DEF Soon
    <3>2. CASE Has(seEvents', SvcTasksOf(e))
      BY <3>2, <2>1, <1>2 DEF Soon
    <3> QED
      BY <3>1, <3>2, <1>5
  <2>2. CASE d # e
    <3>1. Soon(d, i) => Soon(d, i)'
      BY <2>2, <1>2, <1>3, <1>6 DEF Soon
    <3>2. Given(d, i) => Given(d, i)'
      BY <2>2, <1>4, HandlersNoGive, GivenSame
    <3> QED
      BY <2>2, <3>1, <3>2, <1>4 DEF SeFacts, EndpointsGiven
  <2> QED
    BY <2>1, <2>2
<1> QED
  BY <1>9, <1>10, <1>11, <1>12, <1>13, <1>14, <1>15, GivenFromIndexNext DEF SeFacts, IndexFacts

(***************************************************************************)
(* The index is rebuilt from the ServiceEntries read before.               *)
(***************************************************************************)
LEMMA RefreshWriteFacts ==
  ASSUME SeTypes, SeFacts, SeTypes', IndexersOK', SeReaches', ~Doomed',
         NEW p \in Threads, RefreshWrite(p)
  PROVE  SeFacts'
<1>1. PICK E : E = at[p].entries
  OBVIOUS
<1> DEFINE new == [pc |-> "reset", keys |-> at[p].keys]
           R == Rebuilt(E, byIP, wleStore)
           sels == WithSelector(E)
<1>2. /\ at[p] \in RebuildStates /\ at' = [at EXCEPT ![p] = new]
      /\ new.pc = "reset" /\ new.keys = at[p].keys
  BY ThreadMoves
<1> HIDE DEF new
<1>3. /\ UNCHANGED <<byIP, seStore, wleStore, seEvents>> /\ UNCHANGED shards
      /\ at[p].pc = "rebuild" /\ Wrote(p)
      /\ instances' = R /\ ip2instance' = R /\ selectors' = sels
  BY <1>1 DEF RefreshWrite, objectVars, Writes
<1>4. /\ at'[p] = new
      /\ \A q \in Threads \ {p} : at'[q] = at[q] /\ at[q].pc \notin {"index", "rebuild", "reset"}
  BY <1>2, <1>3, WriterAlone DEF SeTypes, At
<1>5. /\ E \in [Entries -> EntryValues] /\ byIP \in SUBSET SePods /\ wleStore \in [Wles -> WleValues]
      /\ seStore \in [Entries -> EntryValues] /\ "config" \in Threads
  BY <1>1, <1>2 DEF RebuildStates, SeTypes, Threads
<1>6. \A q \in Threads : ~At(q, {"index"})' /\ ~At(q, {"rebuild"})'
  BY <1>2, <1>4 DEF At
<1>7. \A i : (Will(i)' <=> i \in R) /\ (WillByIP(i)' <=> i \in R)
  BY <1>3, <1>6 DEF Will, WillByIP, Adds
<1>8. \A B : Has(seEvents, B)' <=> Has(seEvents, B)
  BY <1>3 DEF Has
<1>9. \A e \in Entries :
        /\ E[e] = seStore[e] \/ Has(seEvents, SeTasksOf(e))
        /\ Agree(E[e], seStore[e]) \/ Has(seEvents, SvcTasksOf(e))
        /\ \A i \in OwnInstances(e, E[e]) :
              \/ i \in instances \/ Has(seEvents, Brings(i))
              \/ At("config", {"refresh", "rebuild"}) /\ e \in at["config"].keys
  BY <1>1, <1>3 DEF SeFacts, ReadsOK, At
<1>10. \A i \in Insts : i \in R <=>
         \/ i[2] \in Entries /\ i \in OwnInstances(i[2], E[i[2]])
         \/ i[2] \in byIP /\ i \in PodInstances(sels, i[2])
         \/ i[2] \in Wles /\ i \in WleInstances(sels, i[2], wleStore[i[2]])
  BY <1>5, RebuiltFacts
<1>11. \A e \in Entries, l \in Labels :
         Selects(sels, e, l) <=> E[e] # Missing /\ E[e].selector = l
  BY <1>5, SelectorFacts
<1>12. \A i \in Insts : i \in R <=>
           \/ i[2] \in Entries /\ i[1] = i[2] /\ i \in OwnInstances(i[1], E[i[1]])
           \/ /\ i[2] \in byIP /\ i[3][2] = 0
              /\ E[i[1]] # Missing /\ E[i[1]].selector = PodLabel[i[2]]
           \/ /\ i[2] \in Wles /\ wleStore[i[2]] # Missing /\ i[3][2] = wleStore[i[2]].addr
              /\ E[i[1]] # Missing /\ E[i[1]].selector = wleStore[i[2]].label
  BY <1>5, RebuiltByHost
<1> HIDE DEF R, sels
<1>13. SelectorsFollow'
  <2>1. \A e \in Entries, l \in Labels : Agree(E[e], seStore[e]) =>
          (Selects(sels, e, l) <=> seStore[e] # Missing /\ seStore[e].selector = l)
    BY <1>11 DEF Agree
  <2> QED
    BY <2>1, <1>3, <1>8, <1>9 DEF SelectorsFollow
<1>14. OwnFollow'
  <2>1. \A i \in Insts : i[2] \in Entries => (i \in R <=> i \in OwnInstances(i[2], E[i[2]]))
    BY <1>5, <1>10, SeAssumption
  <2> QED
    BY <2>1, <1>3, <1>7, <1>8, <1>9 DEF OwnFollow
<1>15. PodsFollow'
  <2>1. \A i \in Insts : i[2] \in SePods => (i \in R <=> i[2] \in byIP /\ i \in PodInstances(sels, i[2]))
    BY <1>5, <1>10, SeAssumption
  <2> QED
    BY <2>1, <1>3, <1>7 DEF PodsFollow
<1>16. WlesFollow'
  <2>1. \A i \in Insts : i[2] \in Wles => (i \in R <=> i \in WleInstances(sels, i[2], wleStore[i[2]]))
    BY <1>5, <1>10, SeAssumption
  <2> QED
    BY <2>1, <1>3, <1>7 DEF WlesFollow
<1>17. ByIPFollows'
  BY <1>7 DEF ByIPFollows
<1>18. ReadsOK'
  BY <1>6 DEF ReadsOK
<1>19. InstancesGiven'
  <2> SUFFICES ASSUME NEW e \in Entries, NEW i \in Insts, i[1] = e, seStore[e] # Missing, i \in R
               PROVE  Given(e, i)' \/ Soon(e, i)'
    BY <1>3 DEF InstancesGiven
  <2>1. Busy(e) => Busy(e)'
    BY <1>2, <1>4 DEF Busy, At
  <2>2. Soon(e, i) => Soon(e, i)'
    BY <2>1, <1>3, <1>8 DEF Soon
  <2>6. Given(e, i) => Given(e, i)'
    BY <1>3, ThreadNoGive, GivenSame
  <2>3. i \in instances \/ i \in Rebuilt(seStore, byIP, wleStore) => Given(e, i) \/ Soon(e, i)
    BY DEF SeFacts, EndpointsGiven
  <2>4. CASE i[2] \in Entries /\ i[1] = i[2] /\ i \in OwnInstances(i[1], E[i[1]])
    <3>1. At("config", {"refresh", "rebuild"}) /\ e \in at["config"].keys => Soon(e, i)
      BY <1>5 DEF Soon, Busy, At
    <3>2. Has(seEvents, Brings(i)) => Soon(e, i)
      BY DEF Soon
    <3> QED
      BY <3>1, <3>2, <2>2, <2>3, <2>4, <2>6, <1>9
  <2>5. CASE ~(i[2] \in Entries /\ i[1] = i[2] /\ i \in OwnInstances(i[1], E[i[1]]))
    <3>1. CASE Agree(E[e], seStore[e])
      <4>1. \/ /\ i[2] \in byIP /\ i[3][2] = 0
               /\ seStore[i[1]].selector = PodLabel[i[2]]
            \/ /\ i[2] \in Wles /\ wleStore[i[2]] # Missing /\ i[3][2] = wleStore[i[2]].addr
               /\ seStore[i[1]].selector = wleStore[i[2]].label
        BY <2>5, <3>1, <1>12 DEF Agree
      <4>2. i \in Rebuilt(seStore, byIP, wleStore)
        BY <4>1, <1>5, RebuiltByHost
      <4> QED
        BY <4>2, <2>2, <2>3, <2>6
    <3>2. CASE Has(seEvents, SvcTasksOf(e))
      BY <3>2, <2>2 DEF Soon
    <3> QED
      BY <3>1, <3>2, <1>9
  <2> QED
    BY <2>4, <2>5
<1> QED
  BY <1>13, <1>14, <1>15, <1>16, <1>17, <1>18, <1>19, GivenFromIndexNext DEF SeFacts, IndexFacts

-----------------------------------------------------------------------------
(***************************************************************************)
(* The server starts with the index of the objects that were there.        *)
(***************************************************************************)
LEMMA SeInitInv == SEInit => SeInv
<1> SUFFICES ASSUME SEInit PROVE SeInv
  OBVIOUS
<1> DEFINE R == Rebuilt(InitialEntries, {}, InitialWles)
           sels == WithSelector(InitialEntries)
<1>1. /\ InitialEntries \in [Entries -> EntryValues] /\ InitialWles \in [Wles -> WleValues]
      /\ {} \in SUBSET SePods
  BY SeAssumption DEF EntryValues, WleValues
<1>2. /\ R \subseteq Insts
      /\ \A i \in Insts : i \in R <=>
           \/ i[2] \in Entries /\ i \in OwnInstances(i[2], InitialEntries[i[2]])
           \/ i[2] \in Wles /\ i \in WleInstances(sels, i[2], InitialWles[i[2]])
  BY <1>1, RebuiltFacts
<1>3. /\ sels \in SUBSET (Entries \X EntrySpecs)
      /\ \A e \in Entries, l \in Labels :
           Selects(sels, e, l) <=> InitialEntries[e] # Missing /\ InitialEntries[e].selector = l
  BY <1>1, SelectorFacts
<1>4. /\ seStore = InitialEntries /\ wleStore = InitialWles /\ podStore = {} /\ byIP = {}
      /\ seEvents = <<>> /\ podEvents = <<>> /\ instances = R /\ ip2instance = R /\ selectors = sels
      /\ refreshIndexes = FALSE /\ at = [p \in Threads |-> Resting] /\ raced = FALSE
      /\ unwritten = [p \in Threads |-> TRUE] /\ shards = [e \in Entries |-> Addresses(e)]
      /\ passed = [p \in Threads |-> {}] /\ late = [p \in Threads |-> {}] /\ reversed = {}
  BY DEF SEInit
<1> HIDE DEF R, sels
<1>5. SeTypes
  <2>1. \A e \in Entries : Addresses(e) \in SUBSET SeAddresses
    BY <1>2, <1>4 DEF Addresses, HostAddresses, Insts
  <2>2. shards \in [Entries -> SUBSET SeAddresses]
    BY <1>4, <2>1
  <2>3. at \in [Threads -> {Resting} \cup IndexStates \cup RebuildStates \cup KeyStates \cup GiveStates]
    BY <1>4
  <2>4. unwritten \in [Threads -> BOOLEAN]
    BY <1>4
  <2>5. seEvents \in Seq(SeTasks) /\ podEvents \in Seq(SePods \X BOOLEAN)
    BY <1>4
  <2> QED
    BY <1>1, <1>2, <1>3, <1>4, <2>2, <2>3, <2>4, <2>5 DEF SeTypes
<1>6. Len(seEvents) = 0 /\ Len(podEvents) = 0
  BY <1>4
<1>7. \A p \in Threads : \A pcs : At(p, pcs) <=> "idle" \in pcs
  BY <1>4 DEF At, Resting
<1>8. IndexersOK /\ SeLinked /\ SeReaches /\ PodLinked /\ PodsKnown
  BY <1>4, <1>6, <1>7 DEF IndexersOK, SeLinked, SeReaches, PodLinked, PodsKnown
<1>9. \A i : (Will(i) <=> i \in R) /\ (WillByIP(i) <=> i \in R)
  BY <1>4, <1>7 DEF Will, WillByIP, Adds
<1>10. IndexFacts
  <2>1. SelectorsFollow
    BY <1>3, <1>4 DEF SelectorsFollow
  <2>2. OwnFollow
    BY <1>2, <1>4, <1>9, SeAssumption DEF OwnFollow
  <2>3. PodsFollow
    BY <1>2, <1>4, <1>9, SeAssumption DEF PodsFollow
  <2>4. WlesFollow
    BY <1>2, <1>4, <1>9, SeAssumption DEF WlesFollow
  <2>5. ByIPFollows
    BY <1>9 DEF ByIPFollows
  <2> QED
    BY <2>1, <2>2, <2>3, <2>4, <2>5 DEF IndexFacts
<1>11. ReadsOK
  BY <1>7 DEF ReadsOK
<1>12. InstancesGiven
  <2>1. \A e \in Entries, i \in instances : i[1] = e => i[3] \in shards[e]
    BY <1>4 DEF Addresses, HostAddresses
  <2>2. \A e \in Entries, i \in instances : i[1] = e => Given(e, i)
    BY <2>1, <1>7 DEF Given, Holds, Blind
  <2> QED
    BY <2>2 DEF InstancesGiven
<1> QED
  BY <1>5, <1>8, <1>10, <1>11, <1>12, GivenFromIndex DEF SeInv, SeFacts

(***************************************************************************)
(* Every step keeps the invariant: what is known of the index holds until  *)
(* a write from a stale read is bound to happen.                           *)
(***************************************************************************)
LEMMA SeNextInv == SeInv /\ [SENext]_seVars => SeInv'
<1> SUFFICES ASSUME SeInv, [SENext]_seVars PROVE SeInv'
  OBVIOUS
<1>1. CASE UNCHANGED seVars
  <2>1. UNCHANGED <<seStore, wleStore, podStore, seEvents, podEvents, instances, ip2instance, selectors,
                    byIP, refreshIndexes, at, shards, unwritten, raced>>
          /\ UNCHANGED <<passed, late, reversed>>
    BY <1>1 DEF seVars, objectVars, orderVars
  <2>2. SeTypes' /\ IndexersOK'
    BY <2>1 DEF SeInv, SeTypes, IndexersOK, At, Touched
  <2>3. SeLinked' /\ SeReaches' /\ PodLinked' /\ PodsKnown'
    BY <2>1 DEF SeInv, SeLinked, SeReaches, Current, InStore, PodLinked, PodsKnown, Has
  <2>4. Doomed => Doomed'
    BY <2>1 DEF Doomed, At
  <2>5. SeFacts => SeFacts'
    <3> SUFFICES ASSUME SeFacts PROVE SeFacts'
      OBVIOUS
    <3>1. \A i : (Will(i)' <=> Will(i)) /\ (WillByIP(i)' <=> WillByIP(i))
      BY <2>1, WillSame DEF At
    <3>2. \A d \in Entries : Marking(d) => Marking(d)'
      BY <2>1 DEF Marking, At
    <3>3. IndexFacts'
      BY <2>1, <3>1, <3>2, IndexFactsKept DEF SeFacts
    <3>4. ReadsOK'
      BY <2>1 DEF SeFacts, ReadsOK, At, Has
    <3>5. \A d \in Entries : Busy(d) => Busy(d)'
      BY <2>1 DEF Busy, At
    <3>6. NoGive
      BY <2>1 DEF NoGive, At
    <3> QED
      BY <2>1, <3>3, <3>4, <3>5, <3>6, GivenKept DEF SeFacts
  <2> QED
    BY <2>2, <2>3, <2>4, <2>5 DEF SeInv
<1>2. CASE SENext
  <2>1. SeTypes /\ IndexersOK /\ SeLinked /\ SeReaches /\ PodLinked /\ PodsKnown /\ (Doomed \/ SeFacts)
    BY DEF SeInv
  <2>2. SeTypes' /\ IndexersOK'
    BY <1>2, <2>1, SeTypesStep
  <2>3. SeLinked' /\ SeReaches' /\ PodLinked' /\ PodsKnown'
    BY <1>2, <2>1, EventsStep
  <2>4. ASSUME ~Doomed' PROVE SeFacts'
    <3>1. SeFacts
      BY <2>1, <2>4, <1>2, DoomedStays
    <3>2. ASSUME NEW e \in Entries, NEW spec \in EntrySpecs \cup {Missing}, ChangeEntry(e, spec) PROVE SeFacts'
      BY <3>1, <3>2, <2>1, ChangeEntryFacts
    <3>3. ASSUME NEW w \in Wles, NEW spec \in WleSpecs \cup {Missing}, ChangeWle(w, spec) PROVE SeFacts'
      BY <3>1, <3>3, <2>1, ChangeWleFacts
    <3>4. ASSUME NEW p \in SePods, ChangePod(p) PROVE SeFacts'
      BY <3>1, <3>4, <2>1, ChangePodFacts
    <3>5. CASE WleHandlerStart
      BY <3>1, <3>5, <2>1, <2>2, <2>3, WleHandlerFacts
    <3>6. CASE PodHandlerStart
      BY <3>1, <3>6, <2>1, <2>2, <2>3, PodHandlerFacts
    <3>7. CASE EntryHandlerEndpoints
      BY <3>1, <3>7, <2>1, <2>2, <2>3, <2>4, EntryHandlerEndpointsFacts
    <3>8. CASE EntryHandlerServices
      BY <3>1, <3>8, <2>1, <2>2, <2>3, <2>4, EntryHandlerServicesFacts
    <3>9. CASE ReaderStart
      BY <3>1, <3>9, <2>1, ReaderStartFacts
    <3>10. ASSUME NEW p \in Threads, UpdateIndex(p) PROVE SeFacts'
      BY <3>1, <3>10, <2>1, <2>2, <2>3, <2>4, UpdateIndexFacts
    <3>11. ASSUME NEW p \in Threads, EdsRead(p) PROVE SeFacts'
      BY <3>1, <3>11, <2>1, <2>2, <2>3, EdsReadFacts
    <3>16. ASSUME NEW p \in Threads, NEW e \in Entries, EdsGive(p, e) PROVE SeFacts'
      BY <3>1, <3>16, <2>1, <2>2, <2>3, EdsGiveFacts
    <3>12. ASSUME NEW p \in Threads, RefreshNotNeeded(p) PROVE SeFacts'
      BY <3>1, <3>12, <2>1, RefreshNotNeededFacts
    <3>13. ASSUME NEW p \in Threads, RefreshRead(p) PROVE SeFacts'
      BY <3>1, <3>13, <2>1, RefreshReadFacts
    <3>14. ASSUME NEW p \in Threads, RefreshWrite(p) PROVE SeFacts'
      BY <3>1, <3>14, <2>1, <2>2, <2>3, <2>4, RefreshWriteFacts
    <3>15. ASSUME NEW p \in Threads, RefreshReset(p) PROVE SeFacts'
      BY <3>1, <3>15, <2>1, <2>4, RefreshResetFacts
    <3> QED
      BY <1>2, <3>2, <3>3, <3>4, <3>5, <3>6, <3>7, <3>8, <3>9, <3>10, <3>11, <3>12, <3>13, <3>14,
         <3>15, <3>16 DEF SENext
  <2> QED
    BY <2>2, <2>3, <2>4 DEF SeInv
<1> QED
  BY <1>1, <1>2

(***************************************************************************)
(* Nothing is to come: the index is what a rebuild would give.             *)
(***************************************************************************)
LEMMA SettledIndex == SeInv => IndexIsRebuilt
<1> SUFFICES ASSUME SeInv, Settled, ~raced
             PROVE  LET rebuilt == Rebuilt(seStore, podStore, wleStore)
                    IN  /\ rebuilt \subseteq instances
                        /\ \A i \in instances \ rebuilt :
                             i[1] = i[2] /\ seStore[i[1]] # Missing /\ seStore[i[1]].endpoint = Missing
                        /\ instances \subseteq ip2instance
                        /\ \A e \in Entries \ reversed :
                             seStore[e] # Missing => Addresses(e) \subseteq shards[e]
  BY DEF IndexIsRebuilt
<1>1. /\ seEvents = <<>> /\ podEvents = <<>> /\ Len(seEvents) = 0 /\ Len(podEvents) = 0
      /\ "config" \in Threads
      /\ \A p \in Threads : at[p].pc = "idle"
  BY DEF Settled, Resting, Threads
<1>2. \A p \in Threads : \A pcs : At(p, pcs) <=> "idle" \in pcs
  BY <1>1 DEF At
<1>3. ~Doomed
  BY <1>2 DEF Doomed
<1>4. SeTypes /\ IndexersOK /\ SeReaches /\ PodsKnown /\ SeFacts
  BY <1>3 DEF SeInv
<1>5. \A B : ~Has(seEvents, B) /\ ~Has(podEvents, B)
  BY <1>1 DEF Has
<1>6. byIP = podStore
  BY <1>4, <1>5 DEF PodsKnown, SeTypes
<1>7. /\ \A e : ~Marking(e) /\ ~Busy(e)
      /\ \A i : (Will(i) <=> i \in instances) /\ (WillByIP(i) <=> i \in ip2instance)
  BY <1>1, <1>2, NobodyIndexing DEF Marking, Busy
<1>8. /\ seStore \in [Entries -> EntryValues] /\ byIP \in SUBSET SePods /\ wleStore \in [Wles -> WleValues]
      /\ instances \subseteq Insts /\ selectors \in SUBSET (Entries \X EntrySpecs)
  BY <1>4 DEF SeTypes
<1> DEFINE R == Rebuilt(seStore, byIP, wleStore)
<1>9. R \subseteq Insts
  BY <1>8, RebuiltFacts
<1>10. \A i \in Insts : i \in R <=>
           \/ i[2] \in Entries /\ i[1] = i[2] /\ i \in OwnInstances(i[1], seStore[i[1]])
           \/ /\ i[2] \in byIP /\ i[3][2] = 0
              /\ seStore[i[1]] # Missing /\ seStore[i[1]].selector = PodLabel[i[2]]
           \/ /\ i[2] \in Wles /\ wleStore[i[2]] # Missing /\ i[3][2] = wleStore[i[2]].addr
              /\ seStore[i[1]] # Missing /\ seStore[i[1]].selector = wleStore[i[2]].label
  BY <1>8, RebuiltByHost
<1>11. R \subseteq instances
  <2> SUFFICES ASSUME NEW i \in R PROVE i \in instances
    OBVIOUS
  <2>1. i \in Insts /\ i[1] \in Entries
    BY <1>9 DEF Insts
  <2>2. seStore[i[1]] # Missing
    <3>1. seStore[i[1]] = Missing => OwnInstances(i[1], seStore[i[1]]) = {}
      BY DEF OwnInstances
    <3> QED
      BY <3>1, <2>1, <1>10
  <2>3. Due(i[1], i)
    BY <2>1, <2>2, <1>4, RebuiltIsDue DEF RebuiltDue, SeFacts
  <2> QED
    BY <2>3, <1>2, <1>5 DEF Due
<1>12. ASSUME NEW i \in instances, i \notin R
       PROVE  i[1] = i[2] /\ seStore[i[1]] # Missing /\ seStore[i[1]].endpoint = Missing
  <2>1. /\ i \in Insts /\ i[1] \in Entries /\ i[2] \in Entries \cup SePods \cup Wles /\ Will(i)
        /\ i[2] \in Entries => i[1] = i[2]
    BY <1>7, <1>8 DEF Insts, SeKeys
  <2>2. \A l \in Labels : Selects(selectors, i[1], l) <=> seStore[i[1]] # Missing /\ seStore[i[1]].selector = l
    BY <2>1, <1>4, <1>5, <1>7 DEF SeFacts, IndexFacts, SelectorsFollow
  <2>3. CASE i[2] \in Entries
    BY <2>1, <2>3, <1>4, <1>5, <1>7, <1>10, <1>12 DEF SeFacts, IndexFacts, OwnFollow
  <2>4. CASE i[2] \in SePods
    <3>1. i[2] \in byIP /\ i \in PodInstances(selectors, i[2]) /\ PodLabel[i[2]] \in Labels
      BY <2>1, <2>4, <1>4 DEF SeFacts, IndexFacts, PodsFollow, Labels
    <3>2. i[3][2] = 0 /\ Selects(selectors, i[1], PodLabel[i[2]])
      BY <3>1, <2>1, <2>4, <1>8, PodFacts
    <3> QED
      BY <3>1, <3>2, <2>1, <2>2, <1>10, <1>12
  <2>5. CASE i[2] \in Wles
    <3>1. i \in WleInstances(selectors, i[2], wleStore[i[2]])
      BY <2>1, <2>5, <1>4, <1>5 DEF SeFacts, IndexFacts, WlesFollow
    <3>2. wleStore[i[2]] # Missing /\ i[3][2] = wleStore[i[2]].addr /\ Selects(selectors, i[1], wleStore[i[2]].label)
      BY <3>1, <2>1, <2>5, <1>8, WleFacts
    <3>3. wleStore[i[2]].label \in Labels
      BY <3>2, <2>5, <1>8 DEF WleValues, Labels
    <3> QED
      BY <3>2, <3>3, <2>1, <2>2, <2>5, <1>10, <1>12
  <2> QED
    BY <2>1, <2>3, <2>4, <2>5
<1>13. instances \subseteq ip2instance
  BY <1>4, <1>5, <1>7, <1>8 DEF SeFacts, IndexFacts, ByIPFollows
<1>14. ASSUME NEW e \in Entries \ reversed, seStore[e] # Missing PROVE Addresses(e) \subseteq shards[e]
  <2> SUFFICES ASSUME NEW i \in instances, i[1] = e PROVE i[3] \in shards[e]
    BY DEF Addresses, HostAddresses
  <2>1. ~Soon(e, i)
    BY <1>5, <1>7 DEF Soon
  <2>2. Given(e, i)
    BY <2>1, <1>4, <1>8, <1>14 DEF SeFacts, EndpointsGiven
  <2>3. \A p \in Threads : ~Gives(p, e, i)
    BY <1>2 DEF Gives
  <2> QED
    BY <2>2, <2>3, <1>14 DEF Given, Holds
<1> QED
  BY <1>6, <1>11, <1>12, <1>13, <1>14

(***************************************************************************)
(* Whatever the objects and however often they change: once every event is *)
(* handled and the index is not marked for a rebuild, what the handlers of *)
(* servicediscovery.go left in it is what maybeRefreshIndexes would build  *)
(* (but for an endpoint taken away), unless a goroutine wrote from a stale *)
(* read.  The XDS server misses no endpoint of it, but for a host whose    *)
(* endpoints it was last given after others that were read later.          *)
(***************************************************************************)
THEOREM IndexAlwaysRebuilt == SESpec => []IndexIsRebuilt
<1>1. SeInv /\ [SENext]_seVars => SeInv'
  BY SeNextInv
<1> QED
  BY SeInitInv, SettledIndex, <1>1, PTL DEF SESpec
=============================================================================
