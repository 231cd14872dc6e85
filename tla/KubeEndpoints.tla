--------------------------- MODULE KubeEndpoints ----------------------------
(***************************************************************************)
(* The Kubernetes registry (pilot/pkg/serviceregistry/kube/controller):    *)
(* pods, one Endpoints object and its Service arrive from three informers, *)
(* each with a store that runs ahead of its notifications; one queue       *)
(* handles them all.  An endpoint whose pod is not known yet is left out   *)
(* and handled again when the pod arrives.                                 *)
(*                                                                         *)
(* An Endpoints object is its set of ready addresses <<pod, ip>>, each     *)
(* with a TargetRef.  A pod is [ip, leaving]: its IP, and whether it has a *)
(* DeletionTimestamp.  The cluster starts empty, so that SyncAll finds     *)
(* nothing.  Pods in a final phase are left out: they are handled like     *)
(* pods that are deleted.                                                  *)
(***************************************************************************)
EXTENDS Naturals, Sequences, FiniteSets

CONSTANTS KPods, IPs,
          EndpointSets,   \* the addresses an Endpoints object may have
          Nil,            \* no object, no IP
          MaxKubeChanges  \* bound: changes of objects in a behaviour

PodSpecs == [ip : IPs \cup {Nil}, leaving : BOOLEAN]

ASSUME KubeAssumption ==
  /\ EndpointSets \subseteq SUBSET (KPods \X IPs)
  /\ Nil \notin KPods \cup IPs \cup EndpointSets \cup PodSpecs
  /\ MaxKubeChanges \in Nat

VARIABLES podInf, epInf, svcInf,  \* the stores of the informers
          notes,       \* per informer, the notifications not delivered yet
          queued,      \* c.queue: <<kind, event, object>>
          kchanges,
          podsByIP, IPByPods,
          deprived,    \* history: pods whose entry the update of another pod removed
          needResync,  \* the IPs under which the Endpoints object is registered
          skipped,     \* history: the ones of these a pod came with and was ignored
          readItem,    \* queueEndpointEvent: the object it read and did not push yet
          itemStale,   \* a notification of a newer one was queued in the meantime
          overtaken,   \* such an object was pushed
          eds          \* the endpoints last given to the XDS server

storeVars == <<podInf, epInf, svcInf>>
podCacheVars == <<podsByIP, IPByPods, deprived, needResync, skipped>>
kubeVars == <<storeVars, notes, queued, kchanges, podCacheVars, readItem, itemStale, overtaken,
              eds>>

KubeInit ==
  /\ podInf = [p \in KPods |-> Nil] /\ epInf = Nil /\ svcInf = FALSE
  /\ notes = [k \in {"pod", "ep", "svc"} |-> <<>>]
  /\ queued = <<>> /\ kchanges = 0
  /\ podsByIP = [i \in IPs |-> Nil] /\ IPByPods = [p \in KPods |-> Nil]
  /\ deprived = {} /\ needResync = {} /\ skipped = {}
  /\ readItem = Nil /\ itemStale = FALSE /\ overtaken = FALSE
  /\ eds = {}

-----------------------------------------------------------------------------
(***************************************************************************)
(* The cluster: an informer stores the change and notes it for its         *)
(* handlers.  Two pods never have the same IP at the same time.            *)
(***************************************************************************)
Noted(kind, ev, obj) ==
  /\ kchanges < MaxKubeChanges /\ kchanges' = kchanges + 1
  /\ notes' = [notes EXCEPT ![kind] = Append(@, <<kind, ev, obj>>)]
  /\ UNCHANGED <<queued, podCacheVars, readItem, itemStale, overtaken, eds>>

PodChanges(p, new) ==
  /\ new # podInf[p]
  /\ podInf[p] = Nil => new = [ip |-> Nil, leaving |-> FALSE]
  /\ (podInf[p] # Nil /\ new # Nil) =>
       /\ podInf[p].leaving => new = podInf[p]
       /\ new.leaving => new.ip = podInf[p].ip
       /\ new.ip # Nil \/ podInf[p].ip = Nil
       /\ \A q \in KPods \ {p} : podInf[q] # Nil /\ new.ip # Nil => podInf[q].ip # new.ip
  /\ podInf' = [podInf EXCEPT ![p] = new]
  /\ Noted("pod", IF podInf[p] = Nil THEN "add" ELSE IF new = Nil THEN "delete" ELSE "update",
           <<p, IF new = Nil THEN podInf[p] ELSE new>>)
  /\ UNCHANGED <<epInf, svcInf>>

EndpointsChange(new) ==
  /\ new # epInf
  /\ epInf' = new
  /\ Noted("ep", IF epInf = Nil THEN "add" ELSE IF new = Nil THEN "delete" ELSE "update",
           IF new = Nil THEN epInf ELSE new)
  /\ UNCHANGED <<podInf, svcInf>>

ServiceChanges ==
  /\ svcInf' = ~svcInf
  /\ Noted("svc", IF svcInf THEN "delete" ELSE "add", Nil)
  /\ UNCHANGED <<podInf, epInf>>

(***************************************************************************)
(* The functions of registerHandlers push a task.                          *)
(***************************************************************************)
Deliver(kind) ==
  /\ notes[kind] # <<>>
  /\ queued' = Append(queued, Head(notes[kind]))
  /\ notes' = [notes EXCEPT ![kind] = Tail(@)]
  /\ itemStale' = (itemStale \/ (kind = "ep" /\ readItem # Nil))
  /\ UNCHANGED <<storeVars, kchanges, podCacheVars, readItem, overtaken, eds>>

-----------------------------------------------------------------------------
Task(kind) == readItem = Nil /\ queued # <<>> /\ Head(queued)[1] = kind

Event == Head(queued)[2]

(***************************************************************************)
(* PodCache.onEvent.  Except for a delete, wrappedHandler takes the pod    *)
(* from the store again.                                                   *)
(***************************************************************************)
TaskPod == Head(queued)[3][1]

TaskPodSpec ==
  IF Event = "delete" \/ podInf[TaskPod] = Nil THEN Head(queued)[3][2] ELSE podInf[TaskPod]

PodGone == Event = "delete" \/ (Event = "update" /\ TaskPodSpec.leaving)

PodDone == /\ queued' = Tail(queued)
           /\ UNCHANGED <<storeVars, notes, kchanges, itemStale, overtaken, eds>>

PodIgnored ==
  /\ Task("pod")
  /\ TaskPodSpec.ip # Nil => (PodGone <=> podsByIP[TaskPodSpec.ip] # TaskPod)
  /\ skipped' = (IF PodGone THEN skipped ELSE skipped \cup (needResync \cap {TaskPodSpec.ip}))
  /\ PodDone
  /\ UNCHANGED <<podsByIP, IPByPods, deprived, needResync, readItem>>

DeleteIP ==
  /\ Task("pod") /\ TaskPodSpec.ip # Nil /\ PodGone
  /\ podsByIP[TaskPodSpec.ip] = TaskPod
  /\ podsByIP' = [podsByIP EXCEPT ![TaskPodSpec.ip] = Nil]
  /\ IPByPods' = [IPByPods EXCEPT ![TaskPod] = Nil]
  /\ PodDone
  /\ UNCHANGED <<deprived, needResync, skipped, readItem>>

(***************************************************************************)
(* pc.update removes the entry under the IP that IPByPods has for the pod, *)
(* "the pod already exists, but with another IP Address", without looking  *)
(* whose it is by now.  It is another pod's if that took the IP before the *)
(* deletion of this pod was handled, which then leaves IPByPods as it is.  *)
(***************************************************************************)
Deprives(p, ip) ==
  {q \in KPods \ {p} : IPByPods[p] \in IPs \ {ip} /\ podsByIP[IPByPods[p]] = q}

\* Variants with a bug: the pod's old IP is not pruned; a waiting endpoint is not handled again.
UpdateKeepsOldIP ==
  /\ Task("pod") /\ TaskPodSpec.ip # Nil /\ ~PodGone
  /\ LET ip == TaskPodSpec.ip
     IN  /\ podsByIP[ip] # TaskPod
         /\ podsByIP' = [podsByIP EXCEPT ![ip] = TaskPod]
         /\ IPByPods' = [IPByPods EXCEPT ![TaskPod] = ip]
         /\ deprived' = (deprived \ {TaskPod}) \cup Deprives(TaskPod, ip)
         /\ needResync' = needResync \ {ip} /\ skipped' = skipped \ {ip}
         /\ readItem' = IF ip \in needResync THEN epInf ELSE Nil
  /\ PodDone

UpdateNoResync ==
  /\ Task("pod") /\ TaskPodSpec.ip # Nil /\ ~PodGone
  /\ LET ip == TaskPodSpec.ip
     IN  /\ podsByIP[ip] # TaskPod
         /\ podsByIP' = [i \in IPs |-> IF i = ip THEN TaskPod
                                       ELSE IF i = IPByPods[TaskPod] THEN Nil ELSE podsByIP[i]]
         /\ IPByPods' = [IPByPods EXCEPT ![TaskPod] = ip]
         /\ deprived' = (deprived \ {TaskPod}) \cup Deprives(TaskPod, ip)
         /\ needResync' = needResync \ {ip} /\ skipped' = skipped \ {ip}
         /\ readItem' = Nil
  /\ PodDone

(***************************************************************************)
(* pc.update: the entry of the pod's old IP goes away, whoever has it now. *)
(* queueEndpointEvent reads the Endpoints object (PushItem pushes it).     *)
(***************************************************************************)
Update ==
  /\ Task("pod") /\ TaskPodSpec.ip # Nil /\ ~PodGone
  /\ LET ip == TaskPodSpec.ip
     IN  /\ podsByIP[ip] # TaskPod
         /\ podsByIP' = [i \in IPs |-> IF i = ip THEN TaskPod
                                       ELSE IF i = IPByPods[TaskPod] THEN Nil ELSE podsByIP[i]]
         /\ IPByPods' = [IPByPods EXCEPT ![TaskPod] = ip]
         /\ deprived' = (deprived \ {TaskPod}) \cup Deprives(TaskPod, ip)
         /\ needResync' = needResync \ {ip} /\ skipped' = skipped \ {ip}
         /\ readItem' = IF ip \in needResync THEN epInf ELSE Nil
  /\ PodDone

PushItem ==
  /\ readItem # Nil
  /\ queued' = Append(queued, <<"resync", "update", readItem>>)
  /\ overtaken' = (overtaken \/ itemStale)
  /\ readItem' = Nil /\ itemStale' = FALSE
  /\ UNCHANGED <<storeVars, notes, kchanges, podCacheVars, eds>>

(***************************************************************************)
(* buildIstioEndpoints: an address whose pod is not in the store is left   *)
(* out and registered.                                                     *)
(***************************************************************************)
Built(ep) == {a \in ep : podInf[a[1]] # Nil}

Registers(ep) ==
  /\ needResync' = needResync \cup {a[2] : a \in ep \ Built(ep)}
  /\ skipped' = skipped \ {a[2] : a \in Built(ep)}

(***************************************************************************)
(* endpointsController.onEvent: updateEDS with the latest object, or with  *)
(* the one queueEndpointEvent read.  (EndpointSlices are not modelled.)    *)
(***************************************************************************)
OnEndpoints ==
  /\ Task("ep") \/ Task("resync")
  /\ LET latest == Task("ep") /\ Event # "delete" /\ epInf # Nil
         ep     == IF latest THEN epInf ELSE Head(queued)[3]
     IN  IF Event = "delete"
         THEN eds' = {} /\ needResync' = needResync \ {a[2] : a \in ep} /\ UNCHANGED skipped
         ELSE eds' = Built(ep) /\ Registers(ep)
  /\ queued' = Tail(queued)
  /\ UNCHANGED <<storeVars, notes, kchanges, podsByIP, IPByPods, deprived, readItem, itemStale, overtaken>>

(***************************************************************************)
(* onServiceEvent: a new Service builds its endpoints from the store, and  *)
(* a deleted one loses them (SvcUpdate).                                   *)
(***************************************************************************)
OnService ==
  /\ Task("svc")
  /\ IF Event = "delete" THEN eds' = {} /\ UNCHANGED <<needResync, skipped>>
     ELSE IF epInf = Nil THEN UNCHANGED <<eds, needResync, skipped>>
     ELSE /\ eds' = (IF Built(epInf) # {} THEN Built(epInf) ELSE eds)
          /\ Registers(epInf)
  /\ queued' = Tail(queued)
  /\ UNCHANGED <<storeVars, notes, kchanges, podsByIP, IPByPods, deprived, readItem, itemStale, overtaken>>

KubeNext ==
  \/ \E p \in KPods, new \in PodSpecs \cup {Nil} :
       PodChanges(p, new)
  \/ \E new \in EndpointSets \cup {Nil} : EndpointsChange(new)
  \/ ServiceChanges
  \/ \E kind \in {"pod", "ep", "svc"} : Deliver(kind)
  \/ PodIgnored \/ DeleteIP \/ Update \/ PushItem
  \/ OnEndpoints \/ OnService

KubeSpec == KubeInit /\ [][KubeNext]_kubeVars

-----------------------------------------------------------------------------
KubeSettled == queued = <<>> /\ readItem = Nil /\ \A k \in DOMAIN notes : notes[k] = <<>>

(***************************************************************************)
(* When everything is handled, a pod that has an IP and is not being       *)
(* deleted is in podsByIP under that IP and under no other, although tasks *)
(* see newer pods than they were queued for and an IP goes from one pod to *)
(* another; unless the update of a pod that came back under its old name   *)
(* removed the entry.  (The entry of a pod that changed its IP in place    *)
(* and was deleted before the change was handled stays for ever.)          *)
(***************************************************************************)
PodCacheFollows ==
  KubeSettled =>
    \A p \in KPods :
      podInf[p] # Nil /\ podInf[p].ip # Nil /\ ~podInf[p].leaving /\ p \notin deprived
        => {i \in IPs : podsByIP[i] = p} = {podInf[p].ip}

(***************************************************************************)
(* When everything is handled, the endpoints of a service are addresses    *)
(* its Endpoints object lists, and all of those whose pod is there, in     *)
(* whatever order pods, Endpoints and Service came, went and came again.   *)
(* It needs that no object that queueEndpointEvent read was overtaken by   *)
(* a newer one on its way to the queue: it is handled as it was read.  And *)
(* an address is missing whose pod found an entry of its own in podsByIP   *)
(* (one of those that stay for ever) when it came: what waits under an IP  *)
(* is handled only when the entry is new.                                  *)
(***************************************************************************)
EndpointsFollow ==
  KubeSettled /\ svcInf /\ ~overtaken =>
    LET listed == IF epInf = Nil THEN {} ELSE epInf
    IN  /\ eds \subseteq listed
        /\ \A a \in listed :
             podInf[a[1]] = [ip |-> a[2], leaving |-> FALSE] => a \in eds \/ a[2] \in skipped
=============================================================================
