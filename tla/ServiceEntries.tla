--------------------------- MODULE ServiceEntries ---------------------------
(***************************************************************************)
(* ServiceEntryStore (pilot/pkg/serviceregistry/serviceentry): the index   *)
(* of service instances built from ServiceEntries, the WorkloadEntries     *)
(* they select and the pods the Kubernetes registry reports.  The handlers *)
(* change the index in place; a change of services only marks it, and      *)
(* whoever reads it next rebuilds it from the store.                       *)
(*                                                                         *)
(* One namespace, one host per ServiceEntry, static resolution.  An        *)
(* instance is <<host, key, address>> where key is the object it comes     *)
(* from; s.instances and s.ip2instance are the same instances, grouped by  *)
(* host and key or by address.  No two objects have the same address, and  *)
(* a pod keeps its labels.                                                 *)
(***************************************************************************)
EXTENDS Naturals, Sequences, FiniteSets

CONSTANTS Entries,    \* the ServiceEntries
          EntrySpecs, \* what one may say: [selector, endpoint, svc]
          Wles,       \* the WorkloadEntries
          WleSpecs,   \* what one may say: [label, addr]
          SePods,     \* the pods
          PodLabel,
          InitialEntries, InitialWles, \* the objects that were there at the start
          Missing,    \* an object that does not exist, a selector or endpoint not given
          MaxSeChanges \* bound: changes of objects in a behaviour

(***************************************************************************)
(* A configKey has a kind, so objects of two kinds are never the same; a   *)
(* label is no missing selector.                                           *)
(***************************************************************************)
ASSUME SeAssumption ==
  /\ Entries \cap (Wles \cup SePods) = {} /\ Wles \cap SePods = {}
  /\ Missing \notin EntrySpecs \cup WleSpecs
  /\ InitialEntries \in [Entries -> EntrySpecs \cup {Missing}]
  /\ InitialWles \in [Wles -> WleSpecs \cup {Missing}]
  /\ \A s \in WleSpecs : s.label # Missing
  /\ \A p \in SePods : PodLabel[p] # Missing
  /\ MaxSeChanges \in Nat

VARIABLES seStore,    \* store.ServiceEntries(): the informer's copy
          wleStore,   \* store.List(WorkloadEntry)
          podStore,   \* the pods that run
          seEvents,   \* the events not handled yet: <<"se" | "wle", name, old, curr>>
          podEvents,  \* <<pod, TRUE for a delete>>
          changes,
          instances,  \* s.instances and
          ip2instance,
          selectors,  \* s.seWithSelectorByNamespace: the entries, with their specs
          byIP,       \* s.workloadInstancesByIP: the pods in it
          refreshIndexes,
          at,         \* per goroutine: where it is and what it has read
          shards,     \* per host, the endpoints last given to the XDS server
          unwritten,  \* per goroutine: nobody wrote since it read
          raced,      \* a goroutine wrote although somebody wrote since it read
          passed,     \* per goroutine with endpoints to give: who has read them since
          late,       \* per goroutine: the hosts that were given what was read since
          reversed    \* the hosts whose shards were read before what they had been given

objectVars == <<seStore, wleStore, podStore, changes>>
orderVars == <<passed, late, reversed>>
seVars == <<objectVars, seEvents, podEvents, instances, ip2instance, selectors, byIP,
            refreshIndexes, at, shards, unwritten, raced, orderVars>>

(***************************************************************************)
(* The goroutines: the queue of the config store, the queue of the         *)
(* Kubernetes registry, and a push or a connecting proxy, which only read. *)
(***************************************************************************)
Threads == {"config", "pod", "reader"}

Resting == [pc |-> "idle"]

-----------------------------------------------------------------------------
(***************************************************************************)
(* Objects change: the informer's copy first, then the event.              *)
(***************************************************************************)
ChangeEntry(e, spec) ==
  /\ changes < MaxSeChanges /\ changes' = changes + 1
  /\ spec # seStore[e]
  /\ seStore' = [seStore EXCEPT ![e] = spec]
  /\ seEvents' = Append(seEvents, <<"se", e, seStore[e], spec>>)
  /\ UNCHANGED <<wleStore, podStore, podEvents, instances, ip2instance, selectors, byIP,
                 refreshIndexes, at, shards, unwritten, raced, orderVars>>

ChangeWle(w, spec) ==
  /\ changes < MaxSeChanges /\ changes' = changes + 1
  /\ spec # wleStore[w]
  /\ wleStore' = [wleStore EXCEPT ![w] = spec]
  /\ seEvents' = Append(seEvents, <<"wle", w, wleStore[w], spec>>)
  /\ UNCHANGED <<seStore, podStore, podEvents, instances, ip2instance, selectors, byIP,
                 refreshIndexes, at, shards, unwritten, raced, orderVars>>

ChangePod(p) ==
  /\ changes < MaxSeChanges /\ changes' = changes + 1
  /\ podStore' = (IF p \in podStore THEN podStore \ {p} ELSE podStore \cup {p})
  /\ podEvents' = Append(podEvents, <<p, p \in podStore>>)
  /\ UNCHANGED <<seStore, wleStore, seEvents, instances, ip2instance, selectors, byIP,
                 refreshIndexes, at, shards, unwritten, raced, orderVars>>

-----------------------------------------------------------------------------
(***************************************************************************)
(* Conversions: the instances of a ServiceEntry's own endpoint and those   *)
(* of a workload with this label and address.                              *)
(***************************************************************************)
OwnInstances(e, spec) ==
  IF spec = Missing \/ spec.endpoint = Missing THEN {} ELSE {<<e, e, <<e, spec.endpoint>>>>}

Selected(sels, key, label, addr) ==
  {<<s[1], key, <<key, addr>>>> : s \in {t \in sels : t[2].selector = label}}

PodInstances(sels, p) == Selected(sels, p, PodLabel[p], 0)

WleInstances(sels, w, spec) ==
  IF spec = Missing THEN {} ELSE Selected(sels, w, spec.label, spec.addr)

WithSelector(store) ==
  {<<e, store[e]>> : e \in {d \in Entries : store[d] # Missing /\ store[d].selector # Missing}}

(***************************************************************************)
(* What maybeRefreshIndexes builds from the ServiceEntries it read, the    *)
(* pods and the WorkloadEntries.                                           *)
(***************************************************************************)
Rebuilt(store, pods, wles) ==
  LET sels == WithSelector(store)
  IN  (UNION {OwnInstances(e, store[e]) : e \in Entries})
        \cup (UNION {PodInstances(sels, p) : p \in pods})
        \cup (UNION {WleInstances(sels, w, wles[w]) : w \in Wles})

(***************************************************************************)
(* Thread p read, or wrote what the others may have read before.           *)
(***************************************************************************)
Reads(p) == unwritten' = [unwritten EXCEPT ![p] = TRUE]

Wrote(p) == unwritten' = [q \in Threads |-> q = p]

Writes(p) == Wrote(p) /\ raced' = (raced \/ ~unwritten[p])

(***************************************************************************)
(* deleteExistingInstances(deleted) and then updateExistingInstances       *)
(* (updated) or deleteExistingInstances(updated).  Between the two a       *)
(* reader may see neither, which no property looks at.                     *)
(***************************************************************************)
Deleted(instanceSet, deleted) ==
  {i \in instanceSet : \A j \in deleted : <<j[1], j[2]>> # <<i[1], i[2]>>}

Replace(deleted, updated) ==
  /\ instances' = Deleted(instances, deleted \cup updated) \cup updated
  /\ ip2instance' = {i \in ip2instance : \A j \in deleted \cup updated : j[3] # i[3]} \cup updated

(***************************************************************************)
(* workloadEntryHandler: read the selectors, then update the index for     *)
(* what is selected by the new labels and no longer by the old ones, then  *)
(* edsUpdate for those hosts.                                              *)
(***************************************************************************)
WleHandlerStart ==
  /\ at["config"].pc = "idle" /\ seEvents # <<>> /\ Head(seEvents)[1] = "wle"
  /\ seEvents' = Tail(seEvents)
  /\ LET w    == Head(seEvents)[2]
         old  == Head(seEvents)[3]
         curr == Head(seEvents)[4]
         spec == IF curr = Missing THEN old ELSE curr
         upd  == WleInstances(selectors, w, spec)
         \* Kept by neither: hosts whose selector matches the old labels only.
         del  == IF curr = Missing THEN {}
                 ELSE {i \in WleInstances(selectors, w, old) : \A j \in upd : j[1] # i[1]}
     IN  at' = [at EXCEPT !["config"] =
                  IF selectors = {} THEN Resting
                  ELSE [pc |-> "index", deleted |-> IF curr = Missing THEN upd ELSE del,
                        updated |-> IF curr = Missing THEN {} ELSE upd,
                        keys |-> {i[1] : i \in upd \cup del}]]
  /\ Reads("config")
  /\ UNCHANGED <<objectVars, podEvents, instances, ip2instance, selectors, byIP,
                 refreshIndexes, shards, raced, orderVars>>

(***************************************************************************)
(* WorkloadInstanceHandler: the same for a pod, which it also records for  *)
(* the rebuilds to come.                                                   *)
(***************************************************************************)
PodHandlerStart ==
  /\ at["pod"].pc = "idle" /\ podEvents # <<>>
  /\ podEvents' = Tail(podEvents)
  /\ LET p   == Head(podEvents)[1]
         del == Head(podEvents)[2]
         own == PodInstances(selectors, p)
         redundant == (p \in byIP) # del
     IN  /\ byIP' = (IF del THEN byIP \ {p} ELSE byIP \cup {p})
         /\ at' = [at EXCEPT !["pod"] =
              IF selectors = {} \/ redundant THEN Resting
              ELSE [pc |-> "index", deleted |-> IF del THEN own ELSE {},
                    updated |-> IF del THEN {} ELSE own, keys |-> {i[1] : i \in own}]]
  /\ Reads("pod")
  /\ UNCHANGED <<objectVars, seEvents, instances, ip2instance, selectors, refreshIndexes,
                 shards, raced, orderVars>>

UpdateIndex(p) ==
  /\ at[p].pc = "index"
  /\ Replace(at[p].deleted, at[p].updated)
  /\ at' = [at EXCEPT ![p] = [pc |-> "refresh", keys |-> at[p].keys]]
  /\ Writes(p)
  /\ UNCHANGED <<objectVars, seEvents, podEvents, selectors, byIP, refreshIndexes, shards,
                 orderVars>>

(***************************************************************************)
(* serviceEntryHandler: when only the endpoints of the entry changed, the  *)
(* index is updated in place.                                              *)
(***************************************************************************)
OnlyEndpoints(old, curr) ==
  /\ old # Missing /\ curr # Missing
  /\ old.selector = curr.selector /\ old.svc = curr.svc

EntryHandlerEndpoints ==
  /\ at["config"].pc = "idle" /\ seEvents # <<>> /\ Head(seEvents)[1] = "se"
  /\ seEvents' = Tail(seEvents)
  /\ LET e == Head(seEvents)[2]
         curr == Head(seEvents)[4]
     IN  /\ OnlyEndpoints(Head(seEvents)[3], curr)
         /\ Replace({}, OwnInstances(e, curr))
         /\ at' = [at EXCEPT !["config"] =
              [pc |-> "refresh", keys |-> {i[1] : i \in OwnInstances(e, curr)}]]
  /\ Wrote("config")
  /\ UNCHANGED <<objectVars, podEvents, selectors, byIP, refreshIndexes, shards, raced, orderVars>>

\* Variant with a bug: an update of the services does not mark the index.
EntryHandlerNoRefresh ==
  /\ at["config"].pc = "idle" /\ seEvents # <<>> /\ Head(seEvents)[1] = "se"
  /\ seEvents' = Tail(seEvents)
  /\ LET e == Head(seEvents)[2]
         curr == Head(seEvents)[4]
     IN  /\ ~OnlyEndpoints(Head(seEvents)[3], curr)
         /\ shards' = (IF curr = Missing THEN [shards EXCEPT ![e] = {}] ELSE shards)
         /\ at' = [at EXCEPT !["config"] =
              [pc |-> "refresh", keys |-> IF curr = Missing THEN {} ELSE {e}]]
         /\ refreshIndexes' = (refreshIndexes \/ Head(seEvents)[3] = Missing)
  /\ Wrote("config")
  /\ UNCHANGED <<objectVars, podEvents, instances, ip2instance, selectors, byIP, raced, orderVars>>

(***************************************************************************)
(* Otherwise SvcUpdate is called (a delete drops the endpoints), the index *)
(* is marked and edsUpdateByKeys follows.                                  *)
(***************************************************************************)
EntryHandlerServices ==
  /\ at["config"].pc = "idle" /\ seEvents # <<>> /\ Head(seEvents)[1] = "se"
  /\ seEvents' = Tail(seEvents)
  /\ LET e == Head(seEvents)[2]
         curr == Head(seEvents)[4]
     IN  /\ ~OnlyEndpoints(Head(seEvents)[3], curr)
         /\ shards' = (IF curr = Missing THEN [shards EXCEPT ![e] = {}] ELSE shards)
         /\ at' = [at EXCEPT !["config"] =
              [pc |-> "refresh", keys |-> IF curr = Missing THEN {} ELSE {e}]]
  /\ refreshIndexes' = TRUE
  /\ Wrote("config")
  /\ UNCHANGED <<objectVars, podEvents, instances, ip2instance, selectors, byIP, raced, orderVars>>

-----------------------------------------------------------------------------
(***************************************************************************)
(* A push or a connecting proxy looks instances up.                        *)
(***************************************************************************)
ReaderStart ==
  /\ at["reader"].pc = "idle" /\ refreshIndexes
  /\ at' = [at EXCEPT !["reader"] = [pc |-> "refresh", keys |-> {}]]
  /\ UNCHANGED <<objectVars, seEvents, podEvents, instances, ip2instance, selectors, byIP,
                 refreshIndexes, shards, unwritten, raced, orderVars>>

(***************************************************************************)
(* maybeRefreshIndexes: load the flag and read the ServiceEntries; take    *)
(* the lock, read the rest and write; reset the flag.                      *)
(***************************************************************************)
RefreshNotNeeded(p) ==
  /\ at[p].pc = "refresh" /\ ~refreshIndexes
  /\ at' = [at EXCEPT ![p].pc = "eds"]
  /\ UNCHANGED <<objectVars, seEvents, podEvents, instances, ip2instance, selectors, byIP,
                 refreshIndexes, shards, unwritten, raced, orderVars>>

RefreshRead(p) ==
  /\ at[p].pc = "refresh" /\ refreshIndexes
  /\ at' = [at EXCEPT ![p] = [pc |-> "rebuild", keys |-> at[p].keys, entries |-> seStore]]
  /\ Reads(p)
  /\ UNCHANGED <<objectVars, seEvents, podEvents, instances, ip2instance, selectors, byIP,
                 refreshIndexes, shards, raced, orderVars>>

RefreshWrite(p) ==
  /\ at[p].pc = "rebuild"
  /\ instances' = Rebuilt(at[p].entries, byIP, wleStore)
  /\ ip2instance' = Rebuilt(at[p].entries, byIP, wleStore)
  /\ selectors' = WithSelector(at[p].entries)
  /\ at' = [at EXCEPT ![p] = [pc |-> "reset", keys |-> at[p].keys]]
  /\ Writes(p)
  /\ UNCHANGED <<objectVars, seEvents, podEvents, byIP, refreshIndexes, shards, orderVars>>

RefreshReset(p) ==
  /\ at[p].pc = "reset"
  /\ refreshIndexes' = FALSE
  /\ at' = [at EXCEPT ![p].pc = "eds"]
  /\ Writes(p)
  /\ UNCHANGED <<objectVars, seEvents, podEvents, instances, ip2instance, selectors, byIP,
                 shards, orderVars>>

HostAddresses(instanceSet, e) == {i[3] : i \in {j \in instanceSet : j[1] = e}}

Addresses(e) == HostAddresses(instances, e)

(***************************************************************************)
(* edsUpdateByKeys(keys): read the instances of the hosts under the lock   *)
(* and, after it, give them to the XDS server, in one call for each host.  *)
(* When none of the hosts has instances they are all cleared; otherwise    *)
(* only the hosts that have instances are updated.  (edsUpdate refreshes   *)
(* the index once more before this, as a reader may at that moment.)       *)
(***************************************************************************)
EdsRead(p) ==
  /\ at[p].pc = "eds"
  /\ LET found == {i \in instances : i[1] \in at[p].keys}
         hosts == IF found = {} THEN at[p].keys ELSE {i[1] : i \in found}
     IN  at' = [at EXCEPT ![p] = IF hosts = {} THEN Resting
                                 ELSE [pc |-> "give", keys |-> hosts, found |-> found]]
  /\ passed' = [q \in Threads |-> IF at[q].pc = "give" THEN passed[q] \cup {p} ELSE passed[q]]
  /\ UNCHANGED <<objectVars, seEvents, podEvents, instances, ip2instance, selectors, byIP,
                 refreshIndexes, shards, unwritten, raced, late, reversed>>

\* After its last call a goroutine has no order to keep.
Forget(order, p, e) == IF at[p].keys = {e} THEN [order EXCEPT ![p] = {}] ELSE order

EdsGive(p, e) ==
  /\ at[p].pc = "give" /\ e \in at[p].keys
  /\ shards' = [shards EXCEPT ![e] = HostAddresses(at[p].found, e)]
  /\ at' = [at EXCEPT ![p] = IF at[p].keys = {e} THEN Resting
                             ELSE [pc |-> "give", keys |-> at[p].keys \ {e}, found |-> at[p].found]]
  /\ passed' = Forget(passed, p, e)
  /\ late' = Forget([q \in Threads |-> IF p \in passed[q] THEN late[q] \cup {e} ELSE late[q]], p, e)
  /\ reversed' = (IF e \in late[p] THEN reversed \cup {e} ELSE reversed \ {e})
  /\ UNCHANGED <<objectVars, seEvents, podEvents, instances, ip2instance, selectors, byIP,
                 refreshIndexes, unwritten, raced>>

(***************************************************************************)
(* The server starts: the objects that exist have been handled.            *)
(***************************************************************************)
SEInit ==
  /\ seStore = InitialEntries /\ wleStore = InitialWles /\ podStore = {}
  /\ seEvents = <<>> /\ podEvents = <<>> /\ changes = 0
  /\ instances = Rebuilt(InitialEntries, {}, InitialWles) /\ ip2instance = instances
  /\ selectors = WithSelector(InitialEntries) /\ byIP = {} /\ refreshIndexes = FALSE
  /\ at = [p \in Threads |-> Resting]
  /\ shards = [e \in Entries |-> Addresses(e)]
  /\ unwritten = [p \in Threads |-> TRUE] /\ raced = FALSE
  /\ passed = [p \in Threads |-> {}] /\ late = [p \in Threads |-> {}] /\ reversed = {}

SENext ==
  \/ \E e \in Entries, spec \in EntrySpecs \cup {Missing} : ChangeEntry(e, spec)
  \/ \E w \in Wles, spec \in WleSpecs \cup {Missing} : ChangeWle(w, spec)
  \/ \E p \in SePods : ChangePod(p)
  \/ WleHandlerStart \/ PodHandlerStart
  \/ EntryHandlerEndpoints \/ EntryHandlerServices
  \/ ReaderStart
  \/ \E p \in Threads : \/ UpdateIndex(p) \/ EdsRead(p) \/ \E e \in Entries : EdsGive(p, e)
                        \/ RefreshNotNeeded(p) \/ RefreshRead(p)
                        \/ RefreshWrite(p) \/ RefreshReset(p)

SESpec == SEInit /\ [][SENext]_seVars

-----------------------------------------------------------------------------
Settled == seEvents = <<>> /\ podEvents = <<>> /\ \A p \in Threads : at[p] = Resting

(***************************************************************************)
(* When every event has been handled, and unless the index is marked for a *)
(* rebuild, the index that the handlers changed in place (from events that *)
(* lag behind the objects, with rebuilds from newer objects in between) is *)
(* the one a rebuild would give, and no instance of it is missing from the *)
(* index by address or from the endpoints the XDS server was given.  It    *)
(* needs that nobody wrote from a stale read: the rebuild reads the        *)
(* ServiceEntries before it locks, and the handlers read the selectors and *)
(* write in two critical sections, so that R,R,W,W is possible although    *)
(* the lock is meant to exclude it (servicediscovery.go:672-675).          *)
(*                                                                         *)
(* An entry whose last endpoint was taken away keeps it in the index until *)
(* the next rebuild: updateExistingInstances deletes the old instances of  *)
(* the hosts of the new ones, and there are no new ones.                   *)
(*                                                                         *)
(* edsUpdateByKeys reads the instances under the lock and gives them to    *)
(* the XDS server after it, host by host, so a host may be given what was  *)
(* read before something it has already.  Such a host (reversed) is        *)
(* excluded until it is given something newer; no other misses anything.   *)
(*                                                                         *)
(* The XDS server may have been given more: when a WorkloadEntry's labels  *)
(* change so that another ServiceEntry selects it, edsUpdateByKeys clears  *)
(* the endpoints of the first only if neither has any left.                *)
(***************************************************************************)
IndexIsRebuilt ==
  Settled /\ ~refreshIndexes /\ ~raced =>
    LET rebuilt == Rebuilt(seStore, podStore, wleStore)
    IN  /\ rebuilt \subseteq instances
        /\ \A i \in instances \ rebuilt :
             i[1] = i[2] /\ seStore[i[1]] # Missing /\ seStore[i[1]].endpoint = Missing
        /\ instances \subseteq ip2instance
        /\ \A e \in Entries \ reversed : seStore[e] # Missing => Addresses(e) \subseteq shards[e]
=============================================================================
