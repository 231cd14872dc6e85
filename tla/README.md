# A TLA+ model of istiod's push path and registries

This directory specifies, model-checks and proves properties of the parts of Istio that keep
proxies up to date: the path on which istiod turns a change into new configuration in every connected
proxy (`pilot/pkg/xds`, the push context and XDS cache of `pilot/pkg/model`, the event handlers and
readiness logic of `pilot/pkg/bootstrap`), the registries that feed it (ServiceEntries, Kubernetes
pods and endpoints, federated meshes, auto-registered workloads), the queues they all run on, and the
agent's workload certificate. Paths below are relative to the repository root.

Run a model with `tlc -config X.cfg MCModule` and check proofs with `tlapm XProofs.tla`.
`PROJECT.json` lists the runs, maps every definition to the source lines it models, and lists the
hazards the properties are aimed at.

## 1. The system and its parts

```
 pods, endpoints      ServiceEntries,      another mesh         workloads
      | (work queue)  WorkloadEntries         | poll, watch         | connect
      v                    v                  v                     v
 Kubernetes registry  ServiceEntry reg.  federation reg.   WorkloadEntry controller
      |  EDSUpdate, SvcUpdate, ConfigUpdate   |                (delay queue)
      v                                       v
 endpoint shards       config store     extension handlers
          | ConfigUpdate |                    |
          v              v                    |
     pushChannel --> debounce loop            |
                          | pushFn            | Push
                          v                   v
                     DiscoveryServer.Push --> initPushContext --> Env.PushContext
                          | AdsPushAll --> Cache.Clear / ClearAll
                          v
   ProxyUpdate ----> PushQueue --> doSendPushes --> event --> Stream <--> receive <--> proxy
                                                                                     (agent: SDS)
```

| component | state it keeps | operations | what makes it hard | what makes it correct |
|---|---|---|---|---|
| Push queue (`xds/pushqueue.go`) | `pending`, `queue`, `processing`, `shuttingDown`, sleepers of the condition variable | Enqueue, Dequeue, MarkDone, ShutDown | callers interleave at will; an enqueue during a push; `Signal` wakes one sleeper | nothing lost or duplicated, one push per connection, no lost wakeup, no starvation |
| Debounce (`xds/discovery.go`) | merged request, event count, `free`, `freeCh`, timer | ConfigUpdate, the cases of the select loop, the push goroutines | a timer that fires during a push is thrown away; a full channel; EDS pushes beside the loop | one push at a time, no request forgotten, bounded delay |
| Global push and readiness (`xds/discovery.go`, `model/push_context.go`, `bootstrap/server.go`) | `Env.PushContext`, `versionNum`, `InboundUpdates`, `CommittedUpdates` | Push, initPushContext, waitForCacheSync, the extension handlers | contexts are rebuilt in part from merged requests; contexts written in the wrong order; failing InitContext | the context ends up complete, never goes back, and is complete before the server is ready |
| XDS cache (`model/xds_cache.go`) | LRU store of values and tokens, two indexes, `nextToken` | Get, Add, Clear, ClearAll | generators hold a token across an eviction or an invalidation | every value can be invalidated; no stale write becomes current |
| Discovery server (`xds/discovery.go`, `xds/ads.go`) | `adsClients`, per connection the channels `initialized`, `reqChannel`, `pushChannel`; `concurrentPushLimit` | Push, ProxyUpdate, doSendPushes, Stream, receive, initConnection, Shutdown | three goroutines per connection that end independently; a proxy that connects during a push; a registration that fails | every live proxy ends up fresh; no push slot leaks |
| ADS stream protocol (`xds/ads.go`, `xds/gen.go`) | per type: names, nonces sent, acked and nacked; blocked pushes | processRequest, shouldRespond, pushConnection, pushXds, Synced | requests and responses cross; stale nonces; NACKs; flow control and its timeout | the proxy converges to what it asked for |
| Endpoint shards (`xds/eds.go`) | `EndpointShardsByService`, shards per cluster | EDSUpdate, edsCacheUpdate, deleteService, UpdateServiceShards | found under one lock, written under another; a full push polls beside the registries | what is served is what each registry last said |
| Delay queue (`pkg/queue/delay.go`) | channel `enqueue`, heap, channel `execute`, workers | PushDelayed, Run, work, stop | a push past a full channel goes to the heap while Run is about to sleep; failures are pushed by workers | no task lost or run twice; every task runs |
| Work queue (`pkg/queue/instance.go`) | `tasks`, `closing`, sleeper | Push, Run, retries, stop | a stop or a retry while Run sleeps or works | accepted tasks run, failed ones are retried, Run returns |
| Kubernetes registry (`serviceregistry/kube/controller`) | `podsByIP`, `IPByPods`, `needResync`, queue | pod, Endpoints and Service events | three informers whose stores run ahead of their events; an IP that goes from pod to pod; endpoints before their pods | the pod cache and the endpoints follow the cluster |
| ServiceEntry registry (`serviceregistry/serviceentry`) | `instances`, `ip2instance`, selectors, `refreshIndexes` | the handlers of ServiceEntries, WorkloadEntries and pods, maybeRefreshIndexes, edsUpdate | three threads; reads and writes in different critical sections | the index changed in place is the one a rebuild gives |
| Federation (`pkg/servicemesh/federation/server`, `serviceregistry/federation`) | exports, watches; imports, store, name mapper | serviceUpdated, updateExportConfig, resync, handleWatch, stop; Run, watch, poll, convertServices | events lost between poll and watch; a lock held while sending on an unbuffered channel | the importer ends up with what is exported; the exporter is not blocked |
| WorkloadEntry controller (`controller/workloadentry`) | the entry in the API server, `adsConnections`, clean-up tasks | RegisterWorkload, QueueUnregisterWorkload, the clean-up task and the periodic clean-up | two istiods with lagging caches; a disconnect handled after a reconnect; crashes | a connected workload keeps its entry; one that left loses it |
| Secret manager (`security/pkg/nodeagent/cache/secretcache.go`) | cached certificate and root, rotation tasks | GenerateSecret, registerSecret, rotation, the callback | streams that ask at the same time, during a rotation or after a failing CSR | one certificate in use, which will be rotated |

## 2. Modules

| module | models | extends |
|---|---|---|
| `PushRequest` | `model.PushRequest` and `Merge` | |
| `PushMailbox` | abstract specification: what the push queue promises | `PushRequest` |
| `PushQueue` | `PushQueue`; refines `PushMailbox` | `PushRequest` |
| `Debounce` | `ConfigUpdate` and `debounce` | `PushRequest` |
| `GlobalPush` | `Push` as the debounce loop's push function, readiness, extension handlers | `Debounce` |
| `XdsCache` | `lruCache` with generators and invalidation | |
| `DiscoveryServer` | connections, event sender, `ProxyUpdate`, composed with the queue | `PushQueue` |
| `AdsStream` | the protocol of one stream, for one resource type | `PushRequest` |
| `DelayQueue`, `WorkQueue` | the two queues of `pkg/queue` | |
| `EndpointShards` | the shards of one service | |
| `KubeEndpoints` | pods, one Endpoints object and its Service, from informers to EDS | |
| `ServiceEntries` | the ServiceEntry store and its three threads | |
| `Federation` | exporting and importing mesh | |
| `WorkloadEntries` | auto-registration of one workload at several istiods | |
| `SecretManager` | the agent's workload certificate | |
| `PushQueueProofs`, `DebounceProofs`, `XdsCacheProofs`, `DelayQueueProofs` | theorems on the module named | that module, TLAPS |
| `GlobalPushProofs`, `DiscoveryServerProofs` | theorems on the compositions, from those on the part | the module, and `DebounceProofs` or `PushQueueProofs` |
| `ProxyProofs` | theorems on what istiod and the agent do for one proxy | `WorkloadEntries`, `AdsStream`, `SecretManager`, TLAPS |
| `RegistryProofs` | theorems on the registries | `EndpointShards`, `KubeEndpoints`, `ServiceEntries`, TLAPS |
| `MCDebounce`, `MCGlobalPush`, `MCDiscoveryServer`, `MCXdsCache`, `MCServiceEntries` | TLC instances: definitions for constants | |
| `MCQueues`, `MCLoops`, `MCRegistries` | TLC instances of several components | |

`MCQueues`, `MCLoops` and `MCRegistries` put components side by side that do not interact: the variable
`part`, chosen in the initial state, says which of them runs, and the others stand still. A run of
one is the union of the runs of its parts. The fairness of `MCQueues` and `MCLoops` joins steps of
different parts in one conjunct, which is the same as one conjunct for each, as only one part ever moves.

How state and actions correspond to the code:

* **PushQueue.** The variables are the fields of the Go struct. `Absent` is "no such key" and
  `NoRequest` is `nil`, which `processing` distinguishes. Every method holds `cond.L`, so it is one
  action; the only point where the lock is given up is `cond.Wait`, hence `waiting`. `inFlight` is what
  the caller of `Dequeue` holds until `MarkDone`.
* **Debounce.** One action per case of the `select`, two for `ConfigUpdate` (count, then send, which
  may block), two for `func push` (the push function and `updateSent.Add`, then the send on
  `freeCh`). Time is a tick; `timer` counts down, and the two ages stand for `time.Since` and are capped
  at `DebounceMax + DebounceAfter`, above which they are all alike. With `Prompt`, time stands
  still while one of the loop's channels is ready; it is needed only for the bound on the delay.
* **GlobalPush.** `Push` is split where other goroutines can see or change something: reading the old
  context, building, writing, `AdsPushAll`, returning. A context is the version it holds of each
  kind; `InitContext` takes a kind from the store or from the old context exactly where
  `createNewContext` and `updateContext` do. `handling` is a push of the extension handler. `late` is the
  callers that were counted before the caches were synced and have not sent yet, and `overtaken` says that an
  update counted afterwards was sent before one of theirs; both are history.
* **XdsCache.** Each method is one action (they hold the mutex). A generator takes a context, then Gets,
  then Adds or gives up. A cached value is the versions of the configurations its key depends on.
  `simplelru` is external: an order of the stored keys by their last use, with a capacity.
* **DiscoveryServer.** `sender` is `doSendPushes`; `event[c]` is the goroutine that offers an event;
  `recv[c]` and `handler[c]` are the two goroutines of a stream; `open` is the stream's context. A
  connection identifier connects at most once, since reconnecting makes a new `Connection`.
* **AdsStream.** One resource type, as the server never mixes two. `setup` chooses wildcard types and flow
  control once per behaviour. The proxy's side of xDS is the environment and marked external.
* **DelayQueue.** `PushDelayed` is two actions where its `select` takes the default branch, since the
  lock comes after. Run's `select` is two states: about to look at its cases (`select`) and asleep in it
  (`parked`), the only state in which an unbuffered send finds a receiver. A task carries the ticks left;
  `ordered` records whether the heap property holds, which the append at the receive may break.
* **WorkQueue.** One action per critical section of `Run`; a failed task is in `delayed` until its
  `AfterFunc` fires.
* **EndpointShards.** `thread` is the place of a goroutine in `edsCacheUpdate`: between
  `getOrCreateEndpointShard` (under `s.mutex`) and the write (under the shards' own mutex) it holds a
  pointer, so `EndpointShards` live in a heap and may no longer be the ones in the map. A full push polls
  the registries in `Polled` one after the other (`BuildContext`, `polling`).
* **KubeEndpoints.** Each informer's store changes first; its notification is delivered to the queue later, in
  order. A task of the queue is one action, except that `queueEndpointEvent` reads an
  object in the pod handler and pushes it in a step of its own, which a notification may overtake. `deprived`,
  `skipped` and `overtaken` are history; section 4 has the behaviours they stand for.
* **ServiceEntries.** A handler is a sequence of steps, one per critical section: read the selectors or the
  store, write the index, refresh, read the hosts' instances (`EdsRead`), and after the lock give the XDS server
  the endpoints of one host after the other (`EdsGive`). `edsUpdate` refreshes the index twice in a row; the
  model once, since the reader's goroutine may refresh it again at that moment. `unwritten` and `raced` are
  history: somebody wrote between a goroutine's read and its write. So are `passed` (who read the instances
  after a goroutine that has yet to give its own), `late` (the hosts they have given since) and `reversed` (the
  hosts whose last endpoints come from the older of two reads).
* **Federation.** The holder of the exporter's lock works through `job`; `undelivered` is the watchers an event
  has yet to be sent to. The HTTP connection is a buffer of `NetCap` events. Run, watch and poll of the
  importer are separate. Names are numbers; export and import rules map services to names.
* **WorkloadEntries.** A read from the lagging cache and the write that follows are one step, because a write
  that comes late is the same as a cache that lags more. The time of a connection is its number.
* **SecretManager.** A certificate is its serial number. `GenerateSecret` is split at `generateMutex`, at the
  CSR and at `registerSecret`; the rotation task is split between clearing the cache and the callback.

Operators under the comment "Variant with a bug" are no part of the specifications: each is an action
or operator as a plausible mistake in the code would make it. Putting one in the place of the original
violates the property that `PROJECT.json` pairs it with, so that no property holds vacuously.

## 3. Runs

| run | properties | what it shows, bounds |
|---|---|---|
| `queues` | `QueueMatchesPending`, `OnePushPerConnection`, `NoLostWakeup`, `ImplementsMailbox`, `EveryRequestServed`, `WorkersExitOnShutdown`; `NoTaskLost`, `TasksRunOrStranded`; `QueueDrains` | Push queue: 2 connections, 2 workers, 1 key, 2 versions, unbounded behaviours; two workers are needed for a Signal to wake the wrong one, two connections for starvation. Delay queue: 3 tasks and a channel of capacity 1, so that pushes overflow to the heap; 2 failures, so that the worker pushes too. Work queue: 3 tasks, 2 errors. |
| `debounce` | `OnePushAtATime`, `SomethingWillWakeLoop`, `DelayBounded`, `EveryUpdatePushed` | 2 callers, channel of capacity 1 so that calls block, 4 updates, undebounced EDS pushes. Four updates re-arm the timer at the last tick before `DebounceMax`. |
| `global_push` | `UpdatesAccounted`, `ContextCatchesUp`, `ReadyMeansComplete`, `ContextMovesForward` | 2 kinds, 2 callers (one overtakes the other), 3 updates (one being pushed, two merged behind it), failing pushes, a stop at any time. `DebounceMax` is 0, as the timer is the subject of `debounce`. |
| `global_ready` | `BecomesReady` | 2 updates and a push of the extension handler, under fairness. |
| `registries` | cache: `ValuesIndexed`, `TokensUnique`, `PurgedWritesDropped`; stream: `Converges`, `BlockedPushReleased`, `OneOutstanding`; `IndexIsRebuilt` (ServiceEntries); `PodCacheFollows`, `EndpointsFollow` (Kubernetes); `ShardsFollowRegistries`; `ConnectedEntryKept`; `RotationCoversAll` | A cache of size 1 with 2 keys that share a configuration, 2 generators, 3 configurations. A stream with 2 names, 3 contexts, all four sorts of flow control and types. 2 ServiceEntries that select or have an endpoint or none, a WorkloadEntry and a pod, 3 changes (a behaviour ends with its first stale write, of which `IndexIsRebuilt` says nothing). 2 pods that have the same IP one after the other, 5 changes (create, address, delete and the Endpoints between them). A Kubernetes cluster and a polled federated one. A workload that connects 3 times to 2 istiods, one of which crashes. 2 SDS streams, 4 certificates, 2 roots. |
| `loops` | `ImportsConverge`, `ExportJobsFinish`, `EntryCleanedUp`, `ChangesReachProxy` | Liveness. Federation with 2 services, 2 watches and 2 changes or faults of any sort (rules, gateways, a broken watch, failing polls, deletion of the peer); a workload with 2 connections and a crash; a stream of 1 name that is dropped and asked for again. |
| `discovery_fresh` | `ClientsFresh`, `LaterContextWins` | 1 proxy, 3 contexts, keys it does and does not depend on. Proxies do not influence each other's freshness. |
| `discovery_live` | `SlotsAccounted`, `AdsClientsActive`, `PushesDelivered`, `StreamsCleanedUp` | 1 proxy, 2 slots (`SlotsAccounted` is exact, so one leak shows; pushes take more slots in turn than there are, so leaks block), `ProxyUpdate`, failing registrations and sends, a stop, under fairness. |
| `xds_cache_cleared` | `ClearedWritesDropped` (violated) | see section 4 |
| `extension_push` | `ContextComplete` (violated) | see section 4 |
| `proxy_update_merge` | `LaterContextWins` (violated) | see section 4 |
| `delay_queue_strands` | `EveryTaskRuns` (violated) | see section 4 |

Deadlock checking is off where the system may stop (a shut-down queue, bounds on changes reached,
all proxies gone) and on in `debounce`, `global_push` and `global_ready`, where the clock always ticks.
The bounds on versions, nonces, tokens, shards, serial numbers and changes are named in the modules and
only stop the environment (or, for tokens and certificates, the request that would need one more): no
step that completes something under way is cut off by the bound on changes.

### Fairness

* Push queue: workers call `Dequeue` in an endless loop and every `Event` has its `done` called, so
  `Dequeue` and `MarkDone` are weakly fair. Nobody has to enqueue.
* Delay queue and work queue: `Run` and the workers go on, a caller of `PushDelayed` gets the lock, tasks return,
  time passes and `AfterFunc` fires (all weakly fair). Nobody has to push, to fail or to stop.
* Debounce: Go's `select` chooses uniformly among the ready cases, so a case that is ready again and
  again is taken (strong fairness); the runtime serves blocked senders of a channel in order (strong
  fairness of `SendToChannel`); time passes and pushes end (weak fairness). Nobody has to stop.
* GlobalPush: the same, with the steps of `Push` and the polling of `waitForCacheSync`.
* DiscoveryServer: every goroutine of the server goes on; `TakeEvent` and `HandlerEnds` are strongly fair
  for the reason given for `select`. Clients, registries and the operator owe nothing.
* AdsStream: the server processes and the proxy replies (xDS requires an ACK or a NACK).
* Federation: the goroutines of both meshes go on, the importer's ticker fires and it makes a broken watch
  again; an event that waits at Run's `select` beside the ticker is taken in the end (strong fairness). A poll
  of a peer that is there fails at most `MaxFedChanges` times, counted with the other faults, so that polls
  succeed in the end; a poll of a peer that was deleted fails freely. No poll hangs.
* WorkloadEntries: caches catch up, disconnect events and clean-up tasks are served (weak fairness), and the
  periodic clean-up does not for ever miss the moments when its cache is up to date (strong fairness).

## 4. What the runs found

Four statements in the code's own comments do not hold of the code:

* **A Clear between Get and Add does not drop the write** (`xds_cache_cleared`).
  `xds_cache.go:125-127` promises it. The first `Get` stores a token without indexing the key; `Clear`
  removes indexed keys only; so the later `Add` finds its token and stores a stale value.
* **Two pushes may build contexts in parallel** (`extension_push`). `discovery.go:463-466` says they
  must not. The `ServiceMeshExtension` handlers of `bootstrap/server.go:991-1019` call `Push` directly.
  A debounced push started before then writes a context with the old extensions over the new one; in the run's
  trace it is the first push, which builds its context anew. A partial rebuild does the same by the copy
  at `push_context.go:1084`.
  Without extensions the debounce loop is the only caller and `ContextCatchesUp` holds.
* **Merge may take an older context** (`proxy_update_merge`). `push_context.go:364` presumes the second
  request is later. `ProxyUpdate` reads the global context before it enqueues. Without `ProxyUpdate`
  `LaterContextWins` holds (`discovery_fresh`).
* **A delayed task may not run** (`delay_queue_strands`). `delay.go:158` says it will. When the channel has no
  room, `PushDelayed` puts the task on the heap without waking Run, which may just have found the heap empty
  and sleeps until the next push. The agent's rotation queue has no buffer (`secretcache.go:187`), so every
  push to it that does not find Run asleep goes this way. `TasksRunOrStranded` shows that this is the only way.

Smaller observations, most of them stated with the property they qualify:

* Push path. With EDS debouncing off, an EDS push is counted in `InboundUpdates` and never in
  `CommittedUpdates` (`discovery.go:397-400`), although a smaller `CommittedUpdates` is documented as
  "updates we have not yet processed" (`discovery.go:100-101`); `UpdatesAccounted` and `BecomesReady` need it
  on, the default. It may also be overtaken by a full push and enqueue the older context
  (`discovery.go:281`). The delay of a request is bounded by `debounceMax + debounceAfter`, not by `debounceMax`
  as the comment at `discovery.go:340` says (`DelayBounded`). A push whose `InitContext` fails is dropped and
  still counted as committed (`ReadyMeansComplete`). `ConfigUpdate` counts an update and then sends it
  (`discovery.go:332-333`): one counted later may be sent, pushed and committed before it, and then
  `CommittedUpdates` reaches the number `waitForCacheSync` waits for although an update it was
  taken for has not been pushed, contrary to `server.go:886-888`. `ReadyMeansComplete` excludes these (`overtaken`).
* ADS stream. A NACK of a type the proxy has meanwhile unsubscribed from is dereferenced unchecked at
  `ads.go:341`; `Converges` shows that this takes a proxy that drops all names of a type while a response
  it then rejects is under way. The names in a NACK are not looked at (`ads.go:333`). Flow control keeps one
  response outstanding only for a proxy that neither rejects nor changes its names (`OneOutstanding`).
* Connections. When `RegisterWorkload` fails, `initConnection` returns after `addCon` and before `removeCon` is
  deferred (`ads.go:495`): the connection stays in `adsClients` although its stream has ended
  (`AdsClientsActive` allows only connections nothing was ever sent on).
* Delay queue. A failed task is pushed as a new one, so that its count of retries starts again and the
  maximum is never reached (`delay.go:236`). Run's receive on an empty heap appends without restoring the heap
  order. After a stop Run may block for ever handing a task to workers that have left (`delay.go:196`).
* Endpoint shards. Endpoints written to an entry that `deleteService` has removed from the map are not served,
  and a poll that writes after a deletion leaves a shard behind; `ShardsFollowRegistries` excludes exactly
  these. `ServiceAccounts` is replaced by the last cluster's set, although `discovery.go:157` calls it a
  concatenation.
* Kubernetes registry. The entry of a pod that changes its IP in place and is deleted before that is handled
  stays in `podsByIP`. `queueEndpointEvent` pushes the object it read, which a newer one may have
  overtaken (`controller.go:345`); `EndpointsFollow` excludes these behaviours and fails with them. Two more
  came out of the proofs, as the run's five changes are too few for them: when a pod's address changes,
  `pc.update` (`pod.go:207`) removes the entry under its old address whoever has it by then, so that a live
  pod may lose its own (`deprived`, 7 changes); and the endpoints waiting for a pod under an address are not
  handled again when a stale entry of `podsByIP` already names the arriving pod (`skipped`, 8 changes).
* ServiceEntry registry. Handlers read selectors and write the index in two critical sections, and a refresh
  reads the ServiceEntries before it locks, so that the order R,R,W,W the comment at
  `servicediscovery.go:672-675` excludes is possible; `IndexIsRebuilt` excludes these behaviours (`raced`).
  `edsUpdateByKeys` reads the instances under the lock (585-591) and calls `EDSUpdate` or `EDSCacheUpdate` after
  it (594-635): the config goroutine may read the instances of a host, the pod goroutine write one more and give
  the host both, and the config goroutine then give it the older list, without the pod. No stale write is needed
  for this and nothing repeats the newer call. `IndexIsRebuilt` excludes such a host (`reversed`) until it is
  given something newer. A static entry whose last endpoint is taken away (validation allows it) keeps that
  instance in the index until the next rebuild, because `updateExistingInstances` with an empty list (329)
  deletes nothing; `IndexIsRebuilt` allows exactly that. When a WorkloadEntry moves from one ServiceEntry to
  another, `edsUpdateByKeys` (592-604) leaves the endpoint with the first one.
* Federation. `lastMessage` is never set, so every event leads to a full poll. The log line at
  `controller.go:647` dereferences the service of an event, and gateway events have none: the importer crashes
  (`crashed`). `pushWatchEvent` sends while it holds `watchMut`, and a handler that leaves takes `watchMut`: the
  two wait for each other (`ExportJobsFinish` excludes this); `stop` deadlocks with itself in the same way
  when a service is exported. The list is served without the lock (`server.go:195`). Services that trade
  local names are missing until the next poll. A resync skips services that no longer match
  (`server.go:488`).
* WorkloadEntries. A late registration with a stale copy overwrites a newer one (`ConnectedEntryKept` excludes it).
  A failing `RegisterWorkload` leaves `adsConnections` one too high; the periodic clean-up still deletes the
  entry (`EntryCleanedUp`). The maximum connection age is multiplied by 1.5 twice.

## 5. Proofs

The provers check, for every value of the constants that satisfies the named assumptions:

| module | theorem | statement |
|---|---|---|
| `PushQueueProofs` | `MergeCovers` | a merge asks for at least what either part asked for |
| | `QueueSafe` | `Spec => []Inv`, type correctness included |
| | `QueueConsistent`, `PushesDoNotOverlap`, `WakeupsNotLost` | its three parts, invariants of `queues` |
| | `QueueImplementsMailbox` | `Spec => Mailbox!Spec`: the refinement of `queues` |
| `DebounceProofs` | `DebounceSafe` | `DebounceSpec => []IInv` |
| | `PushesNeverOverlap`, `LoopWillWake`, `DelayIsBounded` | the invariants of `debounce` |
| | `UpdatesAlwaysAccounted` | `UpdatesAccounted` of `global_push` |
| | `DebounceTypeCorrect` | type correctness |
| `GlobalPushProofs` | `GlobalImplementsDebounce` | `GlobalSpecWithExtensions => DebounceSpec`: all of the above hold in the composition |
| | `ContextAlwaysComplete` | `ContextComplete` without extension handlers (`extension_push` refutes it with them) |
| | `ContextAlwaysCatchesUp`, `ReadyAlwaysMeansComplete` | the invariants of `global_push` |
| | `ContextAlwaysMovesForward` | the action property of `global_push` |
| `XdsCacheProofs` | `ValuesAlwaysIndexed`, `TokensNeverReused`, `PurgedWritesAlwaysDropped`, `CacheTypeCorrect` | the cache's invariants of `registries`, and its types |
| `DiscoveryServerProofs` | `ServerImplementsQueue` | `ServerSpec => Spec`: the theorems on the push queue hold in the server |
| | `SlotsAlwaysAccounted`, `AdsClientsAlwaysActive`, `ServerTypeCorrect` | the invariants of `discovery_live`, and the types |
| | `ClientsAlwaysFresh`, `LaterContextAlwaysWins` | the invariant and the action property of `discovery_fresh` |
| `DelayQueueProofs` | `NoTaskEverLost` | `NoTaskLost` of `queues` |
| `ProxyProofs` | `ConnectedEntryAlwaysKept` | `ConnectedEntryKept` of `registries` |
| | `StreamAlwaysConverges`, `BlockedPushAlwaysReleased`, `AlwaysOneOutstanding`, `StreamTypeCorrect` | the stream's invariants of `registries`, and its types |
| | `SecretSafe`, `CertificatesRotate` | `SecretSpec => []SecretInv`, and `RotationCoversAll` of `registries` |
| `RegistryProofs` | `ShardsAlwaysFollow` | `ShardsFollowRegistries` of `registries` |
| | `PodCacheAlwaysFollows`, `EndpointsAlwaysFollow` | the Kubernetes registry's invariants of `registries` |
| | `IndexAlwaysRebuilt` | `SESpec => []IndexIsRebuilt`, the ServiceEntry registry's invariant of `registries` |

The assumptions are the `ASSUME`s of the modules: bounds are natural numbers (capacities and the throttle that the
code requires to be positive are), sets of names are what their use needs, and the value that stands for "none" is
no value of the kind. TLC evaluates them in every run. Two theorems on `GlobalPush` and
`DiscoveryServer` have a hypothesis of their own, because the statement is false without it:

* `ContextAlwaysCatchesUp` assumes `EnableEDSDebounce`, the default. An EDS push that is not debounced runs beside
  the loop's pushes and may be the last to announce a context, an older one.
* `ClientsAlwaysFresh` and `LaterContextAlwaysWins` assume `~ProxyUpdates`: the run `proxy_update_merge` shows
  what `ProxyUpdate` does to them.

**Push queue.** The conjunction `Inv` of the type invariant and the three invariants of the run is inductive
as it stands, and each part needs the others: a connection taken from the head has a pending request
(`QueueMatchesPending`), `MarkDone` may append because a connection being processed is not queued
(`OnePushPerConnection`), and a worker that falls asleep has seen an empty queue (`NoLostWakeup`).
`AppendQueue` and `TailQueue` reduce the statements about sequences to facts about `Append` and `Tail`.
For the refinement, what is owed to a connection is its pending request or, while it is processed,
the one merged meanwhile; `Enqueue` implements `Ask`, the head case of `Dequeue` implements `Hand`,
`MarkDone` implements `Done`, and everything else stutters.

**Debounce.** The invariants are not inductive. `IInv` adds that only debounced pushes report on `freeCh`
(so the loop's `free` flag tells whether one is running), that `debouncedEvents` is zero exactly
when there is no request (so a new request always starts a timer), and that a timer running for a waiting
request fires in time, `sinceStart + timer < DebounceMax + DebounceAfter`, from which the bound on the delay
follows. The proof goes case by case of the select loop; `PushWorkerIInv` is shared by the two
cases that call `pushWorker`. `UpdatesAccounted` counts callers and the events of running pushes, and `AInv` adds to
`IInv` what makes the count move by one at a time: goroutines have different numbers, and by `OnePushAtATime`
at most one of them holds events (`EventsOfRunning`).

**Global push.** Every step is a step of `Debounce` or stutters there, so `AInv` holds. `PInv` follows a change of a
kind on its way: for every kind, either the context is up to date with the store, or the change is still coming
(`Coming`: a caller, the channel, the loop's request or a push that has yet to build holds it, or a push has built a
context with it and not written it). A push that builds a context without the kind takes it from the old context,
and what was coming then is still coming, because with `OnePushAtATime` nobody has written another context
between. `RInv` says the same of the changes required for readiness, relative to
`CommittedUpdates`: as long as a required change is coming, fewer than the expected updates are
committed. It is here that overtaking came out, as the statement is not inductive without `~overtaken`.

**XDS cache.** `CacheIInv` needs, beside the three invariants, that stored tokens were issued (`TokensIssued`,
so a new token is new), that a generator that was between `Get` and `Add` at a `ClearAll` holds a token nobody
stores, and that `recency` is a total order on the stored keys whose first is the one to evict, so that an
eviction removes exactly one key with its index entries.

**Discovery server.** Every step is a step of the push queue or stutters there, which gives `Inv`. `SInv` adds
that the slots taken are the pushes in flight, the releases about to happen and the one the sender holds
(`SlotsOK`), that a push is in flight exactly while its event is offered or taken, and taken exactly while the
handler is busy (`EventsOK`), and what a connection is at each stage of `receive` (`Life`: which of
`adsClients`, `initialized` and `open` it is in). For freshness, `FInv` looks at what is on the way to a live
connection from the front (the pusher that has not reached it, what the queue owes it, what is in flight, what
it was served): the first of these that matters to the proxy is no older than the last change (`ServedInTime`),
and likewise for the proxy's state (`StateInTime`). That a request owed is never newer than the context and
merges only grow (`OwedBehindContext`) gives `LaterContextWins`.

**Delay queue.** `NoTaskLost` counts the places a task is in. `DelayInv` says which they are: a task
that was pushed and has not succeeded is in some place (`AllPlaced`), no two places and no two positions of a
channel or of the heap hold it (`PlacesOnce`), and Run's head is empty exactly where its code says (`HeadOK`), so
that taking from one place and putting into another never overwrites a task.

**Endpoint shards.** Between finding and writing, a goroutine may hold shards that are no longer in the map.
`ShardsIInv` says for each cluster that its shard follows the registry, or a goroutine will write it to the
shards in the map, or the write was missed because of a deletion; for polled registries also that a full push
has yet to poll it.

**Kubernetes registry.** For pods, `PodInv`: a live pod is cached under its address or an event of it is still
queued or to be delivered (`PodsCached`), and after any event that would remove the entry, another that restores
it is still to come (`PodsCome`, by the order of notifications). For endpoints, `EpInv`: the last notification
of an object agrees with the informer's store, everything served is listed or will be handled again, and every
address listed is served, or will be handled again (`Redo`), or waits in `needResync` for a pod whose event is
to come. Both properties were false as first stated; section 4 has the two behaviours the attempts showed.

**ServiceEntry registry.** `IndexIsRebuilt` speaks of the moment when nothing is left to do; `SeInv` says what
holds on the way there. It looks not at the index but at what it will be once the goroutines about to update it
have done so (`Will`), since a handler reads, and decides, one critical section before it writes. For every
instance: what a WorkloadEntry, a pod or an entry's own endpoint gives, for the selectors of the index, is what
will be in it, or an event that changes it is still queued (`WlesFollow`, `PodsFollow`, `OwnFollow`); and the
selectors are those of the store, or an event that changes services is queued, or its handler has marked the
index and nobody has rebuilt it yet (`SelectorsFollow`, `Marking`). That the events of an object lead to what
the store has (`SeLinked`, `SeReaches`) makes a queued event as good as its effect. A goroutine that has read
the ServiceEntries has read what is there or a queued event says otherwise (`ReadsOK`), and every instance in
the index or due there is with the XDS server, or a goroutine has its host among its keys, or an event will
bring it, or the host is in `reversed` (`EndpointsGiven`). "With the XDS server" includes what is on the way
(`Given`): a goroutine is about to give it, and read it after everybody else who would give the host without it.
None of this survives a write from a stale read. Such a write is announced: from the moment somebody else
writes, the goroutine that read before is bound to write (`Doomed`), and nothing un-dooms it. So the invariant
is "doomed, or all of the above", and a write that dooms nobody finds no other goroutine about to write
(`WriterAlone`), which is what every case of a write rests on. `SeAssumption` says that entries, WorkloadEntries
and pods are different objects, as a configKey has a kind, and that a label is no missing selector.

**WorkloadEntry controller.** `ConnectedEntryKept` becomes inductive with `VersionsOK`: nobody knows a later
version or connection than there is, and a cached entry with the version of the stored one is that entry. So a
write accepted by the API server was computed from the current entry.

**ADS stream.** The server and the proxy each know part of the truth. `StreamIInv` says that responses are
numbered in the order they are sent, and the watch expects a reply to the last (`NoncesOK`); that the last
request under way has what the proxy wants and last got, so it is not stale once all responses have arrived
(`RequestsOK`); that with nothing under way the two agree on the names (`Agrees`); that the last response,
received or not, is for the names watched and no relevant change came after it that is not owed or blocked
(`LastSentOK`); and that a blocked push waits for a reply to come (`BlockedOK`, `FlowOK`).

**Secret manager.** `RotationCoversAll` needs `GenerateMutexHeld`: at most one stream is between the second look at
the cache and `registerSecret`, and nothing is cached while one is there. Hence the certificate just signed is
the one that is cached, and its task the only one. No assumption on the constants.

Only model-checked: the liveness properties (`EveryRequestServed`, `WorkersExitOnShutdown`, `TasksRunOrStranded`,
`QueueDrains`, `EveryUpdatePushed`, `BecomesReady`, `ImportsConverge`, `ExportJobsFinish`, `EntryCleanedUp`,
`ChangesReachProxy`, `PushesDelivered`, `StreamsCleanedUp`), since the provers do not reason about fairness and `ENABLED`.
Every safety invariant and action property of the passing runs has a theorem. What a recursive
definition computes for every input is out of the provers' reach too; no module uses one.

## 6. Limits of the models

* `InitContext` reads all kinds at one instant. A kind that changes meanwhile has an update of its own on
  the way, which rebuilds it.
* The extension store is updated before the handler's push; in the code two informer handlers do
  the two in no particular order.
* `DiscoveryServer` has one pusher, which `OnePushAtATime` justifies when EDS debouncing is on and there are no
  extensions; contexts are published one after the other there.
* Sends never fail in `AdsStream`: a failing send ends the stream, which `DiscoveryServer` has.
* `DelayQueue` does not tell overdue tasks apart, so the heap may give out any of them.
* `KubeEndpoints`: no EndpointSlices, nodes, `SyncAll` or workload instances; one Endpoints object whose
  addresses all have a pod. Pods in a final phase are handled like deleted ones.
* `ServiceEntries`: one namespace, static resolution, one host per entry; no health, no pods that change labels
  or address, no two objects with one address.
* `EndpointShards`: one service; no service accounts. `Cache.Clear`, which follows the write, is in `XdsCache`.
* `WorkloadEntries`: one workload; no health checks; the uint8 counter `adsConnections` never gets near its limit
  within the bounds.
* `Federation`: one importer; no ports, accounts, gateway addresses or routing resources; a gateway event
  waits until the resync of the same call is done and no other goroutine works under the lock.
* `SecretManager`: no certificates from files, trust bundles or copies on disk.

### Not modelled

* **Leader election, the multicluster secret controller, the aggregate registry**: thin wrappers. The protocol of the
  first is in the vendored client-go; the second is a sequential handler on a work queue that creates registries;
  the third delegates every read.
* **ServiceMeshExtension controller**: only its effect on the push context (`GlobalPush.ChangeExtension`). Its store is a
  plain map that one informer handler writes and others read.
* **Config store**: informers and caches; the push path meets it as a caller of `ConfigUpdate`.
* **Configuration generation** (listeners, routes, clusters, validation, `istioctl`, the operator): large sequential
  translations of data with no state of their own. A model of them would be a transliteration, and most of the
  repository's lines are of this sort, so the part of the lines that these modules map is small.
* **Agent XDS proxy, Envoy agent, status reporter, certificate authority**: I/O on streams, processes, resources and
  keys, with no invariant beyond the ones of the parts they talk to.

## 7. Plan

1. done: the push path (`PushRequest`, `PushMailbox`, `PushQueue`, `Debounce`, `GlobalPush`, `XdsCache`,
   `DiscoveryServer`, `AdsStream`), the queues (`DelayQueue`, `WorkQueue`), the registries (`EndpointShards`,
   `KubeEndpoints`, `ServiceEntries`, `Federation`, `WorkloadEntries`) and `SecretManager`; the proofs of section 5.
2. proofs next: safety properties that stand behind the liveness ones (that a federated import is never older than
   the last poll, that no exporter's job is forgotten), and type correctness of `Federation` and `WorkQueue`.
3. left in the models: health updates (`WorkloadEntries`), EndpointSlices (`KubeEndpoints`), DNS resolution
   (`ServiceEntries`), file-mounted certificates (`SecretManager`).
