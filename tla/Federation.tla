----------------------------- MODULE Federation -----------------------------
(***************************************************************************)
(* Federated service discovery between two meshes: the exporting istiod's  *)
(* meshServer (pkg/servicemesh/federation/server/server.go) and the        *)
(* importing istiod's federation registry                                  *)
(* (pilot/pkg/serviceregistry/federation/controller.go).                   *)
(*                                                                         *)
(* The exporter keeps the services that match its export rules and sends   *)
(* every change to each watcher over an unbuffered channel, holding its    *)
(* lock; the HTTP handler of the watch writes it to the connection.  The   *)
(* importer polls the full list at the start, at every event and at every  *)
(* tick: handleEvent would apply an event to lastMessage, which no code    *)
(* ever sets, so an event is never used for more than that it came.  Only  *)
(* whether it carries a service matters: Run dereferences e.Service.       *)
(*                                                                         *)
(* A service has a version, 0 when it does not exist; it is exported under *)
(* a name, and imported under a local name, by rules that map services to  *)
(* names and names to local names, 0 for no match.  Ports, accounts,       *)
(* gateways, routing resources and status reports are left out.            *)
(***************************************************************************)
EXTENDS Naturals, Sequences, SequencesExt

CONSTANTS Svcs,          \* services of the exporting mesh
          NumNames,      \* exported names, and local names, are 1..NumNames
          MaxVersion,    \* versions of a service are 1..MaxVersion
          Handlers,      \* handleWatch calls
          NetCap,        \* events the connection buffers
          Nobody,        \* no handler, job, service, event or call
          Faults,        \* what may happen besides changes of services
          MaxFedChanges  \* bound: changes and faults

ASSUME FederationAssumption ==
  /\ {NumNames, MaxVersion, NetCap, MaxFedChanges} \subseteq Nat
  /\ Faults \subseteq {"rules", "imports", "gateways", "disconnect", "pollFails", "delete"}

LocalNames == 1..NumNames

VARIABLES env,        \* services of the exporting mesh
          rules,      \* exportConfig
          exported,   \* currentServices
          call,       \* the registry's call of serviceUpdated
          resyncDue,  \* updateExportConfig or UpdateService is about to call resync
          gatewayDue, \* UpdateService will push an event for the network gateways
          job,        \* what the holder of the meshServer's lock has left to do
          undelivered, \* watchers pushWatchEvent has not sent to, per sender
          peer,       \* the mesh is in s.meshes
          stopDue,    \* DeletePeer is about to call stop
          handler,    \* handleWatch calls
          conn,       \* the handler at the other end of the importer's watch
          net,        \* events written and not read
          carried,    \* the event watch is sending on eventCh
          run,        \* the importer's Run and resync
          answer,     \* the list polled
          imports,    \* imports: the local name and version of each exported name
          store,      \* serviceStore: the exported name and version of each local name
          mapping,    \* importNameMapper
          crashed,    \* the importer dereferenced a nil service
          changes

exporterVars == <<env, rules, exported, call, resyncDue, gatewayDue, job, peer, stopDue>>
watchVars == <<undelivered, handler, conn, net>>
importerVars == <<run, answer, imports, store, mapping, crashed>>
fedVars == <<exporterVars, watchVars, carried, importerVars, changes>>

Nothing == [n \in LocalNames |-> Nobody]

Senders == {"job", "gateway"}

NoSends == [k \in Senders |-> {}]

(***************************************************************************)
(* getServiceMessage for the name the export rules give a service.         *)
(***************************************************************************)
Message(s) ==
  IF rules[s] = 0 \/ env[s] = 0 THEN Nobody ELSE [name |-> rules[s], ver |-> env[s]]

(***************************************************************************)
(* Both meshes are up: AddPeer has resynced, and Run is about to.          *)
(***************************************************************************)
FedInit ==
  /\ env = [s \in Svcs |-> 1]
  /\ rules = CHOOSE r \in [Svcs -> LocalNames] : IsInjective(r)
  /\ exported  = [s \in Svcs |-> Message(s)]
  /\ call      = Nobody
  /\ resyncDue = FALSE
  /\ gatewayDue = FALSE
  /\ job       = Nobody
  /\ undelivered = NoSends
  /\ peer      = TRUE
  /\ stopDue   = FALSE
  /\ handler   = [h \in Handlers |-> "free"]
  /\ conn      = Nobody
  /\ net       = <<>>
  /\ carried   = Nobody
  /\ run       = "poll"
  /\ answer    = Nothing
  /\ imports   = Nothing
  /\ store     = Nothing
  /\ mapping   = [n \in LocalNames |-> n]
  /\ crashed   = FALSE
  /\ changes   = 0

Change == changes < MaxFedChanges /\ changes' = changes + 1

Fault(f) == f \in Faults /\ Change

-----------------------------------------------------------------------------
(***************************************************************************)
(* The exporter.  An op is a call of addService, updateService or          *)
(* deleteService: the message currentServices then has for a service, and  *)
(* a watch event.                                                          *)
(***************************************************************************)
Op(s, m) == [svc |-> s, msg |-> m]

Replace(s, m) ==
  IF exported[s] # Nobody /\ exported[s].name # m.name
  THEN <<Op(s, Nobody), Op(s, m)>>
  ELSE <<Op(s, m)>>

(***************************************************************************)
(* A service is created, changed or deleted in the exporting mesh, and the *)
(* registry's queue calls serviceUpdated.                                  *)
(***************************************************************************)
ChangeService(s, ver) ==
  /\ call = Nobody
  /\ ver # env[s]
  /\ Change
  /\ env' = [env EXCEPT ![s] = ver]
  /\ call' = [svc |-> s, add |-> env[s] = 0]
  /\ UNCHANGED <<rules, exported, resyncDue, gatewayDue, job, peer, stopDue, watchVars, carried,
                 importerVars>>

(***************************************************************************)
(* serviceUpdated, once it has the lock.  An added service is added        *)
(* whatever currentServices has, and nothing is done for one that no rule  *)
(* exports.                                                                *)
(***************************************************************************)
ServiceUpdated ==
  LET s == call.svc
      m == Message(s)
      ops == IF m # Nobody THEN (IF call.add THEN <<Op(s, m)>> ELSE Replace(s, m))
             ELSE IF call.add \/ exported[s] = Nobody THEN <<>> ELSE <<Op(s, Nobody)>>
  IN  /\ call # Nobody
      /\ job = Nobody
      /\ call' = Nobody
      /\ job' = IF peer THEN ops ELSE Nobody
      /\ UNCHANGED <<env, rules, exported, resyncDue, gatewayDue, peer, stopDue, watchVars,
                     carried, importerVars, changes>>

(***************************************************************************)
(* UpdateExportsForMesh and DeleteExportsForMesh: updateExportConfig sets  *)
(* the rules under the lock, releases it, and calls resync.                *)
(***************************************************************************)
UpdateExportConfig(r) ==
  /\ peer /\ job = Nobody /\ ~resyncDue
  /\ r # rules
  /\ \A s, t \in Svcs : r[s] = r[t] => s = t \/ r[s] = 0
  /\ Fault("rules")
  /\ rules' = r
  /\ resyncDue' = TRUE
  /\ UNCHANGED <<env, exported, call, gatewayDue, job, peer, stopDue, watchVars, carried,
                 importerVars>>

(***************************************************************************)
(* resync: a service without a message is skipped, also when it is         *)
(* exported.                                                               *)
(***************************************************************************)
Resync ==
  LET differs == {s \in Svcs : Message(s) # Nobody /\ Message(s) # exported[s]}
      order == CHOOSE q \in SetToSeqs(differs) : TRUE
  IN  /\ resyncDue
      /\ job = Nobody
      /\ resyncDue' = FALSE
      /\ job' = FlattenSeq([i \in 1..Len(order) |-> Replace(order[i], Message(order[i]))])
      /\ UNCHANGED <<env, rules, exported, call, gatewayDue, peer, stopDue, watchVars, carried,
                     importerVars, changes>>

(***************************************************************************)
(* pushWatchEvent takes watchMut to read, which waits for a handler that   *)
(* waits for it to write.                                                  *)
(***************************************************************************)
Watchers == {h \in Handlers : handler[h] # "free"}

PushWatchEvent(k) ==
  /\ undelivered[k] = {}
  /\ \A h \in Handlers : handler[h] # "leaving"
  /\ undelivered' = [undelivered EXCEPT ![k] = Watchers]

(***************************************************************************)
(* The next op of the lock's holder.                                       *)
(***************************************************************************)
ApplyOp ==
  /\ job # Nobody /\ job # <<>>
  /\ exported' = [exported EXCEPT ![Head(job).svc] = Head(job).msg]
  /\ job' = Tail(job)
  /\ PushWatchEvent("job")
  /\ UNCHANGED <<env, rules, call, resyncDue, gatewayDue, peer, stopDue, handler, conn, net,
                 carried, importerVars, changes>>

FinishJob ==
  /\ job = <<>> /\ undelivered["job"] = {}
  /\ job' = Nobody
  /\ UNCHANGED <<env, rules, exported, call, resyncDue, gatewayDue, peer, stopDue, watchVars,
                 carried, importerVars, changes>>

(***************************************************************************)
(* UpdateService, in the registry's goroutine, when the network gateways   *)
(* changed: resync, and once that is done an event without a service,      *)
(* pushed without the meshServer's lock.                                   *)
(***************************************************************************)
GatewaysChanged ==
  /\ peer /\ call = Nobody /\ ~resyncDue /\ ~gatewayDue
  /\ Fault("gateways")
  /\ resyncDue' = TRUE
  /\ gatewayDue' = TRUE
  /\ UNCHANGED <<env, rules, exported, call, job, peer, stopDue, watchVars, carried,
                 importerVars>>

PushGateways ==
  /\ gatewayDue /\ ~resyncDue /\ job = Nobody
  /\ gatewayDue' = FALSE
  /\ PushWatchEvent("gateway")
  /\ UNCHANGED <<env, rules, exported, call, resyncDue, job, peer, stopDue, handler, conn, net,
                 carried, importerVars, changes>>

(***************************************************************************)
(* w <- e: the send to a watcher and the receive in its handler.           *)
(***************************************************************************)
SendEvent(k, h) ==
  /\ h \in undelivered[k]
  /\ handler[h] = "select"
  /\ undelivered' = [undelivered EXCEPT ![k] = @ \ {h}]
  /\ handler' = [handler EXCEPT ![h] = k]
  /\ UNCHANGED <<exporterVars, conn, net, carried, importerVars, changes>>

(***************************************************************************)
(* handleWatch writes the event; a failed write, or the end of the         *)
(* request, makes it leave; its deferred function takes watchMut to write. *)
(***************************************************************************)
WriteEvent(h) ==
  /\ handler[h] \in Senders
  /\ conn = h /\ Len(net) < NetCap
  /\ net' = Append(net, handler[h])
  /\ handler' = [handler EXCEPT ![h] = "select"]
  /\ UNCHANGED <<exporterVars, undelivered, conn, carried, importerVars, changes>>

LeaveWatch(h) ==
  /\ handler[h] \in Senders \cup {"select"}
  /\ conn # h
  /\ handler' = [handler EXCEPT ![h] = "leaving"]
  /\ UNCHANGED <<exporterVars, undelivered, conn, net, carried, importerVars, changes>>

Unregister(h) ==
  /\ handler[h] = "leaving"
  /\ undelivered = NoSends
  /\ handler' = [handler EXCEPT ![h] = "free"]
  /\ UNCHANGED <<exporterVars, undelivered, conn, net, carried, importerVars, changes>>

(***************************************************************************)
(* DeletePeer: the mesh leaves s.meshes, and stop takes both locks.  With  *)
(* a service exported it calls deleteService, whose pushWatchEvent waits   *)
(* for the watchMut stop holds: nothing more happens, and the locks stay   *)
(* taken.  Without one it closes the channels, from which the handlers     *)
(* read nil events; they are sent as one here.                             *)
(***************************************************************************)
DeletePeer ==
  /\ peer
  /\ Fault("delete")
  /\ peer' = FALSE
  /\ stopDue' = TRUE
  /\ UNCHANGED <<env, rules, exported, call, resyncDue, gatewayDue, job, watchVars, carried,
                 importerVars>>

Stop ==
  /\ stopDue /\ job = Nobody /\ undelivered = NoSends
  /\ stopDue' = FALSE
  /\ \/ \E s \in Svcs : /\ exported[s] # Nobody
                       /\ exported' = [exported EXCEPT ![s] = Nobody]
                       /\ job' = <<>> /\ undelivered' = [undelivered EXCEPT !["job"] = {Nobody}]
     \/ /\ \A s \in Svcs : exported[s] = Nobody
        /\ undelivered' = [undelivered EXCEPT !["gateway"] = Watchers]
        /\ UNCHANGED <<exported, job>>
  /\ UNCHANGED <<env, rules, call, resyncDue, gatewayDue, peer, handler, conn, net, carried,
                 importerVars, changes>>

-----------------------------------------------------------------------------
(***************************************************************************)
(* The importer's watch goroutine: connect, which registers the handler    *)
(* under watchMut, read an event, and send it to Run.                      *)
(***************************************************************************)
Connect(h) ==
  /\ conn = Nobody /\ ~crashed /\ carried = Nobody
  /\ peer
  /\ handler[h] = "free"
  /\ undelivered = NoSends
  /\ conn' = h
  /\ net' = <<>>
  /\ handler' = [handler EXCEPT ![h] = "select"]
  /\ UNCHANGED <<exporterVars, undelivered, carried, importerVars, changes>>

Disconnect ==
  /\ conn # Nobody
  /\ Fault("disconnect")
  /\ conn' = Nobody
  /\ net' = <<>>
  /\ UNCHANGED <<exporterVars, undelivered, handler, carried, importerVars>>

ReadEvent ==
  /\ net # <<>> /\ carried = Nobody
  /\ carried' = Head(net)
  /\ net' = Tail(net)
  /\ UNCHANGED <<exporterVars, undelivered, handler, conn, importerVars, changes>>

(***************************************************************************)
(* Run receives an event: it names the event's service in a log line, and  *)
(* handleEvent polls the list.                                             *)
(***************************************************************************)
HandleEvent ==
  /\ carried # Nobody
  /\ run = "select"
  /\ carried' = Nobody
  /\ IF carried = "gateway"
     THEN crashed' = TRUE /\ run' = "dead" /\ conn' = Nobody /\ net' = <<>>
     ELSE run' = "poll" /\ UNCHANGED <<crashed, conn, net>>
  /\ UNCHANGED <<exporterVars, undelivered, handler, answer, imports, store, mapping, changes>>

(***************************************************************************)
(* The ticker of Run, and UpdateImportConfig: both resync.                 *)
(***************************************************************************)
\* Variant with a bug: the ticker is stopped.
RefreshNever ==
  /\ run = "never"
  /\ run' = "poll"
  /\ UNCHANGED <<exporterVars, watchVars, carried, answer, imports, store, mapping,
                 crashed, changes>>

Refresh ==
  /\ run = "select"
  /\ run' = "poll"
  /\ UNCHANGED <<exporterVars, watchVars, carried, answer, imports, store, mapping,
                 crashed, changes>>

UpdateImportConfig(m) ==
  /\ run = "select"
  /\ m # mapping
  /\ \A a, b \in LocalNames : m[a] = m[b] => a = b \/ m[a] = 0
  /\ Fault("imports")
  /\ mapping' = m
  /\ run' = "poll"
  /\ UNCHANGED <<exporterVars, watchVars, carried, answer, imports, store, crashed>>

(***************************************************************************)
(* pollServices: the exporter's handleServiceList reads currentServices    *)
(* without the meshServer's lock, also between two ops of a job.           *)
(***************************************************************************)
ServiceList ==
  [n \in LocalNames |->
     IF \E s \in Svcs : exported[s] # Nobody /\ exported[s].name = n
     THEN exported[CHOOSE s \in Svcs : exported[s] # Nobody /\ exported[s].name = n].ver
     ELSE Nobody]

\* Variant with a bug: the list is read under the meshServer's lock.
PollServicesLocked ==
  /\ run = "poll" /\ peer /\ job = Nobody
  /\ answer' = ServiceList
  /\ run' = "apply"
  /\ UNCHANGED <<exporterVars, watchVars, carried, imports, store, mapping, crashed, changes>>

PollServices ==
  /\ run = "poll" /\ peer
  /\ answer' = ServiceList
  /\ run' = "apply"
  /\ UNCHANGED <<exporterVars, watchVars, carried, imports, store, mapping, crashed, changes>>

PollFails ==
  /\ run = "poll"
  /\ IF peer THEN Fault("pollFails") ELSE UNCHANGED changes
  /\ run' = "select"
  /\ UNCHANGED <<exporterVars, watchVars, carried, answer, imports, store, mapping, crashed>>

(***************************************************************************)
(* convertServices: addService or updateService for every name in the      *)
(* list, in order, then deleteService for the imports that are left.  A    *)
(* removed local name is removed whoever has it by then.                   *)
(***************************************************************************)
Drop(st, import) == IF import = Nobody THEN st ELSE [st EXCEPT ![import.local] = Nobody]

UpdateService(st, n) ==
  LET l == mapping[n] IN
  IF answer[n] = Nobody THEN st
  ELSE IF l = 0 THEN Drop(st, imports[n])
  ELSE [(IF imports[n] # Nobody /\ imports[n].local # l THEN Drop(st, imports[n]) ELSE st)
          EXCEPT ![l] = [name |-> n, ver |-> answer[n]]]

NewImports ==
  [n \in LocalNames |-> IF answer[n] = Nobody \/ mapping[n] = 0 THEN Nobody
                   ELSE [local |-> mapping[n], ver |-> answer[n]]]

Remaining == {n \in LocalNames : imports[n] # Nobody /\ NewImports[n] = Nobody}

ConvertServices ==
  LET updated == FoldLeft(UpdateService, store, [n \in LocalNames |-> n])
      removed == {imports[n].local : n \in Remaining}
  IN  /\ run = "apply"
      /\ imports' = NewImports
      /\ store' = [l \in LocalNames |-> IF l \in removed THEN Nobody ELSE updated[l]]
      /\ run' = "select"
      /\ UNCHANGED <<exporterVars, watchVars, carried, answer, mapping, crashed, changes>>

-----------------------------------------------------------------------------
ExporterStep == Stop \/ ServiceUpdated \/ Resync \/ PushGateways \/ ApplyOp \/ FinishJob

HandlerStep(h) ==
  (\E k \in Senders : SendEvent(k, h)) \/ WriteEvent(h) \/ LeaveWatch(h) \/ Unregister(h)

ResyncStep == PollServices \/ (~peer /\ PollFails) \/ ConvertServices

FedNext ==
  \/ \E s \in Svcs, v \in 0..MaxVersion : ChangeService(s, v)
  \/ \E r \in [Svcs -> 0..NumNames] : UpdateExportConfig(r)
  \/ \E m \in [LocalNames -> 0..NumNames] : UpdateImportConfig(m)
  \/ GatewaysChanged \/ DeletePeer \/ Disconnect \/ PollFails
  \/ ExporterStep
  \/ \E h \in Handlers : HandlerStep(h) \/ Connect(h)
  \/ ReadEvent \/ HandleEvent \/ Refresh \/ PollServices \/ ConvertServices

-----------------------------------------------------------------------------
(***************************************************************************)
(* The importer's registry has exactly the services the exporter exports,  *)
(* under the names the import rules give them.                             *)
(***************************************************************************)
Imported ==
  store = [l \in LocalNames |->
    IF \E n \in LocalNames : mapping[n] = l /\ ServiceList[n] # Nobody
    THEN LET n == CHOOSE n \in LocalNames : mapping[n] = l IN [name |-> n, ver |-> ServiceList[n]]
    ELSE Nobody]

(***************************************************************************)
(* When changes stop the importer ends up with what is exported, for ever: *)
(* although events are lost between the first poll and the watch and when  *)
(* the connection breaks, polls fail and overtake changes, and services    *)
(* that trade local names are removed from the store for a while.  Not     *)
(* when a poll hangs for ever, the peer is deleted, or an event without a  *)
(* service comes.                                                          *)
(***************************************************************************)
ImportsConverge ==
  []<>(run # "poll") => <>[](Imported \/ crashed \/ ~peer)

(***************************************************************************)
(* Every change of the exports gets to all watchers and the lock is        *)
(* released, although a watcher's connection can be full while its         *)
(* importer waits for the list.  Not when the handler of a watcher leaves  *)
(* while the event is being sent: the sender waits for the handler and the *)
(* handler for the sender.                                                 *)
(***************************************************************************)
ExportJobsFinish ==
  job # Nobody ~>
    \/ job = Nobody
    \/ ~peer
    \/ \E k \in Senders : \E h \in undelivered[k] : handler[h] = "leaving"
=============================================================================
