--------------------------- MODULE DiscoveryServer ---------------------------
(***************************************************************************)
(* DiscoveryServer (pilot/pkg/xds/discovery.go and ads.go): how a new push *)
(* context reaches the connected proxies.  It composes the push queue with *)
(* the goroutine that throttles pushes (doSendPushes), the two goroutines  *)
(* of every connection (Stream and receive), the table adsClients, and the *)
(* callers of Enqueue (Push and ProxyUpdate).                              *)
(*                                                                         *)
(* Push contexts are numbered in the order they are published.  EDS        *)
(* debouncing is on and there are no extensions, which is the default; by  *)
(* OnePushAtATime (Debounce) pushes do not overlap then, so one pusher is  *)
(* enough.  What a proxy holds is abstracted to the context it was         *)
(* generated from.  Flow control is off, which is the default too (see     *)
(* AdsStream).                                                             *)
(***************************************************************************)
EXTENDS PushQueue, FiniteSets

CONSTANTS Interests,     \* per connection, the configurations its proxy depends on
          PushThrottle,  \* the capacity of concurrentPushLimit
          ProxyUpdates,  \* may registries call ProxyUpdate?
          InitMayFail,   \* may RegisterWorkload fail in initProxyState?
          MayStop,       \* may the server be stopped?
          MaxContexts    \* bound: push contexts published in a behaviour

ASSUME ServerAssumption ==
  /\ Interests \in [Connections -> SUBSET Configs]
  /\ PushThrottle \in Nat \ {0}
  /\ ProxyUpdates \in BOOLEAN
  /\ InitMayFail \in BOOLEAN
  /\ MayStop \in BOOLEAN
  /\ MaxContexts \in Nat \ {0}
  /\ Versions = 1..MaxContexts

VARIABLES ctx,          \* the global push context
          changedAt,    \* per configuration, the context that first had its last change
          pusher,       \* the goroutine running Push
          proxyUpdate,  \* the goroutine running ProxyUpdate, between its read and Enqueue
          slots,        \* tokens in concurrentPushLimit
          sender,       \* the goroutine running doSendPushes
          releasing,    \* done functions between MarkDone and the semaphore read
          stopCh,       \* closed?
          event,        \* per connection, where its push event is
          adsClients,
          initialized,  \* connections whose channel initialized is closed
          open,         \* connections whose stream context is not done
          recv,         \* per connection, where receive is
          handler,      \* per connection, where Stream is
          reqChannel,   \* connections with a request in reqChannel
          watched,      \* connections with a WatchedResource
          proxyState,   \* the context of the last setProxyState, 0 before
          served        \* the context the proxy's configuration was generated from

queueVars  == vars
pushVars   == <<ctx, changedAt, pusher, proxyUpdate>>
sendVars   == <<slots, sender, releasing, stopCh>>
conVars    == <<adsClients, initialized, open, recv, handler, reqChannel, watched,
                proxyState, served>>
serverVars == <<queueVars, pushVars, sendVars, event, conVars>>

NoUpdate == [con |-> Absent, req |-> NoRequest]

ServerInit ==
  /\ Init
  /\ ctx         = 1
  /\ changedAt   = [k \in Configs |-> 1]
  /\ pusher      = [pc |-> "idle", req |-> NoRequest, todo |-> {}]
  /\ proxyUpdate = NoUpdate
  /\ slots       = 0
  /\ sender      = "loop"
  /\ releasing   = 0
  /\ stopCh      = FALSE
  /\ event       = [c \in Connections |-> "none"]
  /\ adsClients  = {}
  /\ initialized = {}
  /\ open        = {}
  /\ recv        = [c \in Connections |-> "off"]
  /\ handler     = [c \in Connections |-> "off"]
  /\ reqChannel  = {}
  /\ watched     = {}
  /\ proxyState  = [c \in Connections |-> 0]
  /\ served      = [c \in Connections |-> 0]

-----------------------------------------------------------------------------
(***************************************************************************)
(* Push: publish a new context (or keep the old one for an EDS push), then *)
(* AdsPushAll: list the clients and enqueue them one by one.               *)
(***************************************************************************)
PushFull(ks) ==
  /\ pusher.pc = "idle"
  /\ ctx < MaxContexts
  /\ ctx' = ctx + 1
  /\ changedAt' = [k \in Configs |-> IF ks = {} \/ k \in ks THEN ctx + 1 ELSE changedAt[k]]
  /\ pusher' = [pc |-> "list", todo |-> {},
                req |-> [full |-> TRUE, push |-> ctx + 1, configs |-> ks]]
  /\ UNCHANGED <<queueVars, proxyUpdate, sendVars, event, conVars>>

\* Variant with a bug: EDS pushes use the context of the start.
PushEDSFirstContext ==
  /\ pusher.pc = "idle"
  /\ pusher' = [pc |-> "list", todo |-> {},
                req |-> [full |-> FALSE, push |-> 1, configs |-> {}]]
  /\ UNCHANGED <<queueVars, ctx, changedAt, proxyUpdate, sendVars, event, conVars>>

PushEDS ==
  /\ pusher.pc = "idle"
  /\ pusher' = [pc |-> "list", todo |-> {},
                req |-> [full |-> FALSE, push |-> ctx, configs |-> {}]]
  /\ UNCHANGED <<queueVars, ctx, changedAt, proxyUpdate, sendVars, event, conVars>>

\* Variant with a bug: Clients, without those being initialized, for AllClients.
ListInitializedClients ==
  /\ pusher.pc = "list"
  /\ pusher' = [pusher EXCEPT !.pc = "enqueue", !.todo = adsClients \cap initialized]
  /\ UNCHANGED <<queueVars, ctx, changedAt, proxyUpdate, sendVars, event, conVars>>

ListClients ==
  /\ pusher.pc = "list"
  /\ pusher' = [pusher EXCEPT !.pc = "enqueue", !.todo = adsClients]
  /\ UNCHANGED <<queueVars, ctx, changedAt, proxyUpdate, sendVars, event, conVars>>

EnqueueOrIgnore(c, r) ==
  Enqueue(c, r) \/ (shuttingDown /\ UNCHANGED queueVars)

EnqueueClient(c) ==
  /\ pusher.pc = "enqueue"
  /\ c \in pusher.todo
  /\ EnqueueOrIgnore(c, pusher.req)
  /\ pusher' = [pusher EXCEPT !.todo = @ \ {c}]
  /\ UNCHANGED <<ctx, changedAt, proxyUpdate, sendVars, event, conVars>>

PushEnds ==
  /\ pusher.pc = "enqueue"
  /\ pusher.todo = {}
  /\ pusher' = [pc |-> "idle", req |-> NoRequest, todo |-> {}]
  /\ UNCHANGED <<queueVars, ctx, changedAt, proxyUpdate, sendVars, event, conVars>>

(***************************************************************************)
(* ProxyUpdate(clusterID, ip): find an initialized client, read the global *)
(* context, enqueue.                                                       *)
(***************************************************************************)
ProxyUpdateRead(c) ==
  /\ ProxyUpdates
  /\ proxyUpdate = NoUpdate
  /\ c \in adsClients \cap initialized
  /\ proxyUpdate' = [con |-> c, req |-> [full |-> TRUE, push |-> ctx, configs |-> {}]]
  /\ UNCHANGED <<queueVars, ctx, changedAt, pusher, sendVars, event, conVars>>

ProxyUpdateEnqueue ==
  /\ proxyUpdate # NoUpdate
  /\ EnqueueOrIgnore(proxyUpdate.con, proxyUpdate.req)
  /\ proxyUpdate' = NoUpdate
  /\ UNCHANGED <<ctx, changedAt, pusher, sendVars, event, conVars>>

-----------------------------------------------------------------------------

(***************************************************************************)
(* doSendPushes: unless stopped, take a slot (which blocks while there is  *)
(* none, whatever stopCh does meanwhile), dequeue, start a goroutine that  *)
(* offers the event to the connection.                                     *)
(***************************************************************************)
SenderLoops ==
  /\ sender = "loop"
  /\ sender' = IF stopCh THEN "exited" ELSE "acquire"
  /\ UNCHANGED <<queueVars, pushVars, slots, releasing, stopCh, event, conVars>>

SenderAcquires ==
  /\ sender = "acquire"
  /\ slots < PushThrottle
  /\ slots'  = slots + 1
  /\ sender' = "dequeue"
  /\ UNCHANGED <<queueVars, pushVars, releasing, stopCh, event, conVars>>

SenderDequeues(w) ==
  /\ sender = "dequeue"
  /\ Dequeue(w)
  /\ IF queue # <<>>
     THEN event' = [event EXCEPT ![Head(queue)] = "offered"] /\ sender' = "loop"
     ELSE sender' = (IF shuttingDown THEN "exited" ELSE sender) /\ UNCHANGED event
  /\ UNCHANGED <<pushVars, slots, releasing, stopCh, conVars>>

\* Variant with a bug: the slot is not given back.
DoneKeepsSlot(c) ==
  /\ MarkDone(c)
  /\ event' = [event EXCEPT ![c] = "none"]
  /\ UNCHANGED releasing

(***************************************************************************)
(* doneFunc: MarkDone, then give the slot back.                            *)
(***************************************************************************)
Done(c) ==
  /\ MarkDone(c)
  /\ releasing' = releasing + 1
  /\ event' = [event EXCEPT ![c] = "none"]

ReleaseSlot ==
  /\ releasing > 0
  /\ releasing' = releasing - 1
  /\ slots' = slots - 1
  /\ UNCHANGED <<queueVars, pushVars, sender, stopCh, event, conVars>>

\* Variants with a bug: a dropped event keeps its slot, or is never dropped.
EventDroppedKeepsSlot(c) ==
  /\ event[c] = "offered"
  /\ c \notin open
  /\ MarkDone(c)
  /\ event' = [event EXCEPT ![c] = "none"]
  /\ UNCHANGED <<pushVars, sendVars, conVars>>

EventNeverDropped(c) == FALSE

(***************************************************************************)
(* The event goroutine sees that the stream is closed.                     *)
(***************************************************************************)
EventDropped(c) ==
  /\ event[c] = "offered"
  /\ c \notin open
  /\ Done(c)
  /\ UNCHANGED <<pushVars, slots, sender, stopCh, conVars>>

(***************************************************************************)
(* The server stops: stopCh is closed and Shutdown is called.              *)
(***************************************************************************)
CloseStopCh ==
  /\ MayStop
  /\ ~stopCh
  /\ stopCh' = TRUE
  /\ UNCHANGED <<queueVars, pushVars, slots, sender, releasing, event, conVars>>

Shutdown ==
  /\ stopCh
  /\ ShutDown
  /\ UNCHANGED <<pushVars, sendVars, event, conVars>>

-----------------------------------------------------------------------------
(***************************************************************************)
(* A connection: Stream starts receive and waits for initialized (a stream *)
(* refused before that, because the server is not ready or the peer is not *)
(* authenticated, leaves no trace).                                        *)
(***************************************************************************)
Connect(c) ==
  /\ handler[c] = "off"
  /\ handler' = [handler EXCEPT ![c] = "wait"]
  /\ recv'    = [recv EXCEPT ![c] = "first"]
  /\ open'    = open \cup {c}
  /\ UNCHANGED <<queueVars, pushVars, sendVars, event, adsClients, initialized,
                 reqChannel, watched, proxyState, served>>

ClientCloses(c) ==
  /\ c \in open
  /\ open' = open \ {c}
  /\ UNCHANGED <<queueVars, pushVars, sendVars, event, adsClients, initialized, recv,
                 handler, reqChannel, watched, proxyState, served>>

(***************************************************************************)
(* receive returns: its deferred functions close reqChannel and, if need   *)
(* be, initialized; remove says whether removeCon was deferred too.        *)
(***************************************************************************)
ReceiveReturns(c, remove) ==
  /\ recv'        = [recv EXCEPT ![c] = "done"]
  /\ initialized' = initialized \cup {c}
  /\ adsClients'  = IF remove THEN adsClients \ {c} ELSE adsClients

(***************************************************************************)
(* The first request: initConnection up to and including addCon, unless    *)
(* the node, its metadata or its identity is refused.                      *)
(***************************************************************************)
AddCon(c) ==
  /\ recv[c] = "first"
  /\ c \in open
  /\ recv' = [recv EXCEPT ![c] = "registered"]
  /\ adsClients' = adsClients \cup {c}
  /\ UNCHANGED <<queueVars, pushVars, sendVars, event, initialized, open, handler,
                 reqChannel, watched, proxyState, served>>

RefuseConnection(c) ==
  /\ recv[c] = "first"
  /\ c \in open
  /\ ReceiveReturns(c, FALSE)
  /\ UNCHANGED <<queueVars, pushVars, sendVars, event, open, handler, reqChannel,
                 watched, proxyState, served>>

(***************************************************************************)
(* initProxyState computes the proxy's state from the global context as it *)
(* is then; a moment later initialized is closed and the request is passed *)
(* on (or not, if the stream is closed).  When RegisterWorkload fails,     *)
(* receive returns and removeCon is not yet deferred.                      *)
(***************************************************************************)
InitProxyState(c) ==
  /\ recv[c] = "registered"
  /\ proxyState' = [proxyState EXCEPT ![c] = ctx]
  /\ recv'       = [recv EXCEPT ![c] = "computed"]
  /\ UNCHANGED <<queueVars, pushVars, sendVars, event, adsClients, initialized, open,
                 handler, reqChannel, watched, served>>

CloseInitialized(c) ==
  /\ recv[c] = "computed"
  /\ initialized' = initialized \cup {c}
  /\ recv'        = [recv EXCEPT ![c] = "loop"]
  /\ \/ reqChannel' = reqChannel \cup {c}
     \/ c \notin open /\ UNCHANGED reqChannel
  /\ UNCHANGED <<queueVars, pushVars, sendVars, event, adsClients, open, handler,
                 watched, proxyState, served>>

InitProxyStateFails(c) ==
  /\ InitMayFail
  /\ recv[c] = "registered"
  /\ ReceiveReturns(c, FALSE)
  /\ UNCHANGED <<queueVars, pushVars, sendVars, event, open, handler, reqChannel,
                 watched, proxyState, served>>

(***************************************************************************)
(* receive passes on another request; the channel holds one.               *)
(***************************************************************************)
ReceiveRequest(c) ==
  /\ recv[c] = "loop"
  /\ c \in open
  /\ c \notin reqChannel
  /\ reqChannel' = reqChannel \cup {c}
  /\ UNCHANGED <<queueVars, pushVars, sendVars, event, adsClients, initialized, open,
                 recv, handler, watched, proxyState, served>>

\* Variant with a bug: removeCon is not called.
ReceiveEndsForgets(c) ==
  /\ recv[c] \in {"first", "loop"}
  /\ c \notin open
  /\ ReceiveReturns(c, FALSE)
  /\ UNCHANGED <<queueVars, pushVars, sendVars, event, open, handler, reqChannel,
                 watched, proxyState, served>>

(***************************************************************************)
(* Recv fails because the stream is closed.                                *)
(***************************************************************************)
ReceiveEnds(c) ==
  /\ recv[c] \in {"first", "loop"}
  /\ c \notin open
  /\ ReceiveReturns(c, recv[c] = "loop")
  /\ UNCHANGED <<queueVars, pushVars, sendVars, event, open, handler, reqChannel,
                 watched, proxyState, served>>

-----------------------------------------------------------------------------
(***************************************************************************)
(* Stream: wait for initialized, then serve requests and events.  When it  *)
(* returns, gRPC ends the stream's context.                                *)
(***************************************************************************)
HandlerStarts(c) ==
  /\ handler[c] = "wait"
  /\ c \in initialized
  /\ handler' = [handler EXCEPT ![c] = "select"]
  /\ UNCHANGED <<queueVars, pushVars, sendVars, event, adsClients, initialized, open,
                 recv, reqChannel, watched, proxyState, served>>

HandlerReturns(c) ==
  /\ handler' = [handler EXCEPT ![c] = "returned"]
  /\ open' = open \ {c}

(***************************************************************************)
(* reqChannel is closed and drained, or the debug handle con.stop is used. *)
(***************************************************************************)
HandlerEnds(c) ==
  /\ handler[c] = "select"
  /\ recv[c] = "done" /\ c \notin reqChannel
  /\ HandlerReturns(c)
  /\ UNCHANGED <<queueVars, pushVars, sendVars, event, adsClients, initialized, recv,
                 reqChannel, watched, proxyState, served>>

StopConnection(c) ==
  /\ handler[c] = "select"
  /\ HandlerReturns(c)
  /\ UNCHANGED <<queueVars, pushVars, sendVars, event, adsClients, initialized, recv,
                 reqChannel, watched, proxyState, served>>

(***************************************************************************)
(* processRequest: a request for resources is answered from the global     *)
(* context, and a send that fails ends the stream; another is an ACK or a  *)
(* health report, or the last one the proxy unsubscribes with.             *)
(***************************************************************************)
ProcessRequest(c) ==
  /\ handler[c] = "select"
  /\ c \in reqChannel
  /\ reqChannel' = reqChannel \ {c}
  /\ \/ UNCHANGED <<watched, served, handler, open>>
     \/ watched' = watched \ {c} /\ UNCHANGED <<served, handler, open>>
     \/ /\ watched' = watched \cup {c}
        /\ \/ served' = [served EXCEPT ![c] = ctx] /\ UNCHANGED <<handler, open>>
           \/ HandlerReturns(c) /\ UNCHANGED served
  /\ UNCHANGED <<queueVars, pushVars, sendVars, event, adsClients, initialized, recv,
                 proxyState>>

TakeEvent(c) ==
  /\ handler[c] = "select"
  /\ event[c] = "offered"
  /\ handler' = [handler EXCEPT ![c] = "busy"]
  /\ event'   = [event EXCEPT ![c] = "taken"]
  /\ UNCHANGED <<queueVars, pushVars, sendVars, adsClients, initialized, open, recv,
                 reqChannel, watched, proxyState, served>>

(***************************************************************************)
(* pushConnection and then pushEv.done().  A full push updates the proxy;  *)
(* what it needs is generated and sent for the types it watches.           *)
(***************************************************************************)
ProxyNeedsPush(c, r) == r.configs = {} \/ r.configs \cap Interests[c] # {}

PushConnection(c) ==
  LET r == inFlight[c]
  IN  /\ handler[c] = "busy"
      /\ proxyState' = [proxyState EXCEPT ![c] = IF r.full THEN r.push ELSE @]
      /\ \/ /\ ProxyNeedsPush(c, r) /\ c \in watched
            /\ \/ /\ served' = [served EXCEPT ![c] = IF r.full THEN r.push ELSE @]
                  /\ handler' = [handler EXCEPT ![c] = "select"]
                  /\ UNCHANGED open
               \/ HandlerReturns(c) /\ UNCHANGED served
         \/ /\ ~(ProxyNeedsPush(c, r) /\ c \in watched)
            /\ handler' = [handler EXCEPT ![c] = "select"]
            /\ UNCHANGED <<open, served>>
      /\ Done(c)
      /\ UNCHANGED <<pushVars, slots, sender, stopCh, adsClients, initialized, recv,
                     reqChannel, watched>>

-----------------------------------------------------------------------------
Receive(c) ==
  \/ AddCon(c) \/ RefuseConnection(c)
  \/ InitProxyState(c) \/ CloseInitialized(c) \/ InitProxyStateFails(c)
  \/ ReceiveRequest(c) \/ ReceiveEnds(c)

Stream(c) ==
  \/ HandlerStarts(c) \/ HandlerEnds(c) \/ StopConnection(c)
  \/ ProcessRequest(c) \/ TakeEvent(c) \/ PushConnection(c)

ServerNext ==
  \/ \E ks \in SUBSET Configs : PushFull(ks)
  \/ PushEDS \/ ListClients \/ PushEnds
  \/ ProxyUpdateEnqueue
  \/ SenderLoops \/ SenderAcquires \/ ReleaseSlot
  \/ \E w \in Workers : SenderDequeues(w)
  \/ CloseStopCh \/ Shutdown
  \/ \E c \in Connections :
       \/ EnqueueClient(c) \/ ProxyUpdateRead(c) \/ EventDropped(c)
       \/ Connect(c) \/ ClientCloses(c)
       \/ Receive(c) \/ Stream(c)

ServerSpec == ServerInit /\ [][ServerNext]_serverVars

(***************************************************************************)
(* The goroutines of the server go on: Push, ProxyUpdate, doSendPushes,    *)
(* the done functions, the one that offers an event, receive and Stream,   *)
(* whose select does not ignore an offered event or the end of reqChannel  *)
(* for ever.  Clients, registries and the operator owe nothing.            *)
(***************************************************************************)
ServerFairness ==
  /\ WF_serverVars(ListClients \/ PushEnds \/ \E c \in Connections : EnqueueClient(c))
  /\ WF_serverVars(ProxyUpdateEnqueue)
  /\ WF_serverVars(SenderLoops \/ SenderAcquires \/ \E w \in Workers : SenderDequeues(w))
  /\ WF_serverVars(ReleaseSlot)
  /\ \A c \in Connections :
       /\ WF_serverVars(EventDropped(c))
       /\ WF_serverVars(InitProxyState(c) \/ CloseInitialized(c) \/ ReceiveEnds(c))
       /\ WF_serverVars(HandlerStarts(c) \/ PushConnection(c))
       /\ SF_serverVars(HandlerEnds(c))
       /\ SF_serverVars(TakeEvent(c))

ServerFairSpec == ServerSpec /\ ServerFairness

-----------------------------------------------------------------------------
ServerTypeOK ==
  /\ TypeOK
  /\ ctx         \in Versions
  /\ changedAt   \in [Configs -> Versions]
  /\ pusher      \in [pc : {"idle", "list", "enqueue"}, req : MaybeRequests,
                      todo : SUBSET Connections]
  /\ proxyUpdate \in [con : Connections, req : Requests] \cup {NoUpdate}
  /\ slots       \in 0..PushThrottle
  /\ sender      \in {"loop", "acquire", "dequeue", "exited"}
  /\ releasing   \in 0..PushThrottle
  /\ stopCh      \in BOOLEAN
  /\ event       \in [Connections -> {"none", "offered", "taken"}]
  /\ adsClients  \in SUBSET Connections
  /\ initialized \in SUBSET Connections
  /\ open        \in SUBSET Connections
  /\ recv        \in [Connections -> {"off", "first", "registered", "computed", "loop", "done"}]
  /\ handler     \in [Connections -> {"off", "wait", "select", "busy", "returned"}]
  /\ reqChannel  \in SUBSET Connections
  /\ watched     \in SUBSET Connections
  /\ proxyState  \in [Connections -> 0..MaxContexts]
  /\ served      \in [Connections -> 0..MaxContexts]

(***************************************************************************)
(* No push slot is lost or used twice: every token in concurrentPushLimit  *)
(* is held by the sender, by an event that is not done, or by a done       *)
(* function about to return it, although the three goroutines that may end *)
(* an event (Stream, the event goroutine, a failing send) race.            *)
(***************************************************************************)
SlotsAccounted ==
  /\ slots = Cardinality({c \in Connections : inFlight[c] # NoRequest}) + releasing
               + (IF sender = "dequeue" \/ (sender = "exited" /\ exited # {}) THEN 1 ELSE 0)
  /\ \A c \in Connections : inFlight[c] # NoRequest <=> event[c] # "none"
  /\ \A c \in Connections : handler[c] = "busy" <=> event[c] = "taken"

(***************************************************************************)
(* Nothing is left to do for connection c.                                 *)
(***************************************************************************)
SettledFor(c) ==
  /\ pusher.pc = "idle" /\ proxyUpdate = NoUpdate
  /\ Owed(c) = NoRequest /\ inFlight[c] = NoRequest
  /\ recv[c] = "loop" /\ c \in open

(***************************************************************************)
(* When the server has nothing left to do for a live connection, its proxy *)
(* state comes from the current context and what it was sent is no older   *)
(* than the last change of anything it depends on.  This is what addCon    *)
(* before initProxyState, the list of clients after the publication, and   *)
(* the merging in the push queue are for.                                  *)
(***************************************************************************)
ClientsFresh ==
  \A c \in Connections :
    SettledFor(c) /\ ~shuttingDown =>
      /\ proxyState[c] = ctx
      /\ c \in watched => \A k \in Interests[c] : served[c] >= changedAt[k]

(***************************************************************************)
(* Clients() returns connections that are safe to use: the proxy of one    *)
(* that is still read has been initialized ("it is safe to access the      *)
(* proxy", ads.go:500), and adsClients, which "reflect active gRPC         *)
(* channels" (discovery.go:121), forgets a connection that is not.  The    *)
(* exception is a connection whose RegisterWorkload failed: it is left     *)
(* behind by addCon, removeCon not being deferred yet, with initialized    *)
(* closed; but nothing was ever sent on it.                                *)
(***************************************************************************)
AdsClientsActive ==
  \A c \in adsClients \cap initialized :
    IF recv[c] = "done" THEN served[c] = 0 ELSE proxyState[c] # 0

(***************************************************************************)
(* Merge: "The other push context is presumed to be later and more up to   *)
(* date" (push_context.go:364).  What is owed to a connection never falls  *)
(* back to an older context.                                               *)
(***************************************************************************)
LaterContextWins ==
  [][\A c \in Connections :
       Owed(c) # NoRequest /\ Owed(c)' # NoRequest => Owed(c)'.push >= Owed(c).push]_queueVars

(***************************************************************************)
(* A push that is owed to a live connection is delivered to its Stream     *)
(* goroutine, unless the stream ends or the server stops: no slot, wakeup  *)
(* or event is lost on the way.                                            *)
(***************************************************************************)
PushesDelivered ==
  \A c \in Connections :
    (Owed(c) # NoRequest /\ c \in open)
      ~> (handler[c] = "busy" \/ c \notin open \/ stopCh)

(***************************************************************************)
(* A finished stream gives its push slot back and is forgotten, also when  *)
(* the server is stopping and whatever receive, Stream and the goroutine   *)
(* that offers the event see first; except that one which was never served *)
(* may stay (AdsClientsActive).                                            *)
(***************************************************************************)
StreamsCleanedUp ==
  \A c \in Connections :
    (handler[c] = "returned")
      ~> (inFlight[c] = NoRequest /\ (c \in adsClients => served[c] = 0))
=============================================================================
