----------------------- MODULE DiscoveryServerProofs -----------------------
(***************************************************************************)
(* Proofs about DiscoveryServer, for any number of proxies and contexts    *)
(* and any size of concurrentPushLimit: it uses the push queue as the      *)
(* queue expects, no push slot is lost or used twice, adsClients lists     *)
(* connections that are safe to use and, as long as nobody calls           *)
(* ProxyUpdate, a later context is never replaced by an earlier one and    *)
(* proxies are up to date when the server has nothing left to do.          *)
(***************************************************************************)
EXTENDS DiscoveryServer, PushQueueProofs, FiniteSetTheorems

(***************************************************************************)
(* Whoever calls Enqueue does so with a request that has a context, and    *)
(* the pusher with the current one.                                        *)
(***************************************************************************)
PusherOK ==
  /\ ctx         \in Versions
  /\ changedAt   \in [Configs -> Versions]
  /\ pusher      \in [pc : {"idle", "list", "enqueue"}, req : MaybeRequests,
                      todo : SUBSET Connections]
  /\ proxyUpdate \in [con : Connections, req : Requests] \cup {NoUpdate}
  /\ pusher.pc # "idle" => pusher.req \in Requests /\ pusher.req.push = ctx
  /\ \A k \in Configs : changedAt[k] <= ctx

(***************************************************************************)
(* The slots of concurrentPushLimit.                                       *)
(***************************************************************************)
InFlight == {c \in Connections : inFlight[c] # NoRequest}

HeldBySender == IF sender = "dequeue" \/ (sender = "exited" /\ exited # {}) THEN 1 ELSE 0

SlotsOK ==
  /\ slots     \in 0..PushThrottle
  /\ releasing \in Nat
  /\ sender    \in {"loop", "acquire", "dequeue", "exited"}
  /\ stopCh    \in BOOLEAN
  /\ sender # "exited" => exited = {}
  /\ IsFiniteSet(InFlight)
  /\ slots = Cardinality(InFlight) + releasing + HeldBySender

(***************************************************************************)
(* The event of a connection follows its request in flight.                *)
(***************************************************************************)
EventsOK ==
  /\ event   \in [Connections -> {"none", "offered", "taken"}]
  /\ handler \in [Connections -> {"off", "wait", "select", "busy", "returned"}]
  /\ \A c \in Connections : /\ inFlight[c] # NoRequest <=> event[c] # "none"
                            /\ handler[c] = "busy" <=> event[c] = "taken"

(***************************************************************************)
(* The life of a connection: what may be true of it at each stage of       *)
(* receive.                                                                *)
(***************************************************************************)
ConTypes ==
  /\ adsClients  \in SUBSET Connections
  /\ initialized \in SUBSET Connections
  /\ open        \in SUBSET Connections
  /\ recv        \in [Connections -> {"off", "first", "registered", "computed", "loop", "done"}]
  /\ reqChannel  \in SUBSET Connections
  /\ watched     \in SUBSET Connections
  /\ proxyState  \in [Connections -> 0..MaxContexts]
  /\ served      \in [Connections -> 0..MaxContexts]

Unknown(c) ==
  /\ c \notin adsClients \cup initialized \cup pusher.todo
  /\ proxyUpdate # NoUpdate => proxyUpdate.con # c
  /\ Owed(c) = NoRequest

Unserved(c) == c \notin watched \cup reqChannel /\ served[c] = 0

Life(c) ==
  /\ handler[c] = "off" <=> recv[c] = "off"
  /\ recv[c] \in {"off", "first"} => Unknown(c) /\ inFlight[c] = NoRequest
  /\ recv[c] \in {"registered", "computed"} => c \in adsClients \ initialized
  /\ recv[c] = "loop" => c \in adsClients \cap initialized
  /\ recv[c] \in {"computed", "loop"} => proxyState[c] # 0
  /\ recv[c] \notin {"loop", "done"} \/ (recv[c] = "done" /\ c \in adsClients) => Unserved(c)
  /\ recv[c] = "off" => c \notin open

LifeOK == \A c \in Connections : Life(c)

SInv == Inv /\ PusherOK /\ SlotsOK /\ EventsOK /\ ConTypes /\ LifeOK

(***************************************************************************)
(* What is owed to a connection is not from the future.                    *)
(***************************************************************************)
OwedBehindContext ==
  \A c \in Connections : Owed(c) # NoRequest => Owed(c).push <= ctx

(***************************************************************************)
(* On the way to a connection, from the front: the pusher that has not got *)
(* to it, what is owed to it, what is in flight, and what it holds.  The   *)
(* first of them that matters to the proxy is in time.                     *)
(***************************************************************************)
ToCome(c) == pusher.pc = "list" \/ (pusher.pc = "enqueue" /\ c \in pusher.todo)

Full(r) == r # NoRequest /\ r.full

Wanted(c, r) == Full(r) /\ ProxyNeedsPush(c, r)

InTime(c, r) == \A k \in Interests[c] : r.push >= changedAt[k]

StateInTime(c) ==
  \/ ToCome(c) /\ Full(pusher.req)
  \/ Full(Owed(c)) /\ Owed(c).push = ctx
  \/ ~Full(Owed(c)) /\ Full(inFlight[c]) /\ inFlight[c].push = ctx
  \/ /\ ~Full(Owed(c)) /\ ~Full(inFlight[c])
     /\ recv[c] = "registered" \/ proxyState[c] = ctx

ServedInTime(c) ==
  \/ ToCome(c) /\ Wanted(c, pusher.req)
  \/ Wanted(c, Owed(c)) /\ InTime(c, Owed(c))
  \/ ~Wanted(c, Owed(c)) /\ Wanted(c, inFlight[c]) /\ InTime(c, inFlight[c])
  \/ /\ ~Wanted(c, Owed(c)) /\ ~Wanted(c, inFlight[c])
     /\ c \in watched => \A k \in Interests[c] : served[c] >= changedAt[k]

Live(c) == ~shuttingDown /\ c \in open /\ recv[c] \in {"registered", "computed", "loop"}

FInv ==
  /\ SInv
  /\ proxyUpdate = NoUpdate
  /\ OwedBehindContext
  /\ \A c \in Connections : Live(c) => StateInTime(c) /\ ServedInTime(c)

-----------------------------------------------------------------------------
(***************************************************************************)
(* The queue as the server sees it: what its methods do to what is owed to *)
(* a connection and to what is in flight.                                  *)
(***************************************************************************)
LEMMA OwedType ==
  ASSUME Inv, NEW c \in Connections
  PROVE  Owed(c) \in MaybeRequests
  BY DEF Inv, TypeOK, Owed, MaybeRequests

(***************************************************************************)
(* What the server sees of the queue while nobody uses it.                 *)
(***************************************************************************)
LEMMA IdleView ==
  ASSUME UNCHANGED queueVars
  PROVE  /\ UNCHANGED <<inFlight, exited, shuttingDown>>
         /\ \A c : Owed(c)' = Owed(c)
  BY DEF queueVars, vars, Owed

(***************************************************************************)
(* What it sees of an Enqueue: one client is owed the merged request.      *)
(***************************************************************************)
LEMMA EnqueueView ==
  ASSUME Inv, NEW c \in Connections, NEW r \in Requests, EnqueueOrIgnore(c, r)
  PROVE  /\ UNCHANGED <<inFlight, exited, shuttingDown>>
         /\ \A d \in Connections : d # c => Owed(d)' = Owed(d)
         /\ ~shuttingDown => Owed(c)' = Merge(Owed(c), r)
         /\ shuttingDown => Owed(c)' = Owed(c)
         /\ [Next]_vars
  <1>1. CASE shuttingDown /\ UNCHANGED queueVars
    BY <1>1, IdleView DEF queueVars
  <1>2. CASE Enqueue(c, r)
    <2>1. Mailbox!Ask(c, r)
      BY <1>2, EnqueueAsks
    <2>2. \A d \in Connections : Owed(d)' = IF d = c THEN Mailbox!Merge(Owed(c), r) ELSE Owed(d)
      BY <2>1 DEF Mailbox!Ask
    <2>3. Mailbox!Merge(Owed(c), r) = Merge(Owed(c), r)
      BY DEF Mailbox!Merge, Merge
    <2> QED BY <1>2, <2>2, <2>3 DEF Enqueue, Next
  <1> QED BY <1>1, <1>2 DEF EnqueueOrIgnore

(***************************************************************************)
(* What it sees of a MarkDone: the client is no longer being served.       *)
(***************************************************************************)
LEMMA MarkDoneView ==
  ASSUME Inv, NEW c \in Connections, MarkDone(c)
  PROVE  /\ UNCHANGED <<exited, shuttingDown>>
         /\ inFlight[c] # NoRequest
         /\ inFlight' = [inFlight EXCEPT ![c] = NoRequest]
         /\ \A d \in Connections : Owed(d)' = Owed(d)
         /\ [Next]_vars
  <1>1. Mailbox!Done(c)
    BY MarkDoneDone
  <1> QED BY <1>1 DEF Mailbox!Done, MarkDone, Next

(***************************************************************************)
(* What it sees of a Dequeue: the request owed is now the one in flight,   *)
(* or the queue has shut down.                                             *)
(***************************************************************************)
LEMMA DequeueView ==
  ASSUME Inv, NEW w \in Workers, Dequeue(w)
  PROVE  /\ UNCHANGED shuttingDown
         /\ [Next]_vars
         /\ \/ /\ queue # <<>> /\ exited' = exited
               /\ \E h \in Connections :
                    /\ h = Head(queue) /\ Owed(h) \in Requests /\ inFlight[h] = NoRequest
                    /\ inFlight' = [inFlight EXCEPT ![h] = Owed(h)]
                    /\ Owed(h)' = NoRequest
                    /\ \A d \in Connections : d # h => Owed(d)' = Owed(d)
            \/ /\ queue = <<>> /\ inFlight' = inFlight
               /\ \A d \in Connections : Owed(d)' = Owed(d)
               /\ exited' = IF shuttingDown THEN exited \cup {w} ELSE exited
  <1>1. UNCHANGED shuttingDown /\ [Next]_vars
    BY DEF Dequeue, Next
  <1>2. CASE TakeHead
    <2>1. PICK h \in Connections : /\ h = Head(queue) /\ pending[h] \in Requests
                                   /\ processing[h] = Absent /\ inFlight[h] = NoRequest
      BY <1>2, TakeHeadFacts
    <2>2. Owed(h) = pending[h]
      BY <2>1, QueueAssumption DEF Owed, MaybeRequests
    <2>3. Owed(h)' = NoRequest
      BY <1>2, <2>1, QueueAssumption DEF TakeHead, Owed, Inv, TypeOK, MaybeRequests
    <2>4. \A d \in Connections : d # h => Owed(d)' = Owed(d)
      BY <1>2, <2>1 DEF TakeHead, Owed, Inv, TypeOK
    <2>5. queue # <<>> /\ exited' = exited /\ inFlight' = [inFlight EXCEPT ![h] = pending[h]]
      BY <1>2, <2>1 DEF TakeHead
    <2> QED BY <1>1, <2>1, <2>2, <2>3, <2>4, <2>5
  <1>3. CASE ExitOnShutdown(w) \/ Wait(w)
    BY <1>1, <1>3 DEF ExitOnShutdown, Wait, Owed
  <1> QED BY <1>1, <1>2, <1>3 DEF Dequeue

(***************************************************************************)
(* What it sees of the shutdown.                                           *)
(***************************************************************************)
LEMMA ShutDownView ==
  ASSUME ShutDown
  PROVE  /\ UNCHANGED <<inFlight, exited>> /\ shuttingDown'
         /\ \A c : Owed(c)' = Owed(c)
         /\ [Next]_vars
  BY DEF ShutDown, Owed, Next

-----------------------------------------------------------------------------
(***************************************************************************)
(* Every step of the server is a step of the queue or leaves it alone.     *)
(***************************************************************************)
LEMMA StepIsQueueStep ==
  ASSUME Inv, PusherOK, [ServerNext]_serverVars
  PROVE  [Next]_vars
  <1>1. CASE UNCHANGED queueVars
    BY <1>1 DEF queueVars
  <1>2. ASSUME NEW c \in Connections, EnqueueClient(c) PROVE [Next]_vars
    BY <1>2, EnqueueView DEF EnqueueClient, PusherOK
  <1>3. CASE ProxyUpdateEnqueue
    BY <1>3, EnqueueView DEF ProxyUpdateEnqueue, PusherOK
  <1>4. ASSUME NEW w \in Workers, SenderDequeues(w) PROVE [Next]_vars
    BY <1>4, DequeueView DEF SenderDequeues
  <1>5. ASSUME NEW c \in Connections, EventDropped(c) \/ PushConnection(c) PROVE [Next]_vars
    BY <1>5, MarkDoneView DEF EventDropped, PushConnection, Done
  <1>6. CASE Shutdown
    BY <1>6, ShutDownView DEF Shutdown
  <1>7. CASE ~UNCHANGED queueVars
    <2>1. /\ ~(\E ks \in SUBSET Configs : PushFull(ks)) /\ ~PushEDS /\ ~ListClients /\ ~PushEnds
          /\ ~SenderLoops /\ ~SenderAcquires /\ ~ReleaseSlot /\ ~CloseStopCh
          /\ ~UNCHANGED serverVars
      BY <1>7 DEF PushFull, PushEDS, ListClients, PushEnds, SenderLoops, SenderAcquires,
         ReleaseSlot, CloseStopCh, serverVars
    <2>2. ASSUME NEW c \in Connections
          PROVE  ~ProxyUpdateRead(c) /\ ~Connect(c) /\ ~ClientCloses(c) /\ ~Receive(c)
      BY <1>7 DEF ProxyUpdateRead, Connect, ClientCloses, Receive, AddCon, RefuseConnection,
         InitProxyState, CloseInitialized, InitProxyStateFails, ReceiveRequest, ReceiveEnds
    <2>3. ASSUME NEW c \in Connections PROVE Stream(c) => PushConnection(c)
      BY <1>7 DEF Stream, HandlerStarts, HandlerEnds, StopConnection, ProcessRequest, TakeEvent
    <2> QED BY <1>2, <1>3, <1>4, <1>5, <1>6, <2>1, <2>2, <2>3 DEF ServerNext
  <1> QED BY <1>1, <1>7

-----------------------------------------------------------------------------
(***************************************************************************)
(* The steps of the server by whose they are, and what they leave alone.   *)
(***************************************************************************)
PusherStep ==
  \/ \E ks \in SUBSET Configs : PushFull(ks)
  \/ PushEDS \/ ListClients \/ PushEnds \/ ProxyUpdateEnqueue
  \/ \E c \in Connections : EnqueueClient(c) \/ ProxyUpdateRead(c)

SenderStep ==
  \/ SenderLoops \/ SenderAcquires \/ ReleaseSlot
  \/ \E w \in Workers : SenderDequeues(w)
  \/ CloseStopCh \/ Shutdown
  \/ \E c \in Connections : EventDropped(c)

ConnectionStep(c) ==
  Connect(c) \/ ClientCloses(c) \/ Receive(c) \/ Stream(c)

(***************************************************************************)
(* The steps of the server are those of the pusher, of the sender and of   *)
(* the connections, and each leaves the others' variables alone.           *)
(***************************************************************************)
LEMMA StepsByActor ==
  /\ ServerNext <=> PusherStep \/ SenderStep \/ \E c \in Connections : ConnectionStep(c)
  /\ PusherStep => UNCHANGED <<sendVars, event, conVars>>
  /\ SenderStep => UNCHANGED <<pushVars, conVars>>
  /\ \A c \in Connections : ConnectionStep(c) => UNCHANGED <<pushVars, slots, sender, stopCh>>
  /\ \A c \in Connections : ConnectionStep(c) /\ ~PushConnection(c) => UNCHANGED <<queueVars, sendVars>>
  <1>1. ServerNext <=> PusherStep \/ SenderStep \/ \E c \in Connections : ConnectionStep(c)
    BY DEF ServerNext, PusherStep, SenderStep, ConnectionStep
  <1>2. PusherStep => UNCHANGED <<sendVars, event, conVars>>
    BY DEF PusherStep, PushFull, PushEDS, ListClients, PushEnds, ProxyUpdateEnqueue,
       EnqueueClient, ProxyUpdateRead
  <1>3. SenderStep => UNCHANGED <<pushVars, conVars>>
    BY DEF SenderStep, SenderLoops, SenderAcquires, ReleaseSlot, SenderDequeues, CloseStopCh,
       Shutdown, EventDropped
  <1>4. ASSUME NEW c \in Connections, ConnectionStep(c)
        PROVE  /\ UNCHANGED <<pushVars, slots, sender, stopCh>>
               /\ ~PushConnection(c) => UNCHANGED <<queueVars, sendVars>>
    <2>1. CASE Connect(c) \/ ClientCloses(c) \/ Receive(c)
      BY <2>1 DEF Connect, ClientCloses, Receive, AddCon, RefuseConnection, InitProxyState,
         CloseInitialized, InitProxyStateFails, ReceiveRequest, ReceiveEnds, sendVars
    <2>2. CASE Stream(c)
      BY <2>2 DEF Stream, HandlerStarts, HandlerEnds, StopConnection, ProcessRequest, TakeEvent,
         PushConnection, sendVars
    <2> QED BY <1>4, <2>1, <2>2 DEF ConnectionStep
  <1> QED BY <1>1, <1>2, <1>3, <1>4

(***************************************************************************)
(* The pusher and ProxyUpdate.                                             *)
(***************************************************************************)
LEMMA PusherKept ==
  ASSUME SInv, [ServerNext]_serverVars
  PROVE  PusherOK'
  <1> USE DEF SInv
  <1>1. CASE UNCHANGED pushVars
    BY <1>1 DEF PusherOK, pushVars
  <1>2. ASSUME NEW ks \in SUBSET Configs, PushFull(ks) PROVE PusherOK'
    <2>1. /\ pusher.pc = "idle" /\ ctx < MaxContexts /\ ctx' = ctx + 1
          /\ changedAt' = [k \in Configs |-> IF ks = {} \/ k \in ks THEN ctx + 1 ELSE changedAt[k]]
          /\ pusher' = [pc |-> "list", todo |-> {},
                        req |-> [full |-> TRUE, push |-> ctx + 1, configs |-> ks]]
          /\ proxyUpdate' = proxyUpdate
      BY <1>2 DEF PushFull
    <2>2. ctx \in Nat /\ ctx + 1 \in Versions /\ ctx \in Versions
      BY <2>1, ServerAssumption DEF PusherOK
    <2>3. \A k \in Configs : changedAt'[k] \in Versions /\ changedAt'[k] <= ctx + 1
      BY <2>1, <2>2, ServerAssumption DEF PusherOK
    <2>4. pusher' \in [pc : {"idle", "list", "enqueue"}, req : MaybeRequests, todo : SUBSET Connections]
          /\ pusher'.req \in Requests /\ pusher'.req.push = ctx + 1
      BY <2>1, <2>2 DEF MaybeRequests, Requests
    <2> QED BY <2>1, <2>2, <2>3, <2>4 DEF PusherOK
  <1>3. CASE PushEDS
    <2>1. /\ pusher'.req \in Requests /\ pusher'.req.push = ctx /\ UNCHANGED <<ctx, changedAt, proxyUpdate>>
          /\ pusher' \in [pc : {"idle", "list", "enqueue"}, req : MaybeRequests, todo : SUBSET Connections]
      BY <1>3 DEF PushEDS, PusherOK, MaybeRequests, Requests
    <2> QED BY <2>1 DEF PusherOK
  <1>4. ASSUME NEW c \in Connections, EnqueueClient(c) PROVE PusherOK'
    BY <1>4 DEF EnqueueClient, PusherOK
  <1>5. CASE ListClients
    <2>1. /\ pusher'.pc = "enqueue" /\ pusher.pc = "list" /\ pusher'.req = pusher.req
          /\ pusher' \in [pc : {"idle", "list", "enqueue"}, req : MaybeRequests, todo : SUBSET Connections]
          /\ UNCHANGED <<ctx, changedAt, proxyUpdate>>
      BY <1>5 DEF ListClients, PusherOK, ConTypes
    <2> QED BY <2>1 DEF PusherOK
  <1>9. CASE PushEnds
    BY <1>9 DEF PushEnds, PusherOK, MaybeRequests
  <1>6. ASSUME NEW c \in Connections, ProxyUpdateRead(c) PROVE PusherOK'
    BY <1>6 DEF ProxyUpdateRead, PusherOK, Requests
  <1>7. CASE ProxyUpdateEnqueue
    BY <1>7 DEF ProxyUpdateEnqueue, PusherOK
  <1>8. CASE ~PusherStep
    BY <1>1, <1>8, StepsByActor DEF serverVars
  <1> QED BY <1>2, <1>3, <1>4, <1>5, <1>6, <1>7, <1>8, <1>9 DEF PusherStep

(***************************************************************************)
(* The slots: the sender takes one before it dequeues, the event takes it  *)
(* over, and the done function gives it back.                              *)
(***************************************************************************)
LEMMA DoneSlots ==
  ASSUME Inv, SlotsOK, NEW c \in Connections, Done(c), UNCHANGED <<slots, sender, stopCh>>
  PROVE  SlotsOK'
  <1>1. /\ inFlight[c] # NoRequest /\ inFlight' = [inFlight EXCEPT ![c] = NoRequest]
        /\ exited' = exited /\ releasing' = releasing + 1
    BY MarkDoneView DEF Done
  <1>2. c \in InFlight /\ InFlight' = InFlight \ {c}
    BY <1>1 DEF InFlight, Inv, TypeOK
  <1>3. /\ IsFiniteSet(InFlight') /\ Cardinality(InFlight') = Cardinality(InFlight) - 1
        /\ Cardinality(InFlight) \in Nat
    BY <1>2, FS_RemoveElement, FS_CardinalityType DEF SlotsOK
  <1>4. HeldBySender' = HeldBySender /\ HeldBySender \in Nat
    BY <1>1 DEF HeldBySender
  <1>5. slots' = Cardinality(InFlight') + releasing' + HeldBySender'
    BY <1>1, <1>3, <1>4 DEF SlotsOK
  <1> QED BY <1>1, <1>3, <1>5 DEF SlotsOK

(***************************************************************************)
(* The slots of the semaphore follow the requests in flight.               *)
(***************************************************************************)
LEMMA SlotsKept ==
  ASSUME SInv, [ServerNext]_serverVars
  PROVE  SlotsOK'
  <1> USE DEF SInv
  <1>1. CASE UNCHANGED <<inFlight, exited, sendVars>>
    BY <1>1 DEF SlotsOK, InFlight, HeldBySender, sendVars
  <1>2. CASE UNCHANGED queueVars /\ UNCHANGED sendVars
    BY <1>1, <1>2, IdleView
  <1>3. Cardinality(InFlight) \in Nat
    BY FS_CardinalityType DEF SlotsOK
  <1>4. CASE PusherStep
    <2>1. ASSUME NEW c \in Connections, EnqueueClient(c) PROVE UNCHANGED <<inFlight, exited>>
      BY <2>1, EnqueueView DEF EnqueueClient, PusherOK
    <2>2. CASE ProxyUpdateEnqueue
      BY <1>1, <1>4, <2>2, EnqueueView, StepsByActor DEF ProxyUpdateEnqueue, PusherOK
    <2>3. CASE \/ \E ks \in SUBSET Configs : PushFull(ks)
               \/ PushEDS \/ ListClients \/ PushEnds \/ \E c \in Connections : ProxyUpdateRead(c)
      BY <1>2, <1>4, <2>3, StepsByActor DEF PushFull, PushEDS, ListClients, PushEnds, ProxyUpdateRead
    <2> QED BY <1>1, <1>4, <2>1, <2>2, <2>3, StepsByActor DEF PusherStep
  <1>5. CASE SenderLoops
    BY <1>3, <1>5, IdleView DEF SenderLoops, SlotsOK, InFlight, HeldBySender
  <1>6. CASE SenderAcquires
    BY <1>3, <1>6, IdleView, ServerAssumption DEF SenderAcquires, SlotsOK, InFlight, HeldBySender
  <1>7. CASE ReleaseSlot
    <2>1. releasing > 0 /\ releasing' = releasing - 1 /\ slots' = slots - 1
          /\ UNCHANGED <<inFlight, exited, sender, stopCh>>
      BY <1>7, IdleView DEF ReleaseSlot
    <2>2. InFlight' = InFlight /\ HeldBySender' = HeldBySender /\ HeldBySender \in {0, 1}
      BY <2>1 DEF InFlight, HeldBySender
    <2> QED BY <1>3, <2>1, <2>2, ServerAssumption, SMTT(40) DEF SlotsOK
  <1>8. ASSUME NEW w \in Workers, SenderDequeues(w) PROVE SlotsOK'
    <2>1. sender = "dequeue" /\ UNCHANGED <<slots, releasing, stopCh>> /\ exited = {}
          /\ HeldBySender = 1
      BY <1>8 DEF SenderDequeues, SlotsOK, HeldBySender
    <2>2. CASE queue # <<>>
      <3>1. PICK h \in Connections : /\ Owed(h) \in Requests /\ inFlight[h] = NoRequest
                                     /\ inFlight' = [inFlight EXCEPT ![h] = Owed(h)]
        BY <1>8, <2>2, DequeueView DEF SenderDequeues
      <3>2. exited' = exited /\ sender' = "loop"
        BY <1>8, <2>2, DequeueView DEF SenderDequeues
      <3>3. h \notin InFlight /\ InFlight' = InFlight \cup {h}
        BY <3>1, RequestAssumption DEF InFlight, Inv, TypeOK
      <3>4. IsFiniteSet(InFlight') /\ Cardinality(InFlight') = Cardinality(InFlight) + 1
        BY <3>3, FS_AddElement DEF SlotsOK
      <3>5. HeldBySender' = 0
        BY <3>2 DEF HeldBySender
      <3>6. slots' = Cardinality(InFlight') + releasing' + HeldBySender'
        BY <1>3, <2>1, <3>4, <3>5 DEF SlotsOK
      <3> QED BY <2>1, <3>2, <3>4, <3>6 DEF SlotsOK
    <2>3. CASE queue = <<>>
      <3>1. /\ inFlight' = inFlight /\ exited' = IF shuttingDown THEN exited \cup {w} ELSE exited
            /\ sender' = IF shuttingDown THEN "exited" ELSE sender
        BY <1>8, <2>3, DequeueView DEF SenderDequeues
      <3>2. HeldBySender' = 1 /\ InFlight' = InFlight
        BY <2>1, <3>1 DEF HeldBySender, InFlight
      <3> QED BY <2>1, <3>1, <3>2 DEF SlotsOK
    <2> QED BY <2>2, <2>3
  <1>9. ASSUME NEW c \in Connections, EventDropped(c) \/ PushConnection(c) PROVE SlotsOK'
    BY <1>9, DoneSlots DEF EventDropped, PushConnection
  <1>10. CASE CloseStopCh
    BY <1>10, IdleView DEF CloseStopCh, SlotsOK, InFlight, HeldBySender
  <1>11. CASE Shutdown
    BY <1>1, <1>11, ShutDownView DEF Shutdown
  <1>12. ASSUME NEW c \in Connections, ConnectionStep(c), ~PushConnection(c) PROVE SlotsOK'
    BY <1>2, <1>12, StepsByActor
  <1>13. CASE UNCHANGED serverVars
    BY <1>2, <1>13 DEF serverVars
  <1> QED BY <1>4, <1>5, <1>6, <1>7, <1>8, <1>9, <1>10, <1>11, <1>12, <1>13, StepsByActor
          DEF SenderStep

(***************************************************************************)
(* The events.                                                             *)
(***************************************************************************)
LEMMA EventsKept ==
  ASSUME SInv, [ServerNext]_serverVars
  PROVE  EventsOK'
  <1> USE DEF SInv
  <1>1. CASE UNCHANGED <<inFlight, event, handler>>
    BY <1>1 DEF EventsOK
  <1>2. CASE PusherStep
    <2>1. inFlight' = inFlight
      <3>1. ASSUME NEW c \in Connections, EnqueueClient(c) PROVE inFlight' = inFlight
        BY <3>1, EnqueueView DEF EnqueueClient, PusherOK
      <3>2. CASE ProxyUpdateEnqueue
        BY <3>2, EnqueueView DEF ProxyUpdateEnqueue, PusherOK
      <3> QED BY <1>2, <3>1, <3>2, IdleView
              DEF PusherStep, PushFull, PushEDS, ListClients, PushEnds, ProxyUpdateRead
    <2> QED BY <1>1, <1>2, <2>1, StepsByActor DEF conVars
  <1>3. ASSUME NEW w \in Workers, SenderDequeues(w) PROVE EventsOK'
    <2>1. handler' = handler
      BY <1>3 DEF SenderDequeues, conVars
    <2>2. CASE queue # <<>>
      <3>1. PICK h \in Connections : /\ h = Head(queue) /\ Owed(h) \in Requests /\ inFlight[h] = NoRequest
                                     /\ inFlight' = [inFlight EXCEPT ![h] = Owed(h)]
        BY <1>3, <2>2, DequeueView DEF SenderDequeues
      <3>2. event' = [event EXCEPT ![h] = "offered"]
        BY <1>3, <2>2, <3>1 DEF SenderDequeues
      <3> QED BY <2>1, <3>1, <3>2, RequestAssumption DEF EventsOK, Inv, TypeOK
    <2>3. CASE queue = <<>>
      BY <1>1, <1>3, <2>1, <2>3, DequeueView DEF SenderDequeues
    <2> QED BY <2>2, <2>3
  <1>4. ASSUME NEW c \in Connections, EventDropped(c) PROVE EventsOK'
    <2>1. /\ event[c] = "offered" /\ event' = [event EXCEPT ![c] = "none"] /\ handler' = handler
          /\ inFlight' = [inFlight EXCEPT ![c] = NoRequest]
      BY <1>4, MarkDoneView DEF EventDropped, Done, conVars
    <2> QED BY <2>1 DEF EventsOK, Inv, TypeOK
  <1>5. CASE SenderLoops \/ SenderAcquires \/ ReleaseSlot \/ CloseStopCh
    BY <1>1, <1>5, IdleView DEF SenderLoops, SenderAcquires, ReleaseSlot, CloseStopCh, conVars
  <1>6. CASE Shutdown
    BY <1>1, <1>6, ShutDownView DEF Shutdown, conVars
  <1>7. ASSUME NEW c \in Connections, PushConnection(c) PROVE EventsOK'
    <2>1. /\ handler[c] = "busy" /\ event' = [event EXCEPT ![c] = "none"]
          /\ inFlight' = [inFlight EXCEPT ![c] = NoRequest]
          /\ \/ handler' = [handler EXCEPT ![c] = "select"]
             \/ handler' = [handler EXCEPT ![c] = "returned"]
      BY <1>7, MarkDoneView DEF PushConnection, Done, HandlerReturns
    <2> QED BY <2>1 DEF EventsOK, Inv, TypeOK
  <1>8. ASSUME NEW c \in Connections, TakeEvent(c) PROVE EventsOK'
    <2>1. inFlight' = inFlight
      BY <1>8, IdleView DEF TakeEvent
    <2> QED BY <1>8, <2>1 DEF TakeEvent, EventsOK
  <1>9. ASSUME NEW c \in Connections, ConnectionStep(c), ~PushConnection(c), ~TakeEvent(c)
        PROVE  EventsOK'
    <2>1. inFlight' = inFlight
      BY <1>9, StepsByActor, IdleView
    <2>2. /\ event' = event
          /\ \/ handler' = handler
             \/ /\ handler[c] # "busy"
                /\ \E l \in {"wait", "select", "returned"} : handler' = [handler EXCEPT ![c] = l]
      <3>1. CASE Connect(c) \/ ClientCloses(c) \/ Receive(c)
        BY <3>1 DEF Connect, ClientCloses, Receive, AddCon, RefuseConnection, InitProxyState,
           CloseInitialized, InitProxyStateFails, ReceiveRequest, ReceiveEnds
      <3>2. CASE Stream(c)
        BY <1>9, <3>2 DEF Stream, HandlerStarts, HandlerEnds, StopConnection, ProcessRequest,
           HandlerReturns
      <3> QED BY <1>9, <3>1, <3>2 DEF ConnectionStep
    <2> QED BY <2>1, <2>2 DEF EventsOK
  <1>10. CASE UNCHANGED serverVars
    BY <1>1, <1>10, IdleView DEF serverVars, conVars
  <1> QED BY <1>2, <1>3, <1>4, <1>5, <1>6, <1>7, <1>8, <1>9, <1>10, StepsByActor
          DEF SenderStep

(***************************************************************************)
(* The connections: nothing but their own steps changes them.              *)
(***************************************************************************)
LEMMA InFlightType ==
  ASSUME SInv, NEW c \in Connections, handler[c] = "busy"
  PROVE  inFlight[c] \in Requests /\ inFlight[c].push \in 1..MaxContexts
  BY ServerAssumption DEF SInv, EventsOK, Inv, TypeOK, MaybeRequests, Requests

(***************************************************************************)
(* The connections keep their types.                                       *)
(***************************************************************************)
LEMMA ConTypesKept ==
  ASSUME SInv, [ServerNext]_serverVars
  PROVE  ConTypes'
  <1> USE DEF SInv
  <1>1. CASE UNCHANGED conVars
    BY <1>1 DEF ConTypes, conVars
  <1>2. ctx \in 1..MaxContexts
    BY ServerAssumption DEF PusherOK
  <1>3. ASSUME NEW c \in Connections, Connect(c) \/ ClientCloses(c) \/ Receive(c) PROVE ConTypes'
    BY <1>2, <1>3 DEF Connect, ClientCloses, Receive, AddCon, RefuseConnection, InitProxyState,
       CloseInitialized, InitProxyStateFails, ReceiveRequest, ReceiveEnds, ReceiveReturns, ConTypes
  <1>4. ASSUME NEW c \in Connections, Stream(c), ~PushConnection(c) PROVE ConTypes'
    BY <1>2, <1>4 DEF Stream, HandlerStarts, HandlerEnds, StopConnection, ProcessRequest, TakeEvent,
       HandlerReturns, ConTypes
  <1>5. ASSUME NEW c \in Connections, PushConnection(c) PROVE ConTypes'
    <2>1. inFlight[c].push \in 0..MaxContexts
      BY <1>5, InFlightType DEF PushConnection
    <2> QED BY <1>5, <2>1 DEF PushConnection, HandlerReturns, ConTypes
  <1> QED BY <1>1, <1>3, <1>4, <1>5, StepsByActor DEF ConnectionStep, serverVars

(***************************************************************************)
(* A step that does nothing to a connection but, at most, take a request   *)
(* to it further once it has been listed.                                  *)
(***************************************************************************)
Untouched(d) ==
  /\ recv'[d] = recv[d] /\ handler'[d] = handler[d]
  /\ proxyState'[d] = proxyState[d] /\ served'[d] = served[d]
  /\ d \in adsClients' <=> d \in adsClients
  /\ d \in initialized' <=> d \in initialized
  /\ d \in open' <=> d \in open
  /\ d \in watched' <=> d \in watched
  /\ d \in reqChannel' <=> d \in reqChannel

(***************************************************************************)
(* A connection no step touches stays as it is in its life.                *)
(***************************************************************************)
LEMMA UntouchedLife ==
  ASSUME NEW d, Life(d), Untouched(d),
         recv[d] \in {"off", "first"} /\ Unknown(d) /\ inFlight[d] = NoRequest
           => /\ Owed(d)' = NoRequest /\ inFlight'[d] = NoRequest
              /\ d \notin pusher'.todo
              /\ proxyUpdate' # NoUpdate => proxyUpdate'.con # d
  PROVE  Life(d)'
  BY DEF Life, Untouched, Unknown, Unserved

(***************************************************************************)
(* A step of one connection touches no other.                              *)
(***************************************************************************)
LEMMA OthersUntouched ==
  ASSUME ConTypes, EventsOK, NEW c \in Connections, ConnectionStep(c), NEW d \in Connections, d # c
  PROVE  Untouched(d)
  <1>1. CASE Connect(c) \/ ClientCloses(c) \/ Receive(c)
    BY <1>1 DEF Connect, ClientCloses, Receive, AddCon, RefuseConnection, InitProxyState,
       CloseInitialized, InitProxyStateFails, ReceiveRequest, ReceiveEnds, ReceiveReturns,
       ConTypes, EventsOK, Untouched
  <1>2. CASE Stream(c)
    BY <1>2 DEF Stream, HandlerStarts, HandlerEnds, StopConnection, ProcessRequest, TakeEvent,
       PushConnection, HandlerReturns, ConTypes, EventsOK, Untouched
  <1> QED BY <1>1, <1>2 DEF ConnectionStep

(***************************************************************************)
(* A connection goes through its life in order.                            *)
(***************************************************************************)
LEMMA LifeKept ==
  ASSUME SInv, [ServerNext]_serverVars
  PROVE  LifeOK'
  <1> USE DEF SInv
  <1>1. ASSUME NEW d \in Connections, UNCHANGED conVars PROVE Life(d) /\ Untouched(d)
    BY <1>1 DEF LifeOK, Untouched, conVars
  <1>2. CASE UNCHANGED queueVars /\ UNCHANGED pushVars /\ UNCHANGED conVars
    BY <1>1, <1>2, UntouchedLife, IdleView DEF pushVars, LifeOK, Unknown
  <1>3. CASE PusherStep
    <2> SUFFICES ASSUME NEW d \in Connections, recv[d] \in {"off", "first"}, Unknown(d),
                        inFlight[d] = NoRequest
                 PROVE  /\ Owed(d)' = NoRequest /\ inFlight'[d] = NoRequest
                        /\ d \notin pusher'.todo
                        /\ proxyUpdate' # NoUpdate => proxyUpdate'.con # d
      BY <1>1, <1>3, UntouchedLife, StepsByActor DEF LifeOK
    <2>1. ASSUME NEW c \in Connections, EnqueueClient(c)
          PROVE  /\ Owed(d)' = NoRequest /\ inFlight'[d] = NoRequest
                 /\ d \notin pusher'.todo /\ proxyUpdate' = proxyUpdate
      <3>1. c \in pusher.todo /\ pusher' = [pusher EXCEPT !.todo = @ \ {c}] /\ proxyUpdate' = proxyUpdate
        BY <2>1 DEF EnqueueClient
      <3>2. inFlight' = inFlight /\ \A e \in Connections : e # c => Owed(e)' = Owed(e)
        BY <2>1, EnqueueView DEF EnqueueClient, PusherOK
      <3> QED BY <3>1, <3>2 DEF PusherOK, Unknown
    <2>2. CASE ProxyUpdateEnqueue
      <3>1. proxyUpdate # NoUpdate /\ proxyUpdate' = NoUpdate /\ pusher' = pusher
        BY <2>2 DEF ProxyUpdateEnqueue
      <3>2. inFlight' = inFlight /\ \A e \in Connections : e # proxyUpdate.con => Owed(e)' = Owed(e)
        BY <2>2, EnqueueView DEF ProxyUpdateEnqueue, PusherOK
      <3> QED BY <3>1, <3>2 DEF Unknown
    <2>3. ASSUME NEW ks \in SUBSET Configs, PushFull(ks)
          PROVE  Owed(d)' = NoRequest /\ inFlight'[d] = NoRequest /\ pusher'.todo = {} /\ proxyUpdate' = proxyUpdate
      BY <2>3, IdleView DEF PushFull, Unknown
    <2>4. CASE PushEDS \/ PushEnds
      BY <2>4, IdleView DEF PushEDS, PushEnds, Unknown
    <2>5. CASE ListClients
      <3>1. pusher'.todo = adsClients /\ proxyUpdate' = proxyUpdate
        BY <2>5 DEF ListClients, PusherOK
      <3> QED BY <2>5, <3>1, IdleView DEF ListClients, Unknown
    <2>6. ASSUME NEW c \in Connections, ProxyUpdateRead(c)
          PROVE  /\ Owed(d)' = NoRequest /\ inFlight'[d] = NoRequest
                 /\ pusher' = pusher /\ proxyUpdate'.con # d
      BY <2>6, IdleView DEF ProxyUpdateRead, Unknown
    <2> QED BY <1>3, <2>1, <2>2, <2>3, <2>4, <2>5, <2>6 DEF PusherStep, Unknown
  <1>4. CASE SenderStep
    <2>1. UNCHANGED pushVars /\ UNCHANGED conVars
      BY <1>4, StepsByActor
    <2> SUFFICES ASSUME NEW d \in Connections, Owed(d) = NoRequest, inFlight[d] = NoRequest
                 PROVE  Owed(d)' = NoRequest /\ inFlight'[d] = NoRequest
      BY <1>1, <2>1, UntouchedLife DEF LifeOK, Unknown, pushVars
    <2>2. ASSUME NEW w \in Workers, SenderDequeues(w)
          PROVE  Owed(d)' = NoRequest /\ inFlight'[d] = NoRequest
      <3>1. CASE queue # <<>>
        <4>1. PICK h \in Connections :
                /\ Owed(h) \in Requests /\ inFlight' = [inFlight EXCEPT ![h] = Owed(h)]
                /\ \A e \in Connections : e # h => Owed(e)' = Owed(e)
          BY <2>2, <3>1, DequeueView DEF SenderDequeues
        <4>2. d # h
          BY <4>1, RequestAssumption
        <4> QED BY <4>1, <4>2
      <3>2. CASE queue = <<>>
        BY <2>2, <3>2, DequeueView DEF SenderDequeues
      <3> QED BY <3>1, <3>2
    <2>3. ASSUME NEW c \in Connections, EventDropped(c)
          PROVE  Owed(d)' = NoRequest /\ inFlight'[d] = NoRequest
      BY <2>3, MarkDoneView DEF EventDropped, Done, Inv, TypeOK
    <2>4. CASE Shutdown
      BY <2>4, ShutDownView DEF Shutdown
    <2>5. CASE SenderLoops \/ SenderAcquires \/ ReleaseSlot \/ CloseStopCh
      BY <2>5, IdleView DEF SenderLoops, SenderAcquires, ReleaseSlot, CloseStopCh
    <2> QED BY <1>4, <2>2, <2>3, <2>4, <2>5 DEF SenderStep
  <1>5. ASSUME NEW c \in Connections, ConnectionStep(c) PROVE LifeOK'
    <2>1. UNCHANGED <<pusher, proxyUpdate>>
      BY <1>5, StepsByActor DEF pushVars
    <2>2. \A d \in Connections : /\ Owed(d)' = Owed(d)
                                 /\ inFlight[d] = NoRequest => inFlight'[d] = NoRequest
      <3>1. CASE PushConnection(c)
        BY <3>1, MarkDoneView DEF PushConnection, Done, Inv, TypeOK
      <3>2. CASE ~PushConnection(c)
        BY <1>5, <3>2, StepsByActor, IdleView
      <3> QED BY <3>1, <3>2
    <2>3. ASSUME NEW d \in Connections, d # c PROVE Untouched(d)
      BY <1>5, <2>3, OthersUntouched
    <2>4. ASSUME NEW d \in Connections, d # c PROVE Life(d)'
      BY <2>1, <2>2, <2>3, <2>4, UntouchedLife DEF LifeOK, Unknown
    <2>5. Life(c)'
      <3>1. Life(c) /\ (Unknown(c) => Owed(c)' = NoRequest /\ c \notin pusher'.todo
                                   /\ (proxyUpdate' # NoUpdate => proxyUpdate'.con # c))
        BY <2>1, <2>2 DEF LifeOK, Unknown
      <3>2. ctx # 0
        BY ServerAssumption DEF PusherOK
      <3>3. CASE Connect(c) \/ ClientCloses(c)
        BY <2>2, <3>1, <3>3 DEF Connect, ClientCloses, Life, Unknown, Unserved, ConTypes, EventsOK
      <3>4. CASE AddCon(c) \/ RefuseConnection(c) \/ InitProxyState(c) \/ CloseInitialized(c)
        BY <2>2, <3>1, <3>2, <3>4 DEF AddCon, RefuseConnection, InitProxyState, CloseInitialized,
           ReceiveReturns, Life, Unknown, Unserved, ConTypes, EventsOK
      <3>5. CASE InitProxyStateFails(c) \/ ReceiveRequest(c) \/ ReceiveEnds(c)
        BY <2>2, <3>1, <3>5 DEF InitProxyStateFails, ReceiveRequest, ReceiveEnds,
           ReceiveReturns, Life, Unknown, Unserved, ConTypes, EventsOK
      <3>6. CASE HandlerStarts(c) \/ HandlerEnds(c) \/ StopConnection(c) \/ TakeEvent(c)
        BY <2>2, <3>1, <3>6 DEF HandlerStarts, HandlerEnds, StopConnection, TakeEvent,
           HandlerReturns, Life, Unknown, Unserved, ConTypes, EventsOK
      <3>7. CASE ProcessRequest(c)
        BY <2>2, <3>1, <3>7 DEF ProcessRequest, HandlerReturns, Life, Unknown, Unserved, ConTypes,
           EventsOK
      <3>8. CASE PushConnection(c)
        <4>1. inFlight[c].push # 0
          BY <3>8, InFlightType DEF PushConnection
        <4> QED BY <2>2, <3>1, <3>8, <4>1
                DEF PushConnection, HandlerReturns, Life, Unknown, Unserved, ConTypes, EventsOK
      <3> QED BY <1>5, <3>3, <3>4, <3>5, <3>6, <3>7, <3>8 DEF ConnectionStep, Receive, Stream
    <2> QED BY <2>4, <2>5 DEF LifeOK
  <1> QED BY <1>2, <1>3, <1>4, <1>5, StepsByActor DEF serverVars

-----------------------------------------------------------------------------
(***************************************************************************)
(* The server starts without connections and with all slots free.          *)
(***************************************************************************)
LEMMA ServerInitSInv == ServerInit => SInv
  <1> SUFFICES ASSUME ServerInit PROVE SInv
    OBVIOUS
  <1>1. Inv
    BY InitInv DEF ServerInit
  <1>2. PusherOK
    <2>1. 1 \in Versions
      BY ServerAssumption
    <2> QED BY <2>1 DEF ServerInit, PusherOK, MaybeRequests
  <1>3. SlotsOK
    <2>1. InFlight = {} /\ HeldBySender = 0 /\ exited = {}
      BY DEF ServerInit, Init, InFlight, HeldBySender
    <2>2. IsFiniteSet(InFlight) /\ Cardinality(InFlight) = 0
      BY <2>1, FS_EmptySet
    <2>3. /\ slots = 0 /\ releasing = 0 /\ sender = "loop" /\ stopCh = FALSE
          /\ 0 \in 0..PushThrottle
      BY ServerAssumption DEF ServerInit
    <2>4. slots = Cardinality(InFlight) + releasing + HeldBySender /\ releasing \in Nat
      BY <2>1, <2>2, <2>3
    <2> QED BY <2>1, <2>2, <2>3, <2>4, Zenon DEF SlotsOK
  <1>4. EventsOK
    BY DEF ServerInit, Init, EventsOK
  <1>5. ConTypes
    BY ServerAssumption DEF ServerInit, ConTypes
  <1>6. LifeOK
    BY DEF ServerInit, Init, LifeOK, Life, Unknown, Unserved, Owed
  <1> QED BY <1>1, <1>2, <1>3, <1>4, <1>5, <1>6 DEF SInv

(***************************************************************************)
(* Every step keeps the slots, the events and the lives of the             *)
(* connections.                                                            *)
(***************************************************************************)
LEMMA ServerNextSInv ==
  ASSUME SInv, [ServerNext]_serverVars
  PROVE  SInv'
  <1>1. Inv'
    BY StepIsQueueStep, NextInv DEF SInv
  <1> QED BY <1>1, PusherKept, SlotsKept, EventsKept, ConTypesKept, LifeKept DEF SInv

(***************************************************************************)
(* They hold in every reachable state.                                     *)
(***************************************************************************)
LEMMA AlwaysSInv == ServerSpec => []SInv
  <1>1. SInv /\ [ServerNext]_serverVars => SInv'
    BY ServerNextSInv
  <1> QED BY <1>1, ServerInitSInv, PTL DEF ServerSpec

(***************************************************************************)
(* The server uses the push queue as its callers may: what is proved of    *)
(* the queue holds in the server.                                          *)
(***************************************************************************)
THEOREM ServerImplementsQueue == ServerSpec => Spec
  <1>1. SInv /\ [ServerNext]_serverVars => [Next]_vars
    BY StepIsQueueStep DEF SInv
  <1>2. ServerInit => Init
    BY DEF ServerInit
  <1> QED BY <1>1, <1>2, AlwaysSInv, PTL DEF ServerSpec, Spec

(***************************************************************************)
(* No push slot is lost or used twice, for any number of connections and   *)
(* any PushThrottle.                                                       *)
(***************************************************************************)
THEOREM SlotsAlwaysAccounted == ServerSpec => []SlotsAccounted
  <1>1. SInv => SlotsAccounted
    BY DEF SInv, SlotsOK, EventsOK, SlotsAccounted, InFlight, HeldBySender
  <1> QED BY <1>1, AlwaysSInv, PTL

(***************************************************************************)
(* Type correctness; in particular no more than PushThrottle pushes are    *)
(* under way.                                                              *)
(***************************************************************************)
THEOREM ServerTypeCorrect == ServerSpec => []ServerTypeOK
  <1>1. ASSUME SInv PROVE ServerTypeOK
    <2>1. releasing \in 0..PushThrottle
      <3>1. Cardinality(InFlight) \in Nat /\ HeldBySender \in Nat
        BY <1>1, FS_CardinalityType DEF SInv, SlotsOK, HeldBySender
      <3> QED BY <1>1, <3>1, ServerAssumption DEF SInv, SlotsOK
    <2> QED BY <1>1, <2>1 DEF SInv, Inv, PusherOK, SlotsOK, EventsOK, ConTypes, ServerTypeOK
  <1> QED BY <1>1, AlwaysSInv, PTL

(***************************************************************************)
(* The connections that Clients() returns are safe to use, and but for     *)
(* those whose RegisterWorkload failed they are being read.                *)
(***************************************************************************)
THEOREM AdsClientsAlwaysActive == ServerSpec => []AdsClientsActive
  <1>1. ASSUME SInv PROVE AdsClientsActive
    <2> SUFFICES ASSUME NEW c \in adsClients \cap initialized
                 PROVE  IF recv[c] = "done" THEN served[c] = 0 ELSE proxyState[c] # 0
      BY DEF AdsClientsActive
    <2>1. c \in Connections /\ Life(c)
          /\ recv[c] \in {"off", "first", "registered", "computed", "loop", "done"}
      BY <1>1 DEF SInv, ConTypes, LifeOK
    <2> QED BY <2>1 DEF Life, Unknown, Unserved
  <1> QED BY <1>1, AlwaysSInv, PTL

-----------------------------------------------------------------------------
(***************************************************************************)
(* Freshness.  Merging keeps what matters to a proxy, and the context of   *)
(* the later request.                                                      *)
(***************************************************************************)
LEMMA MergeMatters ==
  ASSUME NEW c \in Connections, NEW a \in MaybeRequests, NEW b \in Requests
  PROVE  /\ Merge(a, b) \in Requests
         /\ Merge(a, b).push = b.push
         /\ Full(a) \/ Full(b) => Full(Merge(a, b))
         /\ Wanted(c, a) \/ Wanted(c, b) => Wanted(c, Merge(a, b))
  <1>1. Merge(a, b) \in Requests /\ Merge(a, b) # NoRequest
    BY MergeType
  <1>2. b # NoRequest
    BY RequestAssumption
  <1>3. CASE a = NoRequest
    BY <1>1, <1>2, <1>3 DEF Merge, Full, Wanted
  <1>4. CASE a # NoRequest
    <2>1. /\ Merge(a, b).full = (a.full \/ b.full) /\ Merge(a, b).push = b.push
          /\ Merge(a, b).configs = IF a.configs # {} /\ b.configs # {}
                                   THEN a.configs \cup b.configs ELSE {}
      BY <1>2, <1>4 DEF Merge
    <2> QED BY <1>1, <1>2, <1>4, <2>1 DEF Full, Wanted, ProxyNeedsPush
  <1> QED BY <1>3, <1>4

Fresh(c) == Live(c) => StateInTime(c) /\ ServedInTime(c)

(***************************************************************************)
(* A step that leaves alone everything on the way to the connection.       *)
(***************************************************************************)
OnItsWay(c) == <<ctx, changedAt, pusher.req, ToCome(c), Owed(c), inFlight[c]>>

(***************************************************************************)
(* A connection no step touches stays up to date.                          *)
(***************************************************************************)
LEMMA UntouchedFresh ==
  ASSUME NEW c, Fresh(c), Untouched(c), UNCHANGED OnItsWay(c), shuttingDown => shuttingDown'
  PROVE  Fresh(c)'
  BY DEF Fresh, Live, StateInTime, ServedInTime, InTime, Untouched, OnItsWay

(***************************************************************************)
(* A new context is owed to every client.                                  *)
(***************************************************************************)
LEMMA PusherFresh ==
  ASSUME FInv, ~ProxyUpdates, PusherStep, NEW c \in Connections
  PROVE  Fresh(c)'
  <1>1. Inv /\ PusherOK /\ LifeOK /\ Fresh(c) /\ proxyUpdate = NoUpdate
    BY DEF FInv, SInv, Fresh
  <1>2. UNCHANGED conVars
    BY StepsByActor
  <1>3. Untouched(c)
    BY <1>2 DEF Untouched, conVars
  <1>4. ~ProxyUpdateEnqueue /\ \A e \in Connections : ~ProxyUpdateRead(e)
    BY <1>1 DEF ProxyUpdateEnqueue, ProxyUpdateRead
  <1>5. Interests[c] \subseteq Configs
    BY ServerAssumption
  <1>6. ASSUME NEW ks \in SUBSET Configs, PushFull(ks) PROVE Fresh(c)'
    <2>1. /\ pusher.pc = "idle"
          /\ changedAt' = [k \in Configs |-> IF ks = {} \/ k \in ks THEN ctx + 1 ELSE changedAt[k]]
          /\ pusher'.pc = "list" /\ pusher'.req = [full |-> TRUE, push |-> ctx + 1, configs |-> ks]
          /\ inFlight' = inFlight /\ shuttingDown' = shuttingDown /\ Owed(c)' = Owed(c)
      BY <1>6, IdleView DEF PushFull
    <2>2. ToCome(c)' /\ ~ToCome(c)
      BY <2>1 DEF ToCome
    <2>3. pusher'.req # NoRequest
      <3>1. pusher'.req \in Requests
        BY <2>1, <1>6, PusherKept DEF FInv, SInv, PusherOK, ServerNext
      <3> QED BY <3>1, RequestAssumption
    <2>4. StateInTime(c)'
      BY <2>1, <2>2, <2>3 DEF StateInTime, Full
    <2>5. CASE ks = {} \/ ks \cap Interests[c] # {}
      BY <2>1, <2>2, <2>3, <2>4, <2>5 DEF Fresh, ServedInTime, Wanted, Full, ProxyNeedsPush
    <2>6. CASE ~(ks = {} \/ ks \cap Interests[c] # {})
      <3>1. \A k \in Interests[c] : changedAt'[k] = changedAt[k]
        BY <1>5, <2>1, <2>6
      <3> QED BY <1>1, <1>3, <2>1, <2>2, <2>4, <3>1
              DEF Fresh, Live, Untouched, ServedInTime, InTime
    <2> QED BY <2>5, <2>6
  <1>7. CASE PushEDS
    <2>1. pusher.pc = "idle" /\ UNCHANGED <<ctx, changedAt, inFlight, shuttingDown>> /\ Owed(c)' = Owed(c)
      BY <1>7, IdleView DEF PushEDS
    <2>2. ~ToCome(c)
      BY <2>1 DEF ToCome
    <2> QED BY <1>1, <1>3, <2>1, <2>2 DEF Fresh, Live, Untouched, StateInTime, ServedInTime, InTime
  <1>8. CASE ListClients
    <2>1. /\ pusher.pc = "list" /\ pusher'.pc = "enqueue" /\ pusher'.todo = adsClients
          /\ pusher'.req = pusher.req
          /\ UNCHANGED <<ctx, changedAt, inFlight, shuttingDown>> /\ Owed(c)' = Owed(c)
      BY <1>1, <1>8, IdleView DEF ListClients, PusherOK
    <2>2. Live(c) => (ToCome(c)' /\ ToCome(c))
      BY <1>1, <2>1 DEF ToCome, Live, LifeOK, Life
    <2> QED BY <1>1, <1>3, <2>1, <2>2 DEF Fresh, Live, Untouched, StateInTime, ServedInTime, InTime
  <1>9. CASE PushEnds
    <2>1. /\ pusher.pc = "enqueue" /\ pusher.todo = {}
          /\ UNCHANGED <<ctx, changedAt, inFlight, shuttingDown>> /\ Owed(c)' = Owed(c)
      BY <1>9, IdleView DEF PushEnds
    <2>2. ~ToCome(c)
      BY <2>1 DEF ToCome
    <2> QED BY <1>1, <1>3, <2>1, <2>2 DEF Fresh, Live, Untouched, StateInTime, ServedInTime, InTime
  <1>10. ASSUME NEW e \in Connections, EnqueueClient(e) PROVE Fresh(c)'
    <2>1. /\ pusher.pc = "enqueue" /\ e \in pusher.todo /\ EnqueueOrIgnore(e, pusher.req)
          /\ pusher' = [pusher EXCEPT !.todo = @ \ {e}]
          /\ UNCHANGED <<ctx, changedAt>>
      BY <1>10 DEF EnqueueClient
    <2>2. pusher.req \in Requests /\ pusher.req.push = ctx
      BY <1>1, <2>1 DEF PusherOK
    <2>3. /\ pusher'.req = pusher.req /\ pusher'.pc = pusher.pc
          /\ pusher'.todo = pusher.todo \ {e}
      BY <1>1, <2>1 DEF PusherOK
    <2>4. /\ inFlight' = inFlight /\ shuttingDown' = shuttingDown
          /\ e # c => Owed(c)' = Owed(c)
          /\ ~shuttingDown => Owed(e)' = Merge(Owed(e), pusher.req)
      BY <1>1, <2>1, <2>2, EnqueueView
    <2>5. CASE e # c
      <3>1. UNCHANGED OnItsWay(c)
        BY <2>1, <2>3, <2>4, <2>5 DEF OnItsWay, ToCome
      <3> QED BY <1>1, <1>3, <2>4, <3>1, UntouchedFresh
    <2>6. CASE e = c
      <3>1. SUFFICES ASSUME Live(c) PROVE (StateInTime(c) /\ ServedInTime(c))'
        BY <1>3, <2>4 DEF Fresh, Live, Untouched
      <3>2. Owed(c) \in MaybeRequests
        BY <1>1, OwedType
      <3>3. /\ Owed(c)'.push = ctx /\ Owed(c)' \in Requests
            /\ Full(Owed(c)) \/ Full(pusher.req) => Full(Owed(c)')
            /\ Wanted(c, Owed(c)) \/ Wanted(c, pusher.req) => Wanted(c, Owed(c)')
        BY <2>2, <2>4, <2>6, <3>1, <3>2, MergeMatters DEF Live
      <3>4. \A k \in Interests[c] : Owed(c)'.push >= changedAt'[k]
        BY <1>1, <1>5, <2>1, <3>3, ServerAssumption DEF PusherOK
      <3>5. StateInTime(c)'
        BY <1>1, <1>3, <2>1, <2>4, <3>1, <3>3 DEF Fresh, StateInTime, Untouched, Full
      <3>6. ServedInTime(c)'
        BY <1>1, <1>3, <2>1, <2>4, <3>1, <3>3, <3>4
        DEF Fresh, ServedInTime, Untouched, InTime, Wanted, ProxyNeedsPush, Full
      <3> QED BY <3>5, <3>6
    <2> QED BY <2>5, <2>6
  <1> QED BY <1>4, <1>6, <1>7, <1>8, <1>9, <1>10 DEF PusherStep

(***************************************************************************)
(* What is owed to a client becomes what is in flight to it, and then its  *)
(* event.                                                                  *)
(***************************************************************************)
LEMMA SenderFresh ==
  ASSUME FInv, SenderStep, NEW c \in Connections
  PROVE  Fresh(c)'
  <1>1. Inv /\ Fresh(c)
    BY DEF FInv, SInv, Fresh
  <1>2. UNCHANGED conVars /\ UNCHANGED pushVars
    BY StepsByActor
  <1>3. Untouched(c) /\ UNCHANGED <<ctx, changedAt, pusher>> /\ ToCome(c)' = ToCome(c)
    BY <1>2 DEF Untouched, conVars, pushVars, ToCome
  <1>4. ASSUME inFlight'[c] = inFlight[c], Owed(c)' = Owed(c), shuttingDown => shuttingDown'
        PROVE  Fresh(c)'
    BY <1>1, <1>3, <1>4, UntouchedFresh DEF OnItsWay
  <1>5. ASSUME NEW w \in Workers, SenderDequeues(w) PROVE Fresh(c)'
    <2>1. shuttingDown' = shuttingDown
      BY <1>1, <1>5, DequeueView DEF SenderDequeues
    <2>2. CASE queue # <<>>
      <3>1. PICK h \in Connections :
              /\ Owed(h) \in Requests /\ inFlight[h] = NoRequest
              /\ inFlight' = [inFlight EXCEPT ![h] = Owed(h)]
              /\ Owed(h)' = NoRequest
              /\ \A d \in Connections : d # h => Owed(d)' = Owed(d)
        BY <1>1, <1>5, <2>2, DequeueView DEF SenderDequeues
      <3>2. CASE h # c
        BY <1>4, <2>1, <3>1, <3>2
      <3>3. CASE h = c
        <4>1. inFlight[c] = NoRequest /\ inFlight'[c] = Owed(c) /\ Owed(c)' = NoRequest
          BY <1>1, <3>1, <3>3 DEF Inv, TypeOK
        <4> QED BY <1>1, <1>3, <2>1, <4>1
                DEF Fresh, Live, Untouched, StateInTime, ServedInTime, InTime, Wanted, Full,
                    ProxyNeedsPush
      <3> QED BY <3>2, <3>3
    <2>3. CASE queue = <<>>
      BY <1>1, <1>4, <1>5, <2>1, <2>3, DequeueView DEF SenderDequeues
    <2> QED BY <2>2, <2>3
  <1>6. ASSUME NEW d \in Connections, EventDropped(d) PROVE Fresh(c)'
    <2>1. /\ d \notin open /\ inFlight' = [inFlight EXCEPT ![d] = NoRequest]
          /\ Owed(c)' = Owed(c) /\ shuttingDown' = shuttingDown
      BY <1>1, <1>6, MarkDoneView DEF EventDropped, Done
    <2>2. CASE d = c
      BY <1>3, <2>1, <2>2 DEF Fresh, Live, Untouched
    <2>3. CASE d # c
      BY <1>1, <1>4, <2>1, <2>3 DEF Inv, TypeOK
    <2> QED BY <2>2, <2>3
  <1>7. CASE Shutdown
    BY <1>4, <1>7, ShutDownView DEF Shutdown
  <1>8. CASE SenderLoops \/ SenderAcquires \/ ReleaseSlot \/ CloseStopCh
    BY <1>4, <1>8, IdleView DEF SenderLoops, SenderAcquires, ReleaseSlot, CloseStopCh
  <1> QED BY <1>5, <1>6, <1>7, <1>8 DEF SenderStep

(***************************************************************************)
(* A connection that comes, pushes or goes leaves no client behind.        *)
(***************************************************************************)
LEMMA ConnectionFresh ==
  ASSUME FInv, NEW c \in Connections, ConnectionStep(c), NEW d \in Connections
  PROVE  Fresh(d)'
  <1>1. SInv /\ Inv /\ PusherOK /\ EventsOK /\ ConTypes /\ Life(c) /\ Fresh(c) /\ Fresh(d)
    BY DEF FInv, SInv, LifeOK, Fresh
  <1>2. UNCHANGED <<ctx, changedAt, pusher>> /\ ToCome(c)' = ToCome(c) /\ ToCome(d)' = ToCome(d)
    BY StepsByActor DEF pushVars, ToCome
  <1>3. \A e \in Connections : /\ Owed(e)' = Owed(e)
                               /\ shuttingDown' = shuttingDown
                               /\ e # c \/ ~PushConnection(c) => inFlight'[e] = inFlight[e]
    <2>1. CASE PushConnection(c)
      BY <1>1, <2>1, MarkDoneView DEF PushConnection, Done, Inv, TypeOK
    <2>2. CASE ~PushConnection(c)
      BY <2>2, StepsByActor, IdleView
    <2> QED BY <2>1, <2>2
  <1>4. CASE d # c
    <2>1. Untouched(d)
      BY <1>1, <1>4, OthersUntouched
    <2>2. UNCHANGED OnItsWay(d)
      BY <1>2, <1>3, <1>4 DEF OnItsWay
    <2> QED BY <1>1, <1>3, <2>1, <2>2, UntouchedFresh
  <1>5. Interests[c] \subseteq Configs /\ \A k \in Interests[c] : ctx >= changedAt[k]
    BY <1>1, ServerAssumption DEF PusherOK
  <1>6. ASSUME ~PushConnection(c), ~AddCon(c), Live(c)'
        PROVE  /\ Live(c)
               /\ recv'[c] = "registered" => recv[c] = "registered"
               /\ proxyState'[c] = proxyState[c] \/ proxyState'[c] = ctx
               /\ recv'[c] # "registered" /\ recv[c] = "registered" => proxyState'[c] = ctx
               /\ c \in watched' => served'[c] = ctx \/ (c \in watched /\ served'[c] = served[c])
    <2>1. CASE Connect(c) \/ ClientCloses(c)
      BY <1>1, <1>3, <1>6, <2>1 DEF Connect, ClientCloses, Live, ConTypes
    <2>2. CASE Receive(c)
      BY <1>1, <1>3, <1>6, <2>2 DEF Receive, RefuseConnection, InitProxyState, CloseInitialized,
         InitProxyStateFails, ReceiveRequest, ReceiveEnds, ReceiveReturns, Live, ConTypes
    <2>3. CASE Stream(c)
      BY <1>1, <1>3, <1>6, <2>3 DEF Stream, HandlerStarts, HandlerEnds, StopConnection,
         ProcessRequest, TakeEvent, HandlerReturns, Live, ConTypes
    <2> QED BY <2>1, <2>2, <2>3 DEF ConnectionStep
  <1>7. CASE d = c /\ ~PushConnection(c) /\ ~AddCon(c)
    <2> SUFFICES ASSUME Live(c)' PROVE (StateInTime(c) /\ ServedInTime(c))'
      BY <1>7 DEF Fresh
    <2>1. UNCHANGED <<ctx, changedAt, pusher, ToCome(c), Owed(c), inFlight[c]>>
      BY <1>2, <1>3, <1>7
    <2>2. StateInTime(c)'
      BY <1>1, <1>6, <1>7, <2>1 DEF Fresh, StateInTime
    <2>3. ServedInTime(c)'
      BY <1>1, <1>5, <1>6, <1>7, <2>1 DEF Fresh, ServedInTime, InTime
    <2> QED BY <2>2, <2>3
  <1>8. CASE d = c /\ AddCon(c)
    <2>1. /\ recv[c] = "first" /\ recv'[c] = "registered" /\ watched' = watched
          /\ inFlight'[c] = inFlight[c] /\ Owed(c)' = Owed(c)
      BY <1>1, <1>3, <1>8 DEF AddCon, PushConnection, ConTypes, EventsOK
    <2>2. Owed(c)' = NoRequest /\ inFlight'[c] = NoRequest /\ c \notin watched'
      BY <1>1, <2>1 DEF Life, Unknown, Unserved
    <2> QED BY <1>8, <2>1, <2>2 DEF Fresh, StateInTime, ServedInTime, Full, Wanted
  <1>9. CASE d = c /\ PushConnection(c)
    <2> SUFFICES ASSUME Live(c)' PROVE (StateInTime(c) /\ ServedInTime(c))'
      BY <1>9 DEF Fresh
    <2>1. /\ inFlight'[c] = NoRequest /\ inFlight[c] # NoRequest
          /\ recv' = recv /\ watched' = watched
          /\ proxyState'[c] = IF inFlight[c].full THEN inFlight[c].push ELSE proxyState[c]
      BY <1>1, <1>9, MarkDoneView DEF PushConnection, Done, Inv, TypeOK, ConTypes
    <2>2. /\ Live(c)
          /\ served'[c] = IF Wanted(c, inFlight[c]) /\ c \in watched THEN inFlight[c].push
                          ELSE served[c]
      BY <1>1, <1>3, <1>9, <2>1 DEF PushConnection, HandlerReturns, Live, ConTypes, Wanted, Full
    <2>3. UNCHANGED <<ctx, changedAt, pusher, ToCome(c), Owed(c)>>
      BY <1>2, <1>3
    <2>4. StateInTime(c)'
      BY <1>1, <2>1, <2>2, <2>3 DEF Fresh, StateInTime, Full
    <2>5. ~Wanted(c, inFlight'[c])
      BY <2>1 DEF Wanted, Full
    <2>6. ServedInTime(c)'
      BY <1>1, <2>1, <2>2, <2>3, <2>5 DEF Fresh, ServedInTime, InTime
    <2> QED BY <2>4, <2>6
  <1> QED BY <1>4, <1>7, <1>8, <1>9

(***************************************************************************)
(* As long as nobody calls ProxyUpdate, only the pusher adds to what is    *)
(* owed, with the current context.                                         *)
(***************************************************************************)
LEMMA OwedInOrder ==
  ASSUME FInv, ~ProxyUpdates, [ServerNext]_serverVars, NEW c \in Connections, Owed(c)' # NoRequest
  PROVE  \/ Owed(c)' = Owed(c)
         \/ Owed(c)'.push = ctx /\ ctx' = ctx
  <1>1. Inv /\ PusherOK /\ proxyUpdate = NoUpdate
    BY DEF FInv, SInv
  <1>2. CASE UNCHANGED queueVars
    BY <1>2, IdleView
  <1>3. ASSUME NEW e \in Connections, EnqueueClient(e)
        PROVE  Owed(c)' = Owed(c) \/ (Owed(c)'.push = ctx /\ ctx' = ctx)
    <2>1. /\ EnqueueOrIgnore(e, pusher.req) /\ ctx' = ctx
          /\ pusher.req \in Requests /\ pusher.req.push = ctx
      BY <1>1, <1>3 DEF EnqueueClient, PusherOK
    <2>2. Owed(c) \in MaybeRequests
      BY <1>1, OwedType
    <2>3. Merge(Owed(c), pusher.req).push = ctx
      BY <2>1, <2>2, MergeMatters
    <2> QED BY <1>1, <2>1, <2>3, EnqueueView
  <1>4. ~ProxyUpdateEnqueue /\ \A e \in Connections : ~ProxyUpdateRead(e)
    BY <1>1 DEF ProxyUpdateEnqueue, ProxyUpdateRead
  <1>5. CASE PusherStep
    BY <1>2, <1>3, <1>4, <1>5 DEF PusherStep, PushFull, PushEDS, ListClients, PushEnds
  <1>6. ASSUME NEW w \in Workers, SenderDequeues(w) PROVE Owed(c)' = Owed(c)
    BY <1>1, <1>6, DequeueView DEF SenderDequeues
  <1>7. ASSUME NEW e \in Connections, EventDropped(e) \/ PushConnection(e) PROVE Owed(c)' = Owed(c)
    BY <1>1, <1>7, MarkDoneView DEF EventDropped, PushConnection, Done
  <1>8. CASE Shutdown
    BY <1>8, ShutDownView DEF Shutdown
  <1>9. CASE SenderStep
    BY <1>2, <1>6, <1>7, <1>8, <1>9 DEF SenderStep, SenderLoops, SenderAcquires, ReleaseSlot, CloseStopCh
  <1>10. ASSUME NEW e \in Connections, ConnectionStep(e) PROVE Owed(c)' = Owed(c)
    BY <1>7, <1>10, StepsByActor, IdleView
  <1>11. CASE UNCHANGED serverVars
    BY <1>2, <1>11 DEF serverVars
  <1> QED BY <1>5, <1>9, <1>10, <1>11, StepsByActor

(***************************************************************************)
(* At the start no client has missed anything.                             *)
(***************************************************************************)
LEMMA ServerInitFInv == ServerInit => FInv
  <1> SUFFICES ASSUME ServerInit PROVE FInv
    OBVIOUS
  <1>1. SInv
    BY ServerInitSInv
  <1>2. \A c \in Connections : Owed(c) = NoRequest /\ c \notin open
    BY DEF ServerInit, Init, Owed
  <1>3. proxyUpdate = NoUpdate
    BY DEF ServerInit
  <1> QED BY <1>1, <1>2, <1>3 DEF FInv, OwedBehindContext, Live

(***************************************************************************)
(* Every step keeps every client up to date or on its way to it, without   *)
(* proxy updates.                                                          *)
(***************************************************************************)
LEMMA ServerNextFInv ==
  ASSUME FInv, ~ProxyUpdates, [ServerNext]_serverVars
  PROVE  FInv'
  <1>1. SInv'
    BY ServerNextSInv DEF FInv
  <1>2. /\ proxyUpdate' = NoUpdate
        /\ ctx \in Nat /\ ctx' \in Nat /\ ctx' >= ctx
    <2>1. ctx \in Nat
      BY ServerAssumption DEF FInv, SInv, PusherOK
    <2>2. CASE PusherStep
      BY <2>1, <2>2 DEF PusherStep, PushFull, PushEDS, ListClients, PushEnds, EnqueueClient,
         ProxyUpdateEnqueue, ProxyUpdateRead, FInv
    <2>3. CASE ~PusherStep
      BY <2>1, <2>3, StepsByActor DEF pushVars, serverVars, FInv
    <2> QED BY <2>2, <2>3
  <1>3. OwedBehindContext'
    <2> SUFFICES ASSUME NEW c \in Connections, Owed(c)' # NoRequest PROVE Owed(c)'.push <= ctx'
      BY DEF OwedBehindContext
    <2>1. Owed(c)' = Owed(c) \/ (Owed(c)'.push = ctx /\ ctx' = ctx)
      BY OwedInOrder
    <2>2. Owed(c) # NoRequest => Owed(c).push \in Nat /\ Owed(c).push <= ctx
      <3>1. Owed(c) \in MaybeRequests
        BY OwedType DEF FInv, SInv
      <3> QED BY <3>1, ServerAssumption DEF FInv, OwedBehindContext, MaybeRequests, Requests
    <2> QED BY <1>2, <2>1, <2>2
  <1>4. ASSUME NEW c \in Connections PROVE Fresh(c)'
    <2>1. CASE UNCHANGED serverVars
      BY <2>1, UntouchedFresh, IdleView
      DEF serverVars, pushVars, conVars, Untouched, OnItsWay, ToCome, FInv, Fresh
    <2> QED BY <2>1, PusherFresh, SenderFresh, ConnectionFresh, StepsByActor
  <1> QED BY <1>1, <1>2, <1>3, <1>4 DEF FInv, Fresh

(***************************************************************************)
(* It holds in every reachable state.                                      *)
(***************************************************************************)
LEMMA AlwaysFInv ==
  ASSUME ~ProxyUpdates
  PROVE  ServerSpec => []FInv
  <1>1. FInv /\ [ServerNext]_serverVars => FInv'
    BY ServerNextFInv
  <1> QED BY <1>1, ServerInitFInv, PTL DEF ServerSpec

(***************************************************************************)
(* Where registries do not call ProxyUpdate, every proxy that the server   *)
(* is through with has the current context, and has been sent every change *)
(* of what it depends on, however connections, pushes, merges and requests *)
(* interleave.  With ProxyUpdate it is false (LaterContextWins).           *)
(***************************************************************************)
THEOREM ClientsAlwaysFresh ==
  ASSUME ~ProxyUpdates
  PROVE  ServerSpec => []ClientsFresh
  <1>1. ASSUME FInv PROVE ClientsFresh
    <2> SUFFICES ASSUME NEW c \in Connections, SettledFor(c), ~shuttingDown
                 PROVE  /\ proxyState[c] = ctx
                        /\ c \in watched => \A k \in Interests[c] : served[c] >= changedAt[k]
      BY DEF ClientsFresh
    <2>1. /\ ~ToCome(c) /\ Owed(c) = NoRequest /\ inFlight[c] = NoRequest /\ recv[c] = "loop"
          /\ Live(c)
      BY DEF SettledFor, ToCome, Live
    <2> QED BY <1>1, <2>1 DEF FInv, StateInTime, ServedInTime, Full, Wanted
  <1> QED BY <1>1, AlwaysFInv, PTL

(***************************************************************************)
(* ... and what is owed to a connection never falls back to an older       *)
(* context, as Merge presumes.                                             *)
(***************************************************************************)
THEOREM LaterContextAlwaysWins ==
  ASSUME ~ProxyUpdates
  PROVE  ServerSpec => LaterContextWins
  <1>1. ASSUME FInv, [ServerNext]_serverVars
        PROVE  [\A c \in Connections :
                  Owed(c) # NoRequest /\ Owed(c)' # NoRequest
                    => Owed(c)'.push >= Owed(c).push]_queueVars
    <2> SUFFICES ASSUME NEW c \in Connections, Owed(c) # NoRequest, Owed(c)' # NoRequest
                 PROVE  Owed(c)'.push >= Owed(c).push
      OBVIOUS
    <2>1. Owed(c)' = Owed(c) \/ (Owed(c)'.push = ctx /\ ctx' = ctx)
      BY <1>1, OwedInOrder
    <2>2. Owed(c) \in MaybeRequests
      BY <1>1, OwedType DEF FInv, SInv
    <2>3. Owed(c).push \in Nat /\ ctx \in Nat /\ Owed(c).push <= ctx
      BY <1>1, <2>2, ServerAssumption
      DEF FInv, SInv, PusherOK, OwedBehindContext, MaybeRequests, Requests
    <2> QED BY <2>1, <2>3
  <1> QED BY <1>1, AlwaysFInv, PTL DEF ServerSpec, LaterContextWins
=============================================================================
