--------------------------- MODULE PushQueueProofs ---------------------------
(***************************************************************************)
(* Proofs about PushRequest and PushQueue, for every set of connections,   *)
(* workers, configuration keys and push contexts.                          *)
(***************************************************************************)
EXTENDS PushQueue, TLAPS

-----------------------------------------------------------------------------
(* Merge.                                                                  *)

(***************************************************************************)
(* Merging two requests yields a request.                                  *)
(***************************************************************************)
LEMMA MergeType ==
  ASSUME NEW a \in MaybeRequests, NEW b \in Requests
  PROVE  Merge(a, b) \in Requests /\ Merge(a, b) # NoRequest
  BY RequestAssumption DEF MaybeRequests, Requests, Merge

(***************************************************************************)
(* Merging loses nothing: the merged request covers both of its parts, so  *)
(* a full push stays full and every key that either part touches, or       *)
(* "everything" when a part named no key, is still touched.  It is built   *)
(* from the context of the second part (push_context.go, Merge).           *)
(***************************************************************************)
THEOREM MergeCovers ==
  ASSUME NEW a \in MaybeRequests, NEW b \in Requests
  PROVE  /\ Covers(Merge(a, b), a)
         /\ Covers(Merge(a, b), b)
         /\ Merge(a, b).push = b.push
  BY RequestAssumption DEF MaybeRequests, Requests, Merge, Covers, Affects

-----------------------------------------------------------------------------
(* Sequences as queues: what Append, Head and Tail do to the set of        *)
(* queued connections and to the absence of duplicates.                    *)

NoDuplicates(q) == \A i, j \in 1..Len(q) : q[i] = q[j] => i = j

(***************************************************************************)
(* append(p.queue, con): the queue gains con at its end and, if con was    *)
(* not queued, still holds nobody twice.                                   *)
(***************************************************************************)
LEMMA AppendQueue ==
  ASSUME NEW S, NEW q \in Seq(S), NEW e \in S
  PROVE  /\ Append(q, e) \in Seq(S)
         /\ Append(q, e) # <<>>
         /\ \A x : (\E i \in 1..Len(Append(q, e)) : Append(q, e)[i] = x)
                     <=> (x = e \/ \E i \in 1..Len(q) : q[i] = x)
         /\ (~ \E i \in 1..Len(q) : q[i] = e) /\ NoDuplicates(q)
               => NoDuplicates(Append(q, e))
  <1>1. /\ Len(q) \in Nat
        /\ Append(q, e) \in Seq(S)
        /\ Len(Append(q, e)) = Len(q) + 1
        /\ \A i \in 1..Len(q) : Append(q, e)[i] = q[i]
        /\ Append(q, e)[Len(q) + 1] = e
    OBVIOUS
  <1>2. Append(q, e) # <<>>
    BY <1>1
  <1>3. ASSUME NEW x, NEW i \in 1..Len(Append(q, e)), Append(q, e)[i] = x
        PROVE  x = e \/ \E j \in 1..Len(q) : q[j] = x
    <2>1. i \in 1..Len(q) \/ i = Len(q) + 1
      BY <1>1
    <2> QED BY <1>1, <1>3, <2>1
  <1>4. ASSUME NEW x, x = e \/ \E j \in 1..Len(q) : q[j] = x
        PROVE  \E i \in 1..Len(Append(q, e)) : Append(q, e)[i] = x
    <2>1. CASE x = e
      <3>1. Len(q) + 1 \in 1..Len(Append(q, e))
        BY <1>1
      <3> QED BY <1>1, <2>1, <3>1
    <2>2. CASE \E j \in 1..Len(q) : q[j] = x
      <3>1. PICK j \in 1..Len(q) : q[j] = x
        BY <2>2
      <3>2. j \in 1..Len(Append(q, e)) /\ Append(q, e)[j] = x
        BY <1>1, <3>1
      <3> QED BY <3>2
    <2> QED BY <1>4, <2>1, <2>2
  <1>5. ASSUME ~ \E i \in 1..Len(q) : q[i] = e, NoDuplicates(q)
        PROVE  NoDuplicates(Append(q, e))
    <2> SUFFICES ASSUME NEW i \in 1..Len(q) + 1, NEW j \in 1..Len(q) + 1,
                        Append(q, e)[i] = Append(q, e)[j]
                 PROVE  i = j
      BY <1>1 DEF NoDuplicates
    <2>1. CASE i \in 1..Len(q) /\ j \in 1..Len(q)
      BY <1>1, <1>5, <2>1 DEF NoDuplicates
    <2>2. CASE i = Len(q) + 1 \/ j = Len(q) + 1
      BY <1>1, <1>5, <2>2
    <2> QED BY <1>1, <2>1, <2>2
  <1> QED BY <1>1, <1>2, <1>3, <1>4, <1>5

(***************************************************************************)
(* p.queue[1:]: exactly the head leaves a queue that holds nobody twice.   *)
(***************************************************************************)
LEMMA TailQueue ==
  ASSUME NEW S, NEW q \in Seq(S), q # <<>>, NoDuplicates(q)
  PROVE  /\ Tail(q) \in Seq(S)
         /\ Head(q) \in S
         /\ \E i \in 1..Len(q) : q[i] = Head(q)
         /\ NoDuplicates(Tail(q))
         /\ \A x : (\E i \in 1..Len(Tail(q)) : Tail(q)[i] = x)
                     <=> (x # Head(q) /\ \E i \in 1..Len(q) : q[i] = x)
  <1>1. /\ Len(q) \in Nat \ {0}
        /\ Tail(q) \in Seq(S)
        /\ Len(Tail(q)) = Len(q) - 1
        /\ \A i \in 1..Len(q) - 1 : Tail(q)[i] = q[i + 1]
        /\ Head(q) = q[1]
        /\ Head(q) \in S
    OBVIOUS
  <1>2. NoDuplicates(Tail(q))
    BY <1>1 DEF NoDuplicates
  <1>3. ASSUME NEW x, NEW i \in 1..Len(Tail(q)), Tail(q)[i] = x
        PROVE  x # Head(q) /\ \E j \in 1..Len(q) : q[j] = x
    BY <1>1, <1>3 DEF NoDuplicates
  <1>4. ASSUME NEW x, x # Head(q), NEW i \in 1..Len(q), q[i] = x
        PROVE  \E j \in 1..Len(Tail(q)) : Tail(q)[j] = x
    <2>1. i # 1 /\ i - 1 \in 1..Len(Tail(q)) /\ Tail(q)[i - 1] = x
      BY <1>1, <1>4
    <2> QED BY <2>1
  <1> QED BY <1>1, <1>2, <1>3, <1>4

-----------------------------------------------------------------------------
(* The inductive invariant, one lemma per action.                          *)

(***************************************************************************)
(* NewPushQueue establishes the invariant.                                 *)
(***************************************************************************)
LEMMA InitInv == Init => Inv
  <1> SUFFICES ASSUME Init PROVE Inv
    OBVIOUS
  <1>1. Len(queue) = 0 /\ queue \in Seq(Connections)
    BY DEF Init
  <1>2. TypeOK
    BY <1>1 DEF Init, TypeOK, MaybeRequests
  <1>3. \A c \in Connections : ~Queued(c)
    BY <1>1 DEF Queued
  <1>4. QueueMatchesPending
    BY <1>1, <1>3 DEF Init, QueueMatchesPending
  <1>5. OnePushPerConnection
    BY <1>3 DEF Init, OnePushPerConnection
  <1>6. NoLostWakeup
    BY DEF Init, NoLostWakeup
  <1> QED BY <1>2, <1>4, <1>5, <1>6 DEF Inv

(***************************************************************************)
(* cond.Signal after an item is added leaves a worker that is awake.       *)
(***************************************************************************)
LEMMA SignalWakes ==
  ASSUME Inv, Signal, exited' = exited, shuttingDown' = shuttingDown
  PROVE  /\ waiting' \in SUBSET Workers
         /\ ~shuttingDown' => Workers \ (waiting' \cup exited') # {}
         /\ shuttingDown' => waiting' = {}
  BY QueueAssumption DEF Inv, TypeOK, NoLostWakeup, Signal

(***************************************************************************)
(* Enqueue preserves the invariant, in each of its three cases.            *)
(***************************************************************************)
LEMMA EnqueueInv ==
  ASSUME Inv, NEW c \in Connections, NEW r \in Requests, Enqueue(c, r)
  PROVE  Inv'
  <1> USE DEF Inv
  <1>1. CASE MergeIntoProcessing(c, r)
    <2>1. processing[c] \in MaybeRequests
      BY <1>1 DEF TypeOK, MergeIntoProcessing
    <2>2. Merge(processing[c], r) \in Requests /\ Merge(processing[c], r) # NoRequest
      BY <2>1, MergeType
    <2>3. TypeOK'
      BY <1>1, <2>2 DEF TypeOK, Enqueue, MergeIntoProcessing, MaybeRequests
    <2>4. \A d \in Connections : processing'[d] # Absent <=> processing[d] # Absent
      BY <1>1, <2>2, QueueAssumption DEF TypeOK, MergeIntoProcessing, MaybeRequests
    <2>5. QueueMatchesPending'
      BY <1>1 DEF QueueMatchesPending, Queued, MergeIntoProcessing
    <2>6. OnePushPerConnection'
      BY <1>1, <2>4 DEF OnePushPerConnection, Queued, Enqueue, MergeIntoProcessing
    <2>7. NoLostWakeup'
      BY <1>1 DEF NoLostWakeup, Enqueue, MergeIntoProcessing
    <2> QED BY <2>3, <2>5, <2>6, <2>7
  <1>2. CASE MergeIntoPending(c, r)
    <2>1. pending[c] \in MaybeRequests
      BY <1>2 DEF TypeOK, MergeIntoPending, MaybeRequests
    <2>2. Merge(pending[c], r) \in Requests
      BY <2>1, MergeType
    <2>3. TypeOK'
      BY <1>2, <2>2 DEF TypeOK, Enqueue, MergeIntoPending
    <2>4. \A d \in Connections : pending'[d] # Absent <=> pending[d] # Absent
      BY <1>2, <2>2, QueueAssumption DEF TypeOK, MergeIntoPending, MaybeRequests
    <2>5. QueueMatchesPending'
      BY <1>2, <2>4 DEF QueueMatchesPending, Queued, MergeIntoPending
    <2>6. OnePushPerConnection'
      BY <1>2 DEF OnePushPerConnection, Queued, Enqueue, MergeIntoPending
    <2>7. NoLostWakeup'
      BY <1>2 DEF NoLostWakeup, Enqueue, MergeIntoPending
    <2> QED BY <2>3, <2>5, <2>6, <2>7
  <1>3. CASE AddPending(c, r)
    <2>1. queue \in Seq(Connections) /\ queue' = Append(queue, c)
      BY <1>3 DEF TypeOK, AddPending
    <2>2. ~Queued(c) /\ NoDuplicates(queue)
      BY <1>3 DEF QueueMatchesPending, AddPending, NoDuplicates
    <2>3. /\ queue' \in Seq(Connections)
          /\ NoDuplicates(queue')
          /\ \A d : Queued(d)' <=> (d = c \/ Queued(d))
      BY <2>1, <2>2, AppendQueue DEF Queued
    <2>4. exited' = exited /\ shuttingDown' = shuttingDown /\ Signal
      BY <1>3 DEF Enqueue, AddPending
    <2>5. TypeOK'
      BY <1>3, <2>3, <2>4, SignalWakes DEF TypeOK, Enqueue, AddPending
    <2>6. QueueMatchesPending'
      BY <1>3, <2>3, QueueAssumption
      DEF QueueMatchesPending, AddPending, NoDuplicates, TypeOK, MaybeRequests
    <2>7. OnePushPerConnection'
      BY <1>3, <2>3 DEF OnePushPerConnection, Enqueue, AddPending
    <2>8. NoLostWakeup'
      BY <2>4, SignalWakes DEF NoLostWakeup
    <2> QED BY <2>5, <2>6, <2>7, <2>8
  <1> QED BY <1>1, <1>2, <1>3 DEF Enqueue

(***************************************************************************)
(* What TakeHead takes: a connection with a pending request, queued once.  *)
(***************************************************************************)
LEMMA TakeHeadFacts ==
  ASSUME Inv, TakeHead
  PROVE  /\ Head(queue) \in Connections
         /\ pending[Head(queue)] \in Requests
         /\ processing[Head(queue)] = Absent
         /\ inFlight[Head(queue)] = NoRequest
         /\ queue' \in Seq(Connections)
         /\ NoDuplicates(queue')
         /\ \A d : Queued(d)' <=> (d # Head(queue) /\ Queued(d))
  <1>1. /\ queue \in Seq(Connections) /\ queue # <<>> /\ queue' = Tail(queue)
        /\ NoDuplicates(queue)
    BY DEF Inv, TypeOK, TakeHead, QueueMatchesPending, NoDuplicates
  <1>2. /\ Head(queue) \in Connections
        /\ \E i \in 1..Len(queue) : queue[i] = Head(queue)
        /\ Tail(queue) \in Seq(Connections)
        /\ NoDuplicates(Tail(queue))
        /\ \A d : (\E i \in 1..Len(Tail(queue)) : Tail(queue)[i] = d)
                    <=> (d # Head(queue) /\ \E i \in 1..Len(queue) : queue[i] = d)
    BY <1>1, TailQueue, Zenon
  <1>3. /\ Queued(Head(queue))
        /\ queue' \in Seq(Connections)
        /\ NoDuplicates(queue')
        /\ \A d : Queued(d)' <=> (d # Head(queue) /\ Queued(d))
    BY <1>1, <1>2, Zenon DEF Queued
  <1>4. pending[Head(queue)] \in Requests
    BY <1>2, <1>3 DEF Inv, QueueMatchesPending, TypeOK
  <1>5. processing[Head(queue)] = Absent /\ inFlight[Head(queue)] = NoRequest
    BY <1>2, <1>3 DEF Inv, OnePushPerConnection
  <1> QED BY <1>2, <1>3, <1>4, <1>5

(***************************************************************************)
(* Dequeue preserves the invariant, whether it takes the head, exits or    *)
(* goes to sleep.                                                          *)
(***************************************************************************)
LEMMA DequeueInv ==
  ASSUME Inv, NEW w \in Workers, Dequeue(w)
  PROVE  Inv'
  <1> USE DEF Inv
  <1>1. CASE TakeHead
    <2> DEFINE h == Head(queue)
    <2>1. TypeOK'
      BY <1>1, TakeHeadFacts DEF TypeOK, Dequeue, TakeHead, MaybeRequests
    <2>2. QueueMatchesPending'
      BY <1>1, TakeHeadFacts
      DEF QueueMatchesPending, TypeOK, TakeHead, NoDuplicates
    <2>3. OnePushPerConnection'
      BY <1>1, TakeHeadFacts, RequestAssumption, QueueAssumption
      DEF OnePushPerConnection, TypeOK, TakeHead, MaybeRequests
    <2>4. NoLostWakeup'
      BY <1>1 DEF NoLostWakeup, Dequeue, TakeHead
    <2> QED BY <2>1, <2>2, <2>3, <2>4
  <1>2. CASE ExitOnShutdown(w)
    BY <1>2 DEF TypeOK, QueueMatchesPending, OnePushPerConnection, NoLostWakeup,
       Queued, Dequeue, ExitOnShutdown
  <1>3. CASE Wait(w)
    BY <1>3 DEF TypeOK, QueueMatchesPending, OnePushPerConnection, NoLostWakeup,
       Queued, Dequeue, Wait
  <1> QED BY <1>1, <1>2, <1>3 DEF Dequeue

(***************************************************************************)
(* MarkDone preserves the invariant, with and without a request to put     *)
(* back.                                                                   *)
(***************************************************************************)
LEMMA MarkDoneInv ==
  ASSUME Inv, NEW c \in Connections, MarkDone(c)
  PROVE  Inv'
  <1> USE DEF Inv
  <1>1. processing[c] # Absent /\ ~Queued(c) /\ processing[c] \in MaybeRequests
    BY DEF OnePushPerConnection, MarkDone, TypeOK
  <1>2. CASE processing[c] # NoRequest
    <2>1. /\ pending' = [pending EXCEPT ![c] = processing[c]]
          /\ queue' = Append(queue, c)
          /\ Signal
          /\ processing[c] \in Requests
      BY <1>1, <1>2 DEF MarkDone, Requeue, MaybeRequests
    <2>2. queue \in Seq(Connections) /\ NoDuplicates(queue)
      BY DEF TypeOK, QueueMatchesPending, NoDuplicates
    <2>3. /\ queue' \in Seq(Connections)
          /\ NoDuplicates(queue')
          /\ \A d : Queued(d)' <=> (d = c \/ Queued(d))
      BY <1>1, <2>1, <2>2, AppendQueue DEF Queued
    <2>4. exited' = exited /\ shuttingDown' = shuttingDown
      BY DEF MarkDone
    <2>5. TypeOK'
      BY <2>1, <2>3, <2>4, SignalWakes DEF TypeOK, MarkDone, MaybeRequests
    <2>6. QueueMatchesPending'
      BY <2>1, <2>3, QueueAssumption
      DEF QueueMatchesPending, NoDuplicates, TypeOK, MaybeRequests
    <2>7. OnePushPerConnection'
      BY <2>3 DEF OnePushPerConnection, MarkDone, TypeOK
    <2>8. NoLostWakeup'
      BY <2>1, <2>4, SignalWakes DEF NoLostWakeup
    <2> QED BY <2>5, <2>6, <2>7, <2>8
  <1>3. CASE processing[c] = NoRequest
    <2>1. UNCHANGED <<pending, queue, waiting, shuttingDown, exited>>
      BY <1>3 DEF MarkDone, Requeue
    <2>2. TypeOK'
      BY <2>1 DEF TypeOK, MarkDone, MaybeRequests
    <2>3. QueueMatchesPending' /\ NoLostWakeup'
      BY <2>1 DEF QueueMatchesPending, NoLostWakeup, Queued
    <2>4. OnePushPerConnection'
      BY <2>1 DEF OnePushPerConnection, MarkDone, TypeOK, Queued
    <2> QED BY <2>2, <2>3, <2>4
  <1> QED BY <1>2, <1>3

(***************************************************************************)
(* ShutDown preserves the invariant: Broadcast wakes everybody.            *)
(***************************************************************************)
LEMMA ShutDownInv ==
  ASSUME Inv, ShutDown
  PROVE  Inv'
  BY DEF Inv, TypeOK, QueueMatchesPending, OnePushPerConnection, NoLostWakeup,
     Queued, ShutDown, Broadcast

(***************************************************************************)
(* The invariant is inductive.                                             *)
(***************************************************************************)
LEMMA NextInv ==
  ASSUME Inv, [Next]_vars
  PROVE  Inv'
  <1>1. CASE UNCHANGED vars
    BY <1>1 DEF vars, Inv, TypeOK, QueueMatchesPending, OnePushPerConnection,
       NoLostWakeup, Queued
  <1> QED BY <1>1, EnqueueInv, DequeueInv, MarkDoneInv, ShutDownInv DEF Next

(***************************************************************************)
(* PushQueue is safe for any number of connections and workers: the queue  *)
(* and the map pending agree, pushes to one connection never overlap, and  *)
(* no wakeup is lost.                                                      *)
(***************************************************************************)
THEOREM QueueSafe == Spec => []Inv
  <1>1. Inv /\ [Next]_vars => Inv'
    BY NextInv
  <1> QED BY InitInv, <1>1, PTL DEF Spec

(***************************************************************************)
(* The queue's slice and its map pending describe the same connections,    *)
(* none of them twice, in every reachable state of Enqueue, Dequeue and    *)
(* MarkDone (pushqueue.go).                                                *)
(***************************************************************************)
THEOREM QueueConsistent == Spec => []QueueMatchesPending
  BY QueueSafe, PTL DEF Inv

(***************************************************************************)
(* Two pushes to one connection never overlap.                             *)
(***************************************************************************)
THEOREM PushesDoNotOverlap == Spec => []OnePushPerConnection
  BY QueueSafe, PTL DEF Inv

(***************************************************************************)
(* cond.Signal and cond.Broadcast are called where they are needed: with   *)
(* something queued the workers are never all asleep, nor is any of them   *)
(* after ShutDown.                                                         *)
(***************************************************************************)
THEOREM WakeupsNotLost == Spec => []NoLostWakeup
  BY QueueSafe, PTL DEF Inv

-----------------------------------------------------------------------------
(* The refinement, one lemma per action: each step of the queue is a step  *)
(* of the mailbox or leaves it alone.                                      *)

(***************************************************************************)
(* A new queue is an empty mailbox.                                        *)
(***************************************************************************)
LEMMA InitMailbox == Init => Mailbox!Init
  BY DEF Init, Mailbox!Init, Owed

(***************************************************************************)
(* Every Enqueue adds its request to what the mailbox owes the connection. *)
(***************************************************************************)
LEMMA EnqueueAsks ==
  ASSUME Inv, NEW c \in Connections, NEW r \in Requests, Enqueue(c, r)
  PROVE  Mailbox!Ask(c, r)
  <1>1. \A d \in Connections : d # c => Owed(d)' = Owed(d)
    BY DEF Enqueue, MergeIntoProcessing, MergeIntoPending, AddPending, Owed, Inv, TypeOK
  <1>2. Owed(c)' = Merge(Owed(c), r)
    <2>1. CASE MergeIntoProcessing(c, r)
      <3>1. pending[c] = Absent /\ processing[c] \in MaybeRequests
        BY <2>1 DEF Inv, TypeOK, OnePushPerConnection, QueueMatchesPending, MergeIntoProcessing
      <3>2. Merge(processing[c], r) \in Requests
        BY <3>1, MergeType
      <3> QED BY <2>1, <3>1, <3>2, QueueAssumption
              DEF MergeIntoProcessing, Owed, Inv, TypeOK, MaybeRequests
    <2>2. CASE MergeIntoPending(c, r)
      <3>1. pending[c] \in MaybeRequests
        BY <2>2 DEF Inv, TypeOK, MergeIntoPending, MaybeRequests
      <3>2. Merge(pending[c], r) \in Requests
        BY <3>1, MergeType
      <3> QED BY <2>2, <3>1, <3>2, QueueAssumption
              DEF MergeIntoPending, Owed, Inv, TypeOK, MaybeRequests
    <2>3. CASE AddPending(c, r)
      BY <2>3, QueueAssumption DEF AddPending, Owed, Merge, Inv, TypeOK, MaybeRequests
    <2> QED BY <2>1, <2>2, <2>3 DEF Enqueue
  <1>3. UNCHANGED inFlight
    BY DEF Enqueue
  <1>4. Mailbox!Merge(Owed(c), r) = Merge(Owed(c), r)
    BY DEF Mailbox!Merge, Merge
  <1> QED BY <1>1, <1>2, <1>3, <1>4 DEF Mailbox!Ask

(***************************************************************************)
(* Taking the head of the queue hands out all that is owed to a connection *)
(* none of whose requests is in flight.                                    *)
(***************************************************************************)
LEMMA TakeHeadHands ==
  ASSUME Inv, TakeHead
  PROVE  \E h \in Connections : Mailbox!Hand(h)
  <1>1. PICK h \in Connections :
          /\ h = Head(queue) /\ pending[h] \in Requests
          /\ processing[h] = Absent /\ inFlight[h] = NoRequest
    BY TakeHeadFacts
  <1>2. Owed(h) = pending[h] /\ Owed(h) # NoRequest
    BY <1>1, RequestAssumption, QueueAssumption DEF Owed, MaybeRequests
  <1>3. Owed(h)' = NoRequest
    BY <1>1, QueueAssumption DEF TakeHead, Owed, Inv, TypeOK, MaybeRequests
  <1>4. \A d \in Connections : d # h => Owed(d)' = Owed(d)
    BY <1>1 DEF TakeHead, Owed, Inv, TypeOK
  <1>5. inFlight' = [inFlight EXCEPT ![h] = pending[h]]
    BY <1>1 DEF TakeHead
  <1>6. Mailbox!Hand(h)
    BY <1>1, <1>2, <1>3, <1>4, <1>5 DEF Mailbox!Hand
  <1> QED BY <1>6

(***************************************************************************)
(* MarkDone only ends the hand-out: what was merged meanwhile stays owed.  *)
(***************************************************************************)
LEMMA MarkDoneDone ==
  ASSUME Inv, NEW c \in Connections, MarkDone(c)
  PROVE  Mailbox!Done(c)
  <1>1. processing[c] # Absent /\ pending[c] = Absent
    BY DEF Inv, OnePushPerConnection, QueueMatchesPending, MarkDone
  <1>2. \A d \in Connections : Owed(d)' = Owed(d)
    BY <1>1 DEF MarkDone, Requeue, Owed, Inv, TypeOK
  <1> QED BY <1>2 DEF MarkDone, Mailbox!Done

(***************************************************************************)
(* Every step of the queue is a step of the mailbox or changes nothing     *)
(* there.                                                                  *)
(***************************************************************************)
LEMMA StepRefines ==
  ASSUME Inv, [Next]_vars
  PROVE  [Mailbox!Next]_(Mailbox!mailboxVars)
  <1>1. CASE UNCHANGED <<pending, processing, inFlight>>
    BY <1>1 DEF Mailbox!mailboxVars, Owed
  <1>2. ASSUME NEW c \in Connections, NEW r \in Requests, Enqueue(c, r)
        PROVE  Mailbox!Next
    BY <1>2, EnqueueAsks DEF Mailbox!Next, Mailbox!Requests, Requests
  <1>3. ASSUME TakeHead PROVE Mailbox!Next
    BY <1>3, TakeHeadHands DEF Mailbox!Next
  <1>4. ASSUME NEW c \in Connections, MarkDone(c) PROVE Mailbox!Next
    BY <1>4, MarkDoneDone DEF Mailbox!Next
  <1>5. ASSUME NEW w \in Workers, Dequeue(w), ~TakeHead
        PROVE  UNCHANGED <<pending, processing, inFlight>>
    BY <1>5 DEF Dequeue, ExitOnShutdown, Wait
  <1> QED BY <1>1, <1>2, <1>3, <1>4, <1>5 DEF Next, vars, ShutDown

(***************************************************************************)
(* The queue implements the mailbox, for any number of connections and     *)
(* workers: every Enqueue is remembered, a hand-out carries the merge of   *)
(* everything asked since the previous one, and hand-outs of a connection  *)
(* do not overlap.                                                         *)
(***************************************************************************)
THEOREM QueueImplementsMailbox == Spec => ImplementsMailbox
  <1>1. Inv /\ [Next]_vars => [Mailbox!Next]_(Mailbox!mailboxVars)
    BY StepRefines
  <1> QED BY InitMailbox, QueueSafe, <1>1, PTL DEF Spec, ImplementsMailbox, Mailbox!Spec
=============================================================================
