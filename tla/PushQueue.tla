------------------------------ MODULE PushQueue ------------------------------
(***************************************************************************)
(* PushQueue (pilot/pkg/xds/pushqueue.go): the queue between the debounced *)
(* configuration updates and the goroutine that starts pushes.  Every      *)
(* method runs under cond.L, so each of them is one atomic action; the     *)
(* only place where a method lets go of the lock half way is cond.Wait in  *)
(* Dequeue, which is why blocked callers are part of the state.            *)
(*                                                                         *)
(* The callers are modelled by what they keep of the queue: the workers    *)
(* that call Dequeue in a loop (waiting, exited) and, per connection, the  *)
(* request handed out and not yet marked done (inFlight).                  *)
(***************************************************************************)
EXTENDS PushRequest, Sequences

CONSTANTS Connections,
          Workers,   \* the goroutines that call Dequeue in a loop
          Absent     \* "no such key" in the maps pending and processing

ASSUME QueueAssumption ==
  /\ Workers # {}
  /\ Absent \notin MaybeRequests

VARIABLES pending,       \* map[*Connection]*PushRequest
          queue,         \* []*Connection
          processing,    \* map[*Connection]*PushRequest; nil until Enqueue merges into it
          shuttingDown,
          waiting,       \* the workers asleep in cond.Wait
          exited,        \* the workers that were told to shut down
          inFlight       \* what Dequeue returned for c, until MarkDone(c)

vars == <<pending, queue, processing, shuttingDown, waiting, exited, inFlight>>

(***************************************************************************)
(* cond.Signal wakes one sleeper if there is one, cond.Broadcast all.      *)
(***************************************************************************)
Signal ==
  \/ waiting = {} /\ UNCHANGED waiting
  \/ \E w \in waiting : waiting' = waiting \ {w}

Broadcast == waiting' = {}

Init ==
  /\ pending      = [c \in Connections |-> Absent]
  /\ queue        = <<>>
  /\ processing   = [c \in Connections |-> Absent]
  /\ shuttingDown = FALSE
  /\ waiting      = {}
  /\ exited       = {}
  /\ inFlight     = [c \in Connections |-> NoRequest]

-----------------------------------------------------------------------------
\* Variant with a bug: processing is not looked at, the connection is queued.
QueueWhileProcessing(c, r) ==
  /\ processing[c] # Absent
  /\ pending' = [pending EXCEPT ![c] = r]
  /\ queue'   = Append(queue, c)
  /\ Signal
  /\ UNCHANGED processing

\* Variant with a bug: no Signal.
AddPendingSilently(c, r) ==
  /\ processing[c] = Absent
  /\ pending[c] = Absent
  /\ pending' = [pending EXCEPT ![c] = r]
  /\ queue'   = Append(queue, c)
  /\ UNCHANGED <<processing, waiting>>

(***************************************************************************)
(* Enqueue(con, pushRequest).  During shutdown it returns at once, which   *)
(* is a stuttering step.                                                   *)
(***************************************************************************)
MergeIntoProcessing(c, r) ==
  /\ processing[c] # Absent
  /\ processing' = [processing EXCEPT ![c] = Merge(@, r)]
  /\ UNCHANGED <<pending, queue, waiting>>

MergeIntoPending(c, r) ==
  /\ processing[c] = Absent
  /\ pending[c] # Absent
  /\ pending' = [pending EXCEPT ![c] = Merge(@, r)]
  /\ UNCHANGED <<processing, queue, waiting>>

AddPending(c, r) ==
  /\ processing[c] = Absent
  /\ pending[c] = Absent
  /\ pending' = [pending EXCEPT ![c] = r]
  /\ queue'   = Append(queue, c)
  /\ Signal
  /\ UNCHANGED processing

Enqueue(c, r) ==
  /\ ~shuttingDown
  /\ \/ MergeIntoProcessing(c, r)
     \/ MergeIntoPending(c, r)
     \/ AddPending(c, r)
  /\ UNCHANGED <<shuttingDown, exited, inFlight>>

\* Variant with a bug: the connection stays in pending.
TakeHeadKeepsPending ==
  LET c == Head(queue)
  IN  /\ queue # <<>>
      /\ queue'      = Tail(queue)
      /\ inFlight'   = [inFlight EXCEPT ![c] = pending[c]]
      /\ processing' = [processing EXCEPT ![c] = NoRequest]
      /\ UNCHANGED <<pending, waiting, exited>>

(***************************************************************************)
(* Dequeue() by worker w: take the head, or leave on shutdown, or sleep.   *)
(* A woken worker re-evaluates the loop condition, that is, it is again at *)
(* the start of Dequeue.                                                   *)
(***************************************************************************)
TakeHead ==
  LET c == Head(queue)
  IN  /\ queue # <<>>
      /\ queue'      = Tail(queue)
      /\ inFlight'   = [inFlight EXCEPT ![c] = pending[c]]
      /\ pending'    = [pending EXCEPT ![c] = Absent]
      /\ processing' = [processing EXCEPT ![c] = NoRequest]
      /\ UNCHANGED <<waiting, exited>>

ExitOnShutdown(w) ==
  /\ queue = <<>>
  /\ shuttingDown
  /\ exited' = exited \cup {w}
  /\ UNCHANGED <<pending, queue, processing, waiting, inFlight>>

Wait(w) ==
  /\ queue = <<>>
  /\ ~shuttingDown
  /\ waiting' = waiting \cup {w}
  /\ UNCHANGED <<pending, queue, processing, exited, inFlight>>

Dequeue(w) ==
  /\ w \notin waiting \cup exited
  /\ TakeHead \/ ExitOnShutdown(w) \/ Wait(w)
  /\ UNCHANGED shuttingDown

\* Variants with a bug: what was merged in the meantime is forgotten, or goes first.
RequeueForgets(c) == UNCHANGED <<pending, queue, waiting>>

RequeueFirst(c) ==
  IF processing[c] # NoRequest
  THEN /\ pending' = [pending EXCEPT ![c] = processing[c]]
       /\ queue'   = <<c>> \o queue
       /\ Signal
  ELSE UNCHANGED <<pending, queue, waiting>>

(***************************************************************************)
(* MarkDone(con), called once for every connection Dequeue returned.  It   *)
(* does not look at shuttingDown.                                          *)
(***************************************************************************)
Requeue(c) ==
  IF processing[c] # NoRequest
  THEN /\ pending' = [pending EXCEPT ![c] = processing[c]]
       /\ queue'   = Append(queue, c)
       /\ Signal
  ELSE UNCHANGED <<pending, queue, waiting>>

MarkDone(c) ==
  /\ inFlight[c] # NoRequest
  /\ processing' = [processing EXCEPT ![c] = Absent]
  /\ inFlight'   = [inFlight EXCEPT ![c] = NoRequest]
  /\ Requeue(c)
  /\ UNCHANGED <<shuttingDown, exited>>

ShutDown ==
  /\ ~shuttingDown
  /\ shuttingDown' = TRUE
  /\ Broadcast
  /\ UNCHANGED <<pending, queue, processing, exited, inFlight>>

Next ==
  \/ \E c \in Connections, r \in Requests : Enqueue(c, r)
  \/ \E w \in Workers : Dequeue(w)
  \/ \E c \in Connections : MarkDone(c)
  \/ ShutDown

Spec == Init /\ [][Next]_vars

(***************************************************************************)
(* The workers loop for ever (doSendPushes), and whoever was handed a      *)
(* connection marks it done (the done function of every Event).  Nobody    *)
(* has to enqueue or to shut down.                                         *)
(***************************************************************************)
Fairness ==
  /\ \A w \in Workers : WF_vars(Dequeue(w))
  /\ \A c \in Connections : WF_vars(MarkDone(c))

FairSpec == Spec /\ Fairness

-----------------------------------------------------------------------------
TypeOK ==
  /\ pending      \in [Connections -> Requests \cup {Absent}]
  /\ queue        \in Seq(Connections)
  /\ processing   \in [Connections -> MaybeRequests \cup {Absent}]
  /\ shuttingDown \in BOOLEAN
  /\ waiting      \in SUBSET Workers
  /\ exited       \in SUBSET Workers
  /\ inFlight     \in [Connections -> MaybeRequests]

Queued(c) == \E i \in 1..Len(queue) : queue[i] = c

(***************************************************************************)
(* The slice queue and the map pending, updated by separate statements in  *)
(* Enqueue, Dequeue and MarkDone, always describe the same connections,    *)
(* and no connection is queued twice (a second entry would make Dequeue    *)
(* hand out a nil request).                                                *)
(***************************************************************************)
QueueMatchesPending ==
  /\ \A c \in Connections : pending[c] # Absent <=> Queued(c)
  /\ \A i, j \in 1..Len(queue) : queue[i] = queue[j] => i = j

(***************************************************************************)
(* A connection that is being pushed to is never queued at the same time:  *)
(* two pushes to one proxy cannot overlap, however Enqueue, Dequeue and    *)
(* MarkDone interleave.                                                    *)
(***************************************************************************)
OnePushPerConnection ==
  \A c \in Connections :
    /\ processing[c] # Absent <=> inFlight[c] # NoRequest
    /\ processing[c] # Absent => ~Queued(c)

(***************************************************************************)
(* No lost wakeup: Signal is only sent where an item is added, and yet     *)
(* while something is queued the workers are never all asleep; after       *)
(* ShutDown nobody sleeps.                                                 *)
(***************************************************************************)
NoLostWakeup ==
  /\ queue # <<>> /\ ~shuttingDown => Workers \ (waiting \cup exited) # {}
  /\ shuttingDown => waiting = {}
  /\ exited # {} => shuttingDown

Inv == TypeOK /\ QueueMatchesPending /\ OnePushPerConnection /\ NoLostWakeup

(***************************************************************************)
(* The queue implements the mailbox: what is owed to a connection is what  *)
(* is pending for it or, while it is being processed, what was merged in   *)
(* the meantime.  So no request is lost or handed out twice, whatever is   *)
(* handed out is the merge of exactly what was asked since the last        *)
(* hand-out, and hand-outs of one connection do not overlap.               *)
(***************************************************************************)
Owed(c) == IF pending[c] # Absent THEN pending[c]
           ELSE IF processing[c] # Absent THEN processing[c]
           ELSE NoRequest

Mailbox == INSTANCE PushMailbox
             WITH owed <- [c \in Connections |-> Owed(c)], inFlight <- inFlight

ImplementsMailbox == Mailbox!Spec

(***************************************************************************)
(* Until shutdown every owed request is handed out: the queue is FIFO and  *)
(* MarkDone puts a connection with new work behind the others, so a        *)
(* connection that is enqueued over and over cannot starve the rest.       *)
(***************************************************************************)
EveryRequestServed ==
  \A c \in Connections :
    (Owed(c) # NoRequest /\ inFlight[c] = NoRequest)
      ~> (inFlight[c] # NoRequest \/ shuttingDown)

(***************************************************************************)
(* ShutDown lets every worker go: once it is called, all of them drain the *)
(* queue and leave ("they will be instructed to exit").                    *)
(***************************************************************************)
WorkersExitOnShutdown == shuttingDown ~> exited = Workers
=============================================================================
