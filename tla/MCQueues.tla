------------------------------ MODULE MCQueues ------------------------------
(***************************************************************************)
(* The three queues of the program for TLC: every behaviour runs one of    *)
(* them, chosen in the initial state, and the other two stand still.       *)
(***************************************************************************)
EXTENDS PushQueue, DelayQueue, WorkQueue

CONSTANTS Parts,  \* the queues this run checks
          c1, c2, w1, w2, q1, q2, q3

VARIABLE part

allVars == <<vars, delayVars, workQueueVars, part>>

QueuesInit == part \in Parts /\ Init /\ DelayInit /\ WorkQueueInit

InPushQueue(A)  == part = "push" /\ A /\ UNCHANGED <<delayVars, workQueueVars, part>>
InDelayQueue(A) == part = "delay" /\ A /\ UNCHANGED <<vars, workQueueVars, part>>
InWorkQueue(A)  == part = "work" /\ A /\ UNCHANGED <<vars, delayVars, part>>

QueuesNext == InPushQueue(Next) \/ InDelayQueue(DelayNext) \/ InWorkQueue(WorkQueueNext)

(***************************************************************************)
(* The goroutines of the queues run, tasks return, timers fire and time    *)
(* passes.  Nobody has to push, to enqueue or to stop.  Only one queue     *)
(* runs, so a disjunction of steps of different queues is fair to each.    *)
(***************************************************************************)
QueuesFairness ==
  /\ WF_allVars(InPushQueue(Dequeue(w1)) \/ InDelayQueue(RunStep) \/ InWorkQueue(RunLoop))
  /\ WF_allVars(\/ InPushQueue(Dequeue(w2))
                \/ InDelayQueue(\E w \in DelayWorkers : WorkStep(w))
                \/ InWorkQueue(RetryPush(q1)))
  /\ WF_allVars(\/ InPushQueue(MarkDone(c1))
                \/ InDelayQueue(\E task \in pushing : PushToHeap(task))
                \/ InWorkQueue(RetryPush(q2)))
  /\ WF_allVars(\/ InPushQueue(MarkDone(c2))
                \/ InDelayQueue(DelayTick)
                \/ InWorkQueue(RetryPush(q3)))

QueuesSpec == QueuesInit /\ [][QueuesNext]_allVars /\ QueuesFairness
=============================================================================
