----------------------------- MODULE DelayQueue -----------------------------
(***************************************************************************)
(* delayQueue (pkg/queue/delay.go): tasks with a delay.  A caller hands a  *)
(* task to Run through the channel enqueue or, when the channel has no     *)
(* room, puts it on the heap itself; Run passes due tasks to the workers   *)
(* through the channel execute.                                            *)
(*                                                                         *)
(* runAt is only compared with the current time, so a task carries the     *)
(* ticks left until it is due.  Overdue tasks are not told apart: the heap *)
(* may give out any of them.                                               *)
(***************************************************************************)
EXTENDS Integers, Sequences, FiniteSets

CONSTANTS DelayTasks,     \* the functions that are pushed
          DelayWorkers,   \* the goroutines running work
          EnqueueCap,     \* DelayQueueBuffer
          ExecuteCap,     \* workerChanBuf
          MaxDelay,       \* bound: the longest delay
          MaxFailures,    \* bound: how often the tasks fail in a behaviour
          NoTask

ASSUME DelayAssumption ==
  /\ EnqueueCap \in Nat /\ ExecuteCap \in Nat \ {0}
  /\ MaxDelay \in Nat /\ MaxFailures \in Nat
  /\ NoTask \notin DelayTasks \cup [id : DelayTasks, left : 0..MaxDelay]

VARIABLES enqueue,     \* the channel of incoming tasks
          heap,        \* *d.queue
          ordered,     \* heap is a heap: its first element is the soonest
          execute,     \* the channel of outgoing tasks
          pushing,     \* tasks in the default branch of PushDelayed, before Lock
          runPC,       \* Run: "peek", "select", "parked" (in select), "send", "returned"
          head,        \* the variable task of Run
          running,     \* per worker: the task whose do it calls, or NoTask
          gone,        \* the workers that returned
          pushed,      \* the tasks PushDelayed was called with
          done,        \* the tasks that succeeded
          failures,
          delayStop    \* stop is closed

delayVars == <<enqueue, heap, ordered, execute, pushing, runPC, head, running, gone,
               pushed, done, failures, delayStop>>
workVars  == <<running, gone, done, failures>>

DelayInit ==
  /\ enqueue = <<>> /\ execute = <<>>
  /\ heap = {} /\ ordered = TRUE
  /\ pushing = {}
  /\ runPC = "peek" /\ head = NoTask
  /\ running = [w \in DelayWorkers |-> NoTask] /\ gone = {}
  /\ pushed = {} /\ done = {} /\ failures = 0
  /\ delayStop = FALSE

-----------------------------------------------------------------------------
(***************************************************************************)
(* PushDelayed(t, delay) up to the end of the select: the send succeeds if *)
(* the buffer has room or Run is parked in a select and takes it directly. *)
(***************************************************************************)
CanSend == Len(enqueue) < EnqueueCap + (IF runPC = "parked" THEN 1 ELSE 0)

SendOrDefault(task) ==
  IF CanSend
  THEN enqueue' = Append(enqueue, task) /\ UNCHANGED pushing
  ELSE pushing' = pushing \cup {task} /\ UNCHANGED enqueue

PushDelayed(t, delay) ==
  /\ t \notin pushed
  /\ pushed' = pushed \cup {t}
  /\ SendOrDefault([id |-> t, left |-> delay])
  /\ UNCHANGED <<workVars, heap, ordered, execute, runPC, head, delayStop>>

(***************************************************************************)
(* The rest of the default branch.  A worker that was pushing a retry goes *)
(* back to its select.                                                     *)
(***************************************************************************)
PushToHeap(task) ==
  /\ task \in pushing
  /\ pushing' = pushing \ {task}
  /\ heap' = heap \cup {task}
  /\ running' = [w \in DelayWorkers |-> IF running[w] = task.id THEN NoTask ELSE running[w]]
  /\ UNCHANGED <<enqueue, ordered, execute, runPC, head, gone, pushed, done, failures,
                 delayStop>>

-----------------------------------------------------------------------------
(***************************************************************************)
(* Run: Peek and Pop.                                                      *)
(***************************************************************************)
PeekEmpty ==
  /\ runPC = "peek" /\ heap = {}
  /\ head' = NoTask /\ runPC' = "select"
  /\ UNCHANGED <<workVars, enqueue, heap, ordered, execute, pushing, pushed, delayStop>>

PeekAndPop(task) ==
  /\ runPC = "peek" /\ task \in heap
  /\ ordered => \A u \in heap : task.left <= u.left
  /\ head' = task
  /\ heap' = heap \ {task}
  /\ ordered' = (ordered \/ Cardinality(heap) <= 2)
  /\ runPC' = (IF task.left = 0 THEN "send" ELSE "select")
  /\ UNCHANGED <<workVars, enqueue, execute, pushing, pushed, delayStop>>

(***************************************************************************)
(* No case of the select is ready.                                         *)
(***************************************************************************)
Park ==
  /\ runPC = "select"
  /\ enqueue = <<>> /\ ~delayStop
  /\ head # NoTask => head.left > 0
  /\ runPC' = "parked"
  /\ UNCHANGED <<workVars, enqueue, heap, ordered, execute, pushing, head, pushed, delayStop>>

\* Variant with a bug: the old head is not put back.
ReceiveForgetsHead ==
  /\ runPC \in {"select", "parked"} /\ enqueue # <<>>
  /\ enqueue' = Tail(enqueue)
  /\ heap' = heap \cup {Head(enqueue)}
  /\ ordered' = (IF head = NoTask THEN heap = {} ELSE ordered)
  /\ head' = NoTask /\ runPC' = "peek"
  /\ UNCHANGED <<workVars, execute, pushing, pushed, delayStop>>

(***************************************************************************)
(* case t := <-d.enqueue.  With a head both go on the heap.  Without one,  *)
(* d.queue.Push(t) only appends: if somebody pushed to the heap since the  *)
(* Peek, the heap is no longer in order.                                   *)
(***************************************************************************)
ReceiveEnqueue ==
  /\ runPC \in {"select", "parked"} /\ enqueue # <<>>
  /\ enqueue' = Tail(enqueue)
  /\ heap' = heap \cup {Head(enqueue)} \cup ({head} \ {NoTask})
  /\ ordered' = (IF head = NoTask THEN heap = {} ELSE ordered)
  /\ head' = NoTask /\ runPC' = "peek"
  /\ UNCHANGED <<workVars, execute, pushing, pushed, delayStop>>

(***************************************************************************)
(* case <-await.C and case <-stop.  A parked Run that was handed a task    *)
(* has already left its select.                                            *)
(***************************************************************************)
SelectOpen == runPC = "select" \/ (runPC = "parked" /\ enqueue = <<>>)

TimerFires ==
  /\ SelectOpen /\ head # NoTask
  /\ head.left = 0
  /\ runPC' = "send"
  /\ UNCHANGED <<workVars, enqueue, heap, ordered, execute, pushing, head, pushed, delayStop>>

ReturnOnStop ==
  /\ SelectOpen /\ delayStop
  /\ runPC' = "returned"
  /\ UNCHANGED <<workVars, enqueue, heap, ordered, execute, pushing, head, pushed, delayStop>>

\* Variant with a bug: a full execute channel drops the task.
SendDrops ==
  /\ runPC = "send"
  /\ execute' = (IF Len(execute) < ExecuteCap THEN Append(execute, head) ELSE execute)
  /\ head' = NoTask /\ runPC' = "peek"
  /\ UNCHANGED <<workVars, enqueue, heap, ordered, pushing, pushed, delayStop>>

(***************************************************************************)
(* d.execute <- task, which waits for room and for nothing else.           *)
(***************************************************************************)
SendTask ==
  /\ runPC = "send"
  /\ Len(execute) < ExecuteCap
  /\ execute' = Append(execute, head)
  /\ head' = NoTask /\ runPC' = "peek"
  /\ UNCHANGED <<workVars, enqueue, heap, ordered, pushing, pushed, delayStop>>

-----------------------------------------------------------------------------
(***************************************************************************)
(* work: a worker takes a task or returns, runs do, and pushes do again    *)
(* when it failed.  The new delayTask starts with retries = 0, so          *)
(* maxTaskRetry is never reached.                                          *)
(***************************************************************************)
TakeTask(w) ==
  /\ running[w] = NoTask /\ w \notin gone /\ execute # <<>>
  /\ running' = [running EXCEPT ![w] = Head(execute).id]
  /\ execute' = Tail(execute)
  /\ UNCHANGED <<enqueue, heap, ordered, pushing, runPC, head, gone, pushed, done,
                 failures, delayStop>>

WorkerReturns(w) ==
  /\ running[w] = NoTask /\ w \notin gone /\ delayStop
  /\ gone' = gone \cup {w}
  /\ UNCHANGED <<enqueue, heap, ordered, execute, pushing, runPC, head, running, pushed,
                 done, failures, delayStop>>

Busy(w) == running[w] # NoTask /\ \A task \in pushing : task.id # running[w]

TaskSucceeds(w) ==
  /\ Busy(w)
  /\ done' = done \cup {running[w]}
  /\ running' = [running EXCEPT ![w] = NoTask]
  /\ UNCHANGED <<enqueue, heap, ordered, execute, pushing, runPC, head, gone, pushed,
                 failures, delayStop>>

TaskFails(w) ==
  /\ Busy(w) /\ failures < MaxFailures
  /\ failures' = failures + 1
  /\ SendOrDefault([id |-> running[w], left |-> 0])
  /\ running' = [running EXCEPT ![w] = IF CanSend THEN NoTask ELSE @]
  /\ UNCHANGED <<heap, ordered, execute, runPC, head, gone, pushed, done, delayStop>>

CloseDelayStop ==
  /\ ~delayStop
  /\ delayStop' = TRUE
  /\ UNCHANGED <<workVars, enqueue, heap, ordered, execute, pushing, runPC, head, pushed>>

(***************************************************************************)
(* One tick of the clock.                                                  *)
(***************************************************************************)
Sooner(task) == [task EXCEPT !.left = IF @ > 0 THEN @ - 1 ELSE 0]

DelayTick ==
  /\ heap'    = {Sooner(task) : task \in heap}
  /\ pushing' = {Sooner(task) : task \in pushing}
  /\ enqueue' = [i \in DOMAIN enqueue |-> Sooner(enqueue[i])]
  /\ head'    = (IF head = NoTask THEN NoTask ELSE Sooner(head))
  /\ UNCHANGED <<workVars, ordered, execute, runPC, pushed, delayStop>>

RunStep == \/ PeekEmpty
           \/ \E task \in heap : PeekAndPop(task)
           \/ Park
           \/ ReceiveEnqueue
           \/ TimerFires
           \/ ReturnOnStop
           \/ SendTask

WorkStep(w) == TakeTask(w) \/ WorkerReturns(w) \/ TaskSucceeds(w) \/ TaskFails(w)

DelayNext ==
  \/ \E t \in DelayTasks, d \in 0..MaxDelay : PushDelayed(t, d)
  \/ \E task \in pushing : PushToHeap(task)
  \/ RunStep
  \/ \E w \in DelayWorkers : WorkStep(w)
  \/ CloseDelayStop
  \/ DelayTick

DelaySpec == DelayInit /\ [][DelayNext]_delayVars

-----------------------------------------------------------------------------
(***************************************************************************)
(* Every task that was pushed and has not succeeded is in exactly one      *)
(* place, whichever way it came in and however often it failed, until Run  *)
(* returns.                                                                *)
(***************************************************************************)
InPlace(t) ==
  Cardinality({i \in DOMAIN enqueue : enqueue[i].id = t})
  + Cardinality({i \in DOMAIN execute : execute[i].id = t})
  + Cardinality({task \in heap \cup pushing : task.id = t})
  + Cardinality({w \in DelayWorkers : Busy(w) /\ running[w] = t})
  + (IF head # NoTask /\ head.id = t THEN 1 ELSE 0)

NoTaskLost ==
  \A t \in DelayTasks :
    InPlace(t) = IF t \in pushed \ done THEN 1 ELSE 0

Waiting(t) == t \in pushed \ done /\ \A w \in DelayWorkers : running[w] # t

Stranded(t) == runPC = "parked" /\ head = NoTask /\ \E task \in heap : task.id = t

(***************************************************************************)
(* A waiting task is run, unless the queue is stopped or the task is       *)
(* stranded: it was pushed to the heap just before Run, which had found    *)
(* the heap empty, went to sleep in a select that only a later push ends.  *)
(***************************************************************************)
TasksRunOrStranded ==
  \A t \in DelayTasks :
    Waiting(t) ~> (~Waiting(t) \/ delayStop \/ Stranded(t))

(***************************************************************************)
(* "PushDelayed will execute the task after waiting for the delay"         *)
(* (delay.go:158).                                                         *)
(***************************************************************************)
EveryTaskRuns == \A t \in DelayTasks : Waiting(t) ~> (~Waiting(t) \/ delayStop)
=============================================================================
