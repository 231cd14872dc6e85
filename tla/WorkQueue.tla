----------------------------- MODULE WorkQueue ------------------------------
(***************************************************************************)
(* queueImpl (pkg/queue/instance.go): the queue through which the          *)
(* Kubernetes registry, the config store and other controllers run their   *)
(* handlers one after the other.  A task that fails is pushed again after  *)
(* a delay, behind whatever was pushed in the meantime.                    *)
(***************************************************************************)
EXTENDS Naturals, Sequences

CONSTANTS QueueTasks,    \* the tasks; each is pushed once by its caller
          MaxTaskErrors, \* bound: how often tasks fail in a behaviour
          NoItem

VARIABLES tasks,     \* q.tasks
          closing,   \* q.closing
          loopPC,    \* Run: "check" (at the top, unlocked), "wait", "run", "returned"
          item,      \* the variable task of Run
          delayed,   \* the failed tasks whose AfterFunc has not fired
          given,     \* the tasks Push was called with
          finished,  \* the tasks that succeeded
          errors

workQueueVars == <<tasks, closing, loopPC, item, delayed, given, finished, errors>>

WorkQueueInit ==
  /\ tasks = <<>> /\ closing = FALSE
  /\ loopPC = "check" /\ item = NoItem
  /\ delayed = {} /\ given = {} /\ finished = {} /\ errors = 0

(***************************************************************************)
(* cond.Signal: Run is the only goroutine that waits.                      *)
(***************************************************************************)
WakeRun == loopPC' = IF loopPC = "wait" THEN "check" ELSE loopPC

\* Variant with a bug: no Signal.
PushSilently(t) ==
  /\ tasks' = (IF closing THEN tasks ELSE Append(tasks, t))
  /\ UNCHANGED loopPC

(***************************************************************************)
(* Push(item)                                                              *)
(***************************************************************************)
PushItem(t) ==
  /\ tasks' = (IF closing THEN tasks ELSE Append(tasks, t))
  /\ WakeRun

Push(t) ==
  /\ t \notin given
  /\ given' = given \cup {t}
  /\ PushItem(t)
  /\ UNCHANGED <<closing, item, delayed, finished, errors>>

RetryPush(t) ==
  /\ t \in delayed
  /\ delayed' = delayed \ {t}
  /\ PushItem(t)
  /\ UNCHANGED <<closing, item, given, finished, errors>>

(***************************************************************************)
(* The goroutine that waits for stop.                                      *)
(***************************************************************************)
Close ==
  /\ ~closing
  /\ closing' = TRUE
  /\ WakeRun
  /\ UNCHANGED <<tasks, item, delayed, given, finished, errors>>

(***************************************************************************)
(* Run: wait, return or take the first task; then call it.                 *)
(***************************************************************************)
WaitForTask ==
  /\ loopPC = "check" /\ tasks = <<>> /\ ~closing
  /\ loopPC' = "wait"
  /\ UNCHANGED <<tasks, closing, item, delayed, given, finished, errors>>

ReturnWhenEmpty ==
  /\ loopPC = "check" /\ tasks = <<>> /\ closing
  /\ loopPC' = "returned"
  /\ UNCHANGED <<tasks, closing, item, delayed, given, finished, errors>>

TakeFirst ==
  /\ loopPC = "check" /\ tasks # <<>>
  /\ item' = Head(tasks) /\ tasks' = Tail(tasks)
  /\ loopPC' = "run"
  /\ UNCHANGED <<closing, delayed, given, finished, errors>>

TaskOK ==
  /\ loopPC = "run"
  /\ finished' = finished \cup {item}
  /\ item' = NoItem /\ loopPC' = "check"
  /\ UNCHANGED <<tasks, closing, delayed, given, errors>>

TaskError ==
  /\ loopPC = "run" /\ errors < MaxTaskErrors
  /\ errors' = errors + 1
  /\ delayed' = delayed \cup {item}
  /\ item' = NoItem /\ loopPC' = "check"
  /\ UNCHANGED <<tasks, closing, given, finished>>

RunLoop == WaitForTask \/ ReturnWhenEmpty \/ TakeFirst \/ TaskOK \/ TaskError

WorkQueueNext ==
  \/ \E t \in QueueTasks : Push(t) \/ RetryPush(t)
  \/ Close
  \/ RunLoop

-----------------------------------------------------------------------------
Accepted(t) == t = item \/ \E i \in DOMAIN tasks : tasks[i] = t

(***************************************************************************)
(* A task that Push accepted is run even if stop is closed before its      *)
(* turn; a failed task is retried until it succeeds, unless the queue      *)
(* closes before its delay has passed; and Run returns after stop, whether *)
(* it was asleep or not.                                                   *)
(***************************************************************************)
QueueDrains ==
  /\ \A t \in QueueTasks :
       /\ Accepted(t) ~> (t \in finished \/ (closing /\ ~Accepted(t)))
       /\ (Accepted(t) \/ t \in delayed) ~> (t \in finished \/ closing)
  /\ closing ~> loopPC = "returned"
=============================================================================
