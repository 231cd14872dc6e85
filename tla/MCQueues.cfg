\* PushQueue: two connections, so that one of them can be enqueued over and over, two
\* workers, so that a Signal can wake the wrong one, and requests over one configuration
\* key and two push contexts, so that merges differ.
\* DelayQueue: a channel of capacity 1 and three tasks, so that pushes overflow to the
\* heap, and two failures, so that a worker pushes too.
\* WorkQueue: three tasks and two errors.
CONSTANTS
  Parts = {"push", "delay", "work"}
  c1 = c1
  c2 = c2
  w1 = w1
  w2 = w2
  q1 = q1
  q2 = q2
  q3 = q3
  Connections = {c1, c2}
  Workers = {w1, w2}
  Configs = {k1}
  Versions = {1, 2}
  NoRequest = NoRequest
  Absent = Absent
  DelayTasks = {t1, t2, t3}
  DelayWorkers = {d1}
  EnqueueCap = 1
  ExecuteCap = 1
  MaxDelay = 1
  MaxFailures = 2
  NoTask = NoTask
  QueueTasks = {q1, q2, q3}
  MaxTaskErrors = 2
  NoItem = NoItem
SPECIFICATION QueuesSpec
INVARIANTS QueueMatchesPending OnePushPerConnection NoLostWakeup NoTaskLost
PROPERTIES ImplementsMailbox EveryRequestServed WorkersExitOnShutdown
PROPERTIES TasksRunOrStranded QueueDrains
\* After stop or ShutDown the goroutines leave and nothing more may happen.
CHECK_DEADLOCK FALSE
