\* The delay queue as the secret manager creates it: no buffer, one worker.
CONSTANTS
  Parts = {"delay"}
  c1 = c1
  c2 = c2
  w1 = w1
  w2 = w2
  q1 = q1
  q2 = q2
  q3 = q3
  Connections = {c1, c2}
  Workers = {w1, w2}
  Configs = {k1}
  Versions = {1}
  NoRequest = NoRequest
  Absent = Absent
  DelayTasks = {t1, t2}
  DelayWorkers = {d1}
  EnqueueCap = 0
  ExecuteCap = 1
  MaxDelay = 1
  MaxFailures = 0
  NoTask = NoTask
  QueueTasks = {q1, q2, q3}
  MaxTaskErrors = 0
  NoItem = NoItem
SPECIFICATION QueuesSpec
PROPERTIES EveryTaskRuns
CHECK_DEADLOCK FALSE
