\* ProxyUpdate enqueues the context it read before a newer one was published.
CONSTANTS
  k1 = k1
  Connections = {c1}
  Workers = {w1}
  Configs = {}
  Versions <- MCVersions
  NoRequest = NoRequest
  Absent = Absent
  Interests <- MCInterests
  PushThrottle = 1
  ProxyUpdates = TRUE
  InitMayFail = FALSE
  MayStop = FALSE
  MaxContexts = 2
SPECIFICATION ServerSpec
PROPERTIES LaterContextWins
CHECK_DEADLOCK FALSE
