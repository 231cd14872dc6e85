\* One proxy, three contexts in a row, and changes of configurations it depends on
\* (k1) and of others (k2), so that requests are merged and pushes skipped.
CONSTANTS
  k1 = k1
  Connections = {c1}
  Workers = {w1}
  Configs = {k1, k2}
  Versions <- MCVersions
  NoRequest = NoRequest
  Absent = Absent
  Interests <- MCInterests
  PushThrottle = 1
  ProxyUpdates = FALSE
  InitMayFail = FALSE
  MayStop = FALSE
  MaxContexts = 3
SPECIFICATION ServerSpec
INVARIANTS ClientsFresh
PROPERTIES LaterContextWins
CHECK_DEADLOCK FALSE
