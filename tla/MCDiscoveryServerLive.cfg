\* One proxy that connects, lags and disconnects at any time; pushes, ProxyUpdate and a stop
\* of the server beside it.  What is pushed does not matter here: there is one context.
CONSTANTS
  k1 = k1
  Connections = {c1}
  Workers = {w1}
  Configs = {}
  Versions <- MCVersions
  NoRequest = NoRequest
  Absent = Absent
  Interests <- MCInterests
  PushThrottle = 2
  ProxyUpdates = TRUE
  InitMayFail = TRUE
  MayStop = TRUE
  MaxContexts = 1
SPECIFICATION ServerFairSpec
INVARIANTS SlotsAccounted AdsClientsActive
PROPERTIES PushesDelivered StreamsCleanedUp
CHECK_DEADLOCK FALSE
