CONSTANTS
  Parts = {"federation", "workloads", "stream"}
\* Two services, two watches and two changes or faults of any sort.
  Svcs = {a, b}
  NumNames = 2
  MaxVersion = 1
  h1 = h1
  h2 = h2
  Handlers = {h1, h2}
  NetCap = 1
  Nobody = Nobody
  Faults = {"rules", "imports", "gateways", "disconnect", "pollFails", "delete"}
  MaxFedChanges = 2
\* A workload that connects twice, to the same istiod or to two, one of which may restart.
  i1 = i1
  i2 = i2
  Istiods = {i1, i2}
  MaxConns = 2
  NoEntry = NoEntry
  MaxCrashes = 1
\* Two changes, relevant or not, and a proxy that drops its only name and asks again.
  Configs = {k1, k2}
  Versions = {0, 1, 2, 3}
  NoRequest = NoRequest
  Relevant = {k1}
  Names = {n1}
  MaxContexts = 3
  MaxNonce = 5
  MaxNameChanges = 2
SPECIFICATION LoopsSpec
PROPERTIES ImportsConverge ExportJobsFinish EntryCleanedUp ChangesReachProxy
\* After a stop, and when changes have stopped, nothing more may happen.
CHECK_DEADLOCK FALSE
