\* A Clear between Get and Add, in a cache that never evicts.
CONSTANTS
  ep1 = ep1
  ep2 = ep2
  svc1 = svc1
  svc2 = svc2
  peerAuthn = peerAuthn
  ServiceEntry = ServiceEntry
  PeerAuthentication = PeerAuthentication
  Keys = {ep1, ep2}
  CacheConfigs = {svc1, svc2, peerAuthn}
  Kinds = {ServiceEntry, PeerAuthentication}
  KindOf <- MCKindOf
  DependentConfigs <- MCDependentConfigs
  DependentTypes <- MCDependentTypes
  Size = 2
  Generators = {g1, g2}
  None = None
  MaxConfigChanges = 1
  MaxToken = 2
SPECIFICATION CacheSpec
INVARIANTS ClearedWritesDropped
CHECK_DEADLOCK FALSE
