CONSTANTS
  Parts = {"cache", "stream", "entries", "kube", "shards", "workload", "secret"}
\* A cache with room for one of two keys, so that reads evict each other's tokens.
  ep1 = ep1
  ep2 = ep2
  svc1 = svc1
  svc2 = svc2
  peerAuthn = peerAuthn
  ServiceEntry = ServiceEntry
  PeerAuthentication = PeerAuthentication
  Keys = {ep1, ep2}
  CacheConfigs = {svc1, svc2, peerAuthn}
  Kinds = {ServiceEntry, PeerAuthentication}
  KindOf <- MCKindOf
  DependentConfigs <- MCDependentConfigs
  DependentTypes <- MCDependentTypes
  Size = 1
  Generators = {g1, g2}
  None = None
  MaxConfigChanges = 1
  MaxToken = 3
\* A stream of either sort of type, with and without flow control and its timeout; two
\* resource names, of which the proxy may ask for others or none; responses it may reject.
  Configs = {k1, k2}
  Relevant = {k1}
  Versions <- MCVersions
  NoRequest = NoRequest
  Names = {n1, n2}
  MaxContexts = 3
  MaxNonce = 6
  MaxNameChanges = 1
\* ServiceEntries that select, WorkloadEntries that are relabelled, and a pod.
  seA = seA
  seB = seB
  wle = wle
  sePod = sePod
  labelA = labelA
  labelB = labelB
  Entries = {seA, seB}
  EntrySpecs <- MCEntrySpecs
  Wles = {wle}
  WleSpecs <- MCWleSpecs
  SePods = {sePod}
  PodLabel <- MCPodLabel
  InitialEntries <- MCInitialEntries
  InitialWles <- MCInitialWles
  Missing = Missing
  MaxSeChanges = 3
\* Two pods that have the same address one after the other.
  pod1 = pod1
  pod2 = pod2
  ip1 = ip1
  KPods = {pod1, pod2}
  IPs = {ip1, ip2}
  EndpointSets <- MCEndpointSets
  Nil = Nil
  MaxKubeChanges = 5
\* A Kubernetes cluster and a federated mesh.
  Clusters = {kube, fed}
  Polled = {fed}
  Pusher = Pusher
  Endpoints = {1, 2}
  Outside = Outside
  MaxShards = 3
\* A workload that connects three times, to two istiods, one of which restarts.
  Istiods = {i1, i2}
  MaxConns = 3
  NoEntry = NoEntry
  MaxCrashes = 1
\* Two SDS streams that race for a certificate, rotations and a new root.
  SdsStreams = {sds1, sds2}
  MaxSerial = 4
  MaxRoot = 2
SPECIFICATION RegistriesSpec
INVARIANTS ValuesIndexed TokensUnique PurgedWritesDropped
INVARIANTS Converges BlockedPushReleased OneOutstanding
INVARIANTS IndexIsRebuilt PodCacheFollows EndpointsFollow ShardsFollowRegistries
INVARIANTS ConnectedEntryKept RotationCoversAll
\* The changes of every part are bounded.
CHECK_DEADLOCK FALSE
