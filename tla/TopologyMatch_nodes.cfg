\* Two pods, and nodes of four kinds; every cache entry is removed in the end.
SPECIFICATION FairSpec
CONSTANTS
  p1 = p1
  p2 = p2
  p3 = p3
  n1 = n1
  n2 = n2
  n3 = n3
  n4 = n4
  z1 = z1
  z2 = z2
  Pods = {p1, p2}
  Nodes = {n1, n2, n3, n4}
  Zones = {z1, z2}
  NoPod = NoPod
  NoNode = NoNode
  Request <- MixedRequest
  TotalCPU <- MixedTotal
  DaemonSet <- MixedDaemons
  PodAware <- MixedAware
  HasNRT = {n1, n2, n3}
  Static = {n1, n2}
  SingleNUMA = {n1}
  Alloc <- MixedAlloc
  NodeAlloc <- MixedTotalAlloc
  WholeCPU = 1
  TTL = 1
  MaxBindDelay = 1
INVARIANTS
  PendingNotCached
  BoundAsRequested
PROPERTIES
  CacheDrains
