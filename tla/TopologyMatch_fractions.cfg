\* A node passes Filter with a CPU left in halves of two zones.
SPECIFICATION Spec
CONSTANTS
  p1 = p1
  p2 = p2
  p3 = p3
  n1 = n1
  n2 = n2
  n3 = n3
  n4 = n4
  z1 = z1
  z2 = z2
  Pods = {p1, p2, p3}
  Nodes = {n1}
  Zones = {z1, z2}
  NoPod = NoPod
  NoNode = NoNode
  Request <- FractionRequest
  TotalCPU <- FractionTotal
  DaemonSet <- FractionDaemons
  PodAware <- FractionAware
  HasNRT = {n1}
  Static = {n1}
  SingleNUMA = {}
  Alloc <- FractionAlloc
  NodeAlloc <- FractionTotalAlloc
  WholeCPU = 2
  TTL = 1
  MaxBindDelay = 1
INVARIANTS
  ResultNeverEmpty
