\* Three pods compete for the two zones of one node, which have halves of CPUs.
SPECIFICATION Spec
CONSTANTS
  p1 = p1
  p2 = p2
  p3 = p3
  n1 = n1
  n2 = n2
  n3 = n3
  n4 = n4
  z1 = z1
  z2 = z2
  Pods = {p1, p2, p3}
  Nodes = {n1}
  Zones = {z1, z2}
  NoPod = NoPod
  NoNode = NoNode
  Request <- OneNodeRequest
  TotalCPU <- OneNodeTotal
  DaemonSet <- OneNodeDaemons
  PodAware <- OneNodeAware
  HasNRT = {n1}
  Static = {n1}
  SingleNUMA = {}
  Alloc <- OneNodeAlloc
  NodeAlloc <- OneNodeTotalAlloc
  WholeCPU = 2
  TTL = 0
  MaxBindDelay = 0
SYMMETRY OneNodeSymmetry
INVARIANTS
  TypeOK
  NoOvercommit
  BoundWithinRequest
PROPERTIES
  ImplementsReservation
