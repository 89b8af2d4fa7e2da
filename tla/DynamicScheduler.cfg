\* A burst of pods on three nodes, two binding cycles at a time.
SPECIFICATION BurstSpec
CONSTANTS
  n1 = n1
  n2 = n2
  n3 = n3
  Node = {n1, n2, n3}
  Ref = {r1, r2, r3, r4, r5, r6}
  Size = 4
  GCTimeRange = 3
  HotValue <- Policies
  MaxLag = 0
  MaxTime = 5
  Weight <- Weights
  Usage <- Usages
  NoUsage = NoUsage
  MaxInFlight = 2
SYMMETRY Symmetry
INVARIANTS
  LenBounded
  LatestKept
  CountExact
  BurstTypeOK
  HotSpotAvoided
PROPERTIES
  GCInvisible
