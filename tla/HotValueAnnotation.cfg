\* Events of one node, a version twice, and a restart.
SPECIFICATION HotValueSpec
CONSTANTS
  n1 = n1
  e1 = e1
  e2 = e2
  Node = {n1}
  Ref = {1, 2, 3, 4}
  Size = 3
  GCTimeRange <- AnnotatorGC
  HotValue <- OnePolicy
  MaxLag = 1
  MaxTime = 1
  Event = {e1, e2}
  NodeOf <- Nodes
  Malformed = Malformed
  NewAPI = {e2}
  Workers = {w1}
  Syncer = Syncer
  Idle = Idle
  Absent = Absent
  MaxVersion <- Versions
  MaxRestarts = 1
CHECK_DEADLOCK FALSE
INVARIANTS
  HotValueTypeOK
  RecordedPerVersion
  RecordsComplete
PROPERTIES
  HotValueSettles
