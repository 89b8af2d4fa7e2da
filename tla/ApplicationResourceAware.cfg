\* Two pods, two workers, histories of two lengths and a restart.
SPECIFICATION AraSpec
CONSTANTS
  p1 = p1
  p2 = p2
  d1 = d1
  d2 = d2
  Pods = {p1, p2}
  Deploys = {d1, d2}
  DeployOf <- TwoDeployments
  NoDeploy = NoDeploy
  Metrics = {"cpu"}
  Policies <- OnePolicy
  Metric1 = "cpu"
  Workers = {w1, w2}
  Absent = Absent
  Expired = Expired
  Idle = Idle
  Ranges <- Histories
  MaxUsage = 2
  MaxSyncs = 0
  MaxResets = 0
  MaxRestarts = 1
  NodeStates <- Nodes
SYMMETRY Symmetry
CHECK_DEADLOCK FALSE
INVARIANTS
  AraTypeOK
  AddedOnce
  DeltaBounded
  NotOverbooked
