\* One pod that is deleted soon after it was scheduled.
SPECIFICATION Spec
CONSTANTS
  p1 = p1
  d1 = d1
  Pods = {p1}
  Deploys = {d1}
  DeployOf <- OnePod
  NoDeploy = NoDeploy
  Metrics = {"cpu"}
  Policies <- OnePolicy
  Workers = {w1}
  Absent = Absent
  Expired = Expired
  Idle = Idle
  Ranges <- OnePoint
  MaxUsage = 1
  MaxSyncs = 0
  MaxResets = 0
  MaxRestarts = 0
CHECK_DEADLOCK FALSE
INVARIANTS
  SubtractedAfterAdded
