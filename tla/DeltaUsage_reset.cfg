\* Two metrics, two midnights and a restart.
SPECIFICATION FairSpec
CONSTANTS
  p1 = p1
  d1 = d1
  Pods = {p1}
  Deploys = {d1}
  DeployOf <- OnePod
  NoDeploy = NoDeploy
  Metrics = {"cpu", "mem"}
  Policies <- TwoPolicies
  Workers = {w1}
  Absent = Absent
  Expired = Expired
  Idle = Idle
  Ranges <- OnePoint
  MaxUsage = 1
  MaxSyncs = 1
  MaxResets = 2
  MaxRestarts = 1
CHECK_DEADLOCK FALSE
PROPERTIES
  ResetStartsAnew
  ResetCompletes
