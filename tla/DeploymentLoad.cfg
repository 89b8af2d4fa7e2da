\* One deployment is broken, another has a namesake; two days and a restart.
SPECIFICATION Spec
CONSTANTS
  ns1 = ns1
  Deploy = {d1, d2}
  Namespace = {ns1}
  NamespaceOf <- Namespaces
  Namesake = {d1}
  Broken = {d2}
  Workers = {w1, w2}
  Idle = Idle
  Blank = Blank
  Other = Other
  MaxDay = 1
  MaxChanges = 2
  MaxRestarts = 1
CHECK_DEADLOCK FALSE
INVARIANTS
  DeploymentTypeOK
  DueMeansPending
PROPERTIES
  UsageNotOutdated
  DeploymentsServed
