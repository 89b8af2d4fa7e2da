\* One metric with a period longer than the extra time; outages short and long.
SPECIFICATION Spec
CONSTANTS
  Metrics = {"cpu"}
  Period <- Long
  Extra = 6
  Limit <- OneLimit
  Usages = {0, 2}
  NoUsage = NoUsage
  BackOff = 1
  MaxBackOff = 4
  MaxDelay = 1
  MaxOutage = 18
  ShortOutage = 1
INVARIANTS
  LoadTypeOK
  OverloadNoticed
  RejectionJustified
