CONSTANTS
  Game = "valheim"
  Ttl = 16
  Intervals = {2, 4}
  RequestCap = 2
  Shutdown = 3
  Grace = 0
  Margin = 2
  FitsMargin = 1
  Poll = 1
  Signal = 1
  MaxWait = 5
  Skew = 1
  MaxTime = 31
SPECIFICATION Spec
INVARIANTS
  OverrunIsBounded
  HealthyLeaseLasts
CHECK_DEADLOCK FALSE
