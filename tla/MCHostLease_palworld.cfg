CONSTANTS
  Game = "palworld"
  Ttl = 10
  Intervals = {2}
  RequestCap = 3
  Shutdown = 4
  Grace = 0
  Margin = 0
  FitsMargin = 0
  Poll = 1
  Signal = 0
  MaxWait = 1
  Skew = 0
  MaxTime = 30
SPECIFICATION Spec
INVARIANT GameEndsBeforeLease
CHECK_DEADLOCK FALSE
