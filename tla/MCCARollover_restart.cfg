CONSTANTS
  w1 = w1
  w2 = w2
  Workers = {w1, w2}
  MaxRoots = 2
  MaxRenewals = 0
  MaxCrashes = 1
  MaxFaults = 0
  MaxLost = 0
  MaxAway = 0
SPECIFICATION Spec
INVARIANTS RestartKeepsReach
CHECK_DEADLOCK FALSE
