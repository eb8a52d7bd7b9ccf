CONSTANTS
  w1 = w1
  w2 = w2
  Workers = {w1}
  MaxRoots = 2
  MaxRenewals = 1
  MaxCrashes = 1
  MaxFaults = 1
  MaxLost = 1
  MaxAway = 1
SPECIFICATION FairSpec
INVARIANTS TypeOK ActsOnTruth HeldIsTrusted KeptInReach
PROPERTIES RolloverEnds
CHECK_DEADLOCK FALSE
