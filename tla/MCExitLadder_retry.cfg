CONSTANTS
  N = 3
  Own = {3}
  FailAfter = 3
  RecoverAfter = 2
  MaxFaults = 1
  MaxRestarts = 0
SPECIFICATION Spec
INVARIANTS NextTickRepairs
