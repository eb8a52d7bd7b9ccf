CONSTANTS
  c1 = c1
  c2 = c2
  d1 = d1
  Callers = {c1, c2}
  Inliners = {d1}
  MaxRuns = 2
  Keep = 1
  MaxStops = 1
  MaxFaults = 1
  MaxCrashes = 1
SPECIFICATION Spec
INVARIANTS TypeOK NotBlocked OneRunAtATime StopReaches
PROPERTIES ClosedIsFinal
SYMMETRY CallerSymmetry
CHECK_DEADLOCK FALSE
