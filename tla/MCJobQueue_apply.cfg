CONSTANTS
  a = a
  b = b
  All = all
  Requests <- ApplyRequests
  Children <- ApplyChildren
  AwaitKinds = {"org-apply"}
  SeedKinds = {}
  UpgradeKinds = {"upgrade"}
  Uncapped = {}
  Workers = {1}
  MaxJobs = 3
  MaxFaults = 0
  MaxBoots = 1
SPECIFICATION Spec
INVARIANTS MutualExclusion ApplyOverFailed UpgradeIsAlone
PROPERTIES StartsWithinWorkers
CHECK_DEADLOCK FALSE
