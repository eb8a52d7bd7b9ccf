CONSTANTS
  a = a
  b = b
  All = all
  Requests <- ApplyRequests
  Children <- ApplyChildren
  AwaitKinds = {"org-apply"}
  SeedKinds = {}
  UpgradeKinds = {"upgrade"}
  Uncapped = {}
  Workers = {1}
  MaxJobs = 3
  MaxFaults = 0
  MaxBoots = 0
SPECIFICATION LiveSpec
PROPERTIES QueuedIsServed WaitEnds
CHECK_DEADLOCK FALSE
