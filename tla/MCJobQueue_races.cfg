CONSTANTS
  a = a
  b = b
  All = all
  Requests <- RaceRequests
  Children = {}
  AwaitKinds = {}
  SeedKinds = {"seed"}
  UpgradeKinds = {}
  Uncapped = {}
  Workers = {1, 2}
  MaxJobs = 2
  MaxFaults = 1
  MaxBoots = 2
SPECIFICATION Spec
INVARIANTS SupersededNeverSwaps StoppedStaysStopped RunningRows OrphanRows DumpReleased
PROPERTIES FirstStartsInOrder TerminalIsFinal ImplementsContract
CHECK_DEADLOCK FALSE
