CONSTANTS
  Modes = {"overlap"}
  Replicas = {2}
  Verbs = {"restartTile", "startTile"}
  MaxMade = 4
  MaxFaults = 1
  MaxCrashes = 1
  MaxDeaths = 0
SPECIFICATION Spec
INVARIANTS OverlapServes CleanAfterSuccess
