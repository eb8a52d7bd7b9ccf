CONSTANTS
  Modes = {"stopFirst"}
  Replicas = {1}
  Verbs = {"stopTile", "startTile", "restartTile"}
  MaxMade = 2
  MaxFaults = 1
  MaxCrashes = 1
  MaxDeaths = 1
SPECIFICATION FairSpec
INVARIANTS OneWriter RefusalRestores
PROPERTIES VIPCatchesUp
