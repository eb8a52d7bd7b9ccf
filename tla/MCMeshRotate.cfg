CONSTANTS
  w1 = w1
  w2 = w2
  Ctl = Ctl
  Workers = {w1}
  MaxRotations = 1
  MaxFaults = 2
  MaxCrashes = 2
SPECIFICATION FairSpec
INVARIANTS TypeOK RecordedIsHeld
PROPERTIES KeysAgree
