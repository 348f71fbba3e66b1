SPECIFICATION FairSpec
CONSTANTS
  Scripts = {s1, s2}
  Pushes = 2
  Tries = 1
  MaxFaults = 1
  None = None
  Unknown = Unknown
INVARIANTS TypeOK UpToDateMeansSo UpdateBuilt
PROPERTIES NeverOlder TabKeepsUp OverlayEnds
CHECK_DEADLOCK FALSE
