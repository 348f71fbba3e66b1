SPECIFICATION Spec
CONSTANTS
  Scripts = {s1, s2}
  Pushes = 2
  Tries = 1
  MaxFaults = 0
  None = None
  Unknown = Unknown
INVARIANT PushServed
CHECK_DEADLOCK FALSE
