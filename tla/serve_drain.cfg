SPECIFICATION FairSpec
CONSTANTS
  Conns = {c1, c2}
  MaxRequest = 7
  Grace = 6
  StopTimeout = 7
INVARIANTS TypeOK GraceKept DrainBeatsKill
PROPERTIES DrainEnds
CHECK_DEADLOCK FALSE
