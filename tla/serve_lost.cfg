SPECIFICATION Spec
CONSTANTS
  Conns = {c1, c2}
  MaxRequest = 7
  Grace = 6
  StopTimeout = 7
INVARIANT StopsItself
CHECK_DEADLOCK FALSE
