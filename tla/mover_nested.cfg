SPECIFICATION Spec
CONSTANTS
  Paths <- NestedPaths
  InitFiles <- NestedInitFiles
  InitDirs <- NestedInitDirs
  Arrivals <- NestedArrivals
  DirArrivals <- MCDirArrivals
  Drive <- MCDrive
  Calls = {1}
  Requests <- NestedRequests
  Workers = {w1, w2}
  Numbered <- MCNumbered
  LastNumber = 2
  MaxInodes = 5
  MaxFaults = 0
  None = None
  Dir = Dir
  sda = sda
  sdb = sdb
  lda = lda
  a = a
  b = b
  e = e
  f = f
  g = g
  x = x
  y = y
  y2 = y2
SYMMETRY WorkersSymmetric
INVARIANT NothingLost
CHECK_DEADLOCK FALSE
