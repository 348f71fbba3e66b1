SPECIFICATION Spec
CONSTANTS
  Paths <- MCPaths
  InitFiles <- MCInitFiles
  InitDirs <- MCInitDirs
  Arrivals <- MCArrivals
  DirArrivals <- MCDirArrivals
  Drive <- MCDrive
  Calls = {1, 2}
  Requests <- AllJobs
  Workers = {w1, w2}
  Numbered <- MCNumbered
  LastNumber = 2
  MaxInodes = 10
  MaxFaults = 1
  None = None
  Dir = Dir
  sda = sda
  sdb = sdb
  lda = lda
  a = a
  b = b
  e = e
  f = f
  g = g
  x = x
  y = y
  y2 = y2
SYMMETRY WorkersSymmetric
INVARIANTS TypeOK OneJobPerSource DistinctFiles NothingLost ProgressExact
PROPERTIES DoneMeansDelivered
CHECK_DEADLOCK FALSE
