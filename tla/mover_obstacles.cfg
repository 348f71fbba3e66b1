SPECIFICATION FairSpec
CONSTANTS
  Paths <- ObstaclePaths
  InitFiles <- ObstacleInitFiles
  InitDirs <- ObstacleInitDirs
  Arrivals <- ObstacleArrivals
  DirArrivals <- ObstacleDirArrivals
  Drive <- MCDrive
  Calls = {1, 2}
  Requests <- ObstacleRequests
  Workers = {w1, w2}
  Numbered <- MCNumbered
  LastNumber = 2
  MaxInodes = 8
  MaxFaults = 1
  None = None
  Dir = Dir
  sda = sda
  sdb = sdb
  lda = lda
  a = a
  b = b
  e = e
  f = f
  g = g
  x = x
  y = y
  y2 = y2
INVARIANTS NothingLost
PROPERTIES DoneMeansDelivered JobEnds
CHECK_DEADLOCK FALSE
