SPECIFICATION FairSpec
CONSTANTS
  Names <- MCNames
  Paths <- MCPaths
  InitFiles <- MCInitFiles
  InitDirs <- MCInitDirs
  Protected <- MCProtected
  Calls = {1, 2}
  Requests <- MCRequests
  Tmp <- MCTmp
  Numbered <- MCNumbered
  LastNumber = 2
  Chunks = 2
  MaxFaults = 1
  None = None
  Dir = Dir
  sda = sda
  sdb = sdb
  a = a
  u = u
  v = v
  w = w
  x = x
  y = y
  z = z
  x2 = x2
  x22 = x22
INVARIANTS TypeOK FilesKept NoTmpLeft OkMeansDone
PROPERTIES CallsEnd
CHECK_DEADLOCK FALSE
