SPECIFICATION FairSpec
CONSTANTS
  Uploads = {u1, u2}
  Targets = {t1}
  Requests <- MixedRequests
  MaxTemps = 1
  MaxLen = 2
  CreateParents = FALSE
  Fsync = FALSE
  None = None
  Dir = Dir
  Old = Old
INVARIANT TypeOK
PROPERTIES UploadEnds
CHECK_DEADLOCK FALSE
