SPECIFICATION Spec
CONSTANTS
  Uploads = {u1, u2}
  Targets = {t1}
  Requests <- PlainRequests
  MaxTemps = 2
  MaxLen = 1
  CreateParents = TRUE
  Fsync = FALSE
  None = None
  Dir = Dir
  Old = Old
SYMMETRY UploadsSymmetric
INVARIANTS ShaRecorded
