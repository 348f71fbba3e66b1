SPECIFICATION Spec
CONSTANTS
  Uploads = {u1, u2}
  Targets = {t1, t2}
  Requests <- MixedRequests
  MaxTemps = 2
  MaxLen = 2
  CreateParents = TRUE
  Fsync = TRUE
  None = None
  Dir = Dir
  Old = Old
SYMMETRY Symmetric
INVARIANTS TargetWhole OwnTemp NoLitter ReplyTruthful
PROPERTY StoreSpec
