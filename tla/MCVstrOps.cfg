CONSTANTS
  MaxCalls = 5
  BufSz = 2
  MaxNodeAll = 8
  IovMinAlloc = 2
  IovMinOffset = 0
  SplitBufDel = FALSE
  UserCache = FALSE
  Cap <- CapOps
  VecFails = TRUE
  Inputs <- MixInputs
  SpareTypes = {}
  AnyPrepend = FALSE
  MaxLen = 4
  SubInputs <- MixSubs
  OtherMax = 1
  AllBufs = {TRUE, FALSE}
  IovOffsets = {1}
  GrpIovec = TRUE
  FillSizes <- Sizes
  FillMax = 2
  AnyOps = FALSE
SPECIFICATION MCSpec
VIEW View
CONSTRAINT FewCalls
INVARIANT OpsInv
PROPERTIES OpsRefineAbs
