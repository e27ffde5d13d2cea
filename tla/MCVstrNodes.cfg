CONSTANTS
  BufSz = 2
  MaxNodeAll = 8
  IovMinAlloc = 1
  IovMinOffset = 0
  SplitBufDel = FALSE
  UserCache = FALSE
  Cap <- CapMix
  VecFails = TRUE
  Inputs <- MixInputs
  SpareTypes = {"REF"}
  AnyPrepend = TRUE
  MaxLen = 4
SPECIFICATION Spec
VIEW ListView
INVARIANTS NodesInv
PROPERTIES RefinesAbs
