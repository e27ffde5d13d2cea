CONSTANTS
  BufSz = 2
  MaxNodeAll = 8
  IovMinAlloc = 1
  IovMinOffset = 1
  SplitBufDel = TRUE
  UserCache = TRUE
  Cap <- CapMem
  VecFails = TRUE
  Inputs <- MemInputs
  SpareTypes = {}
  AnyPrepend = FALSE
  MaxLen = 4
SPECIFICATION Spec
VIEW View
INVARIANT CachesExact
