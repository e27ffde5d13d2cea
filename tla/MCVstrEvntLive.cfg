SPECIFICATION Spec
CONSTANTS
  NEvnt = 2
  MaxW = 2
  WaitSz = 1
  ConMax = 1
  InCore = 2
  MaxR = 1
  MaxFs = 1
  RecvLimit = 2
  SendLimit = 1
  AcptMaxs = {1}
  AcptLimit = 2
  MaxReady = 2
  MaxUi = 1
  AnyHup = FALSE
  Silent = TRUE
  Modes <- LiveModes
PROPERTY SilentFreed
