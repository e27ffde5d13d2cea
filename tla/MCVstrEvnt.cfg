SPECIFICATION ServersSpec
CONSTANTS
  NEvnt = 3
  MaxW = 2
  WaitSz = 1
  ConMax = 1
  InCore = 2
  MaxR = 1
  MaxFs = 2
  RecvLimit = 3
  SendLimit = 1
  AcptMaxs = {1, 2}
  AcptLimit = 2
  MaxReady = 2
  MaxUi = 1
  AnyHup = FALSE
  Silent = FALSE
  Modes <- AllModes
  Kind <- const_Kind
  Disk <- const_Disk
  Gzip <- const_Gzip
  Asks <- const_Asks
  Nexts <- const_Nexts
  Policies <- const_Policies
  NFds = 2
  FsSz = 2
  WaitSend = 2
  MaxIn = 1
  InCoreSz = 2
  ReadSz = 2
  MaxAsks = 2
  AnyAsk = FALSE
INVARIANTS EvntInv AwaitPolled HttpdNotStuck NoReadAfterEof ReadyAccounted HttpdAnswers HttpdClean
CONSTRAINT Fewer
