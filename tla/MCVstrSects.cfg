CONSTANTS
  grows = grows
  fixed = fixed
  Sects <- MCSects
  BegSz <- MCBegSz
  CanAdd <- MCCanAdd
  CanDel <- MCCanDel
  Strs <- MCStrs
  Texts <- MCTexts
  FlagSets <- MCFlagSets
  Limits = {0, 1, 2, 3}
  AnyUpdate = FALSE
  AnyDel = FALSE
  MaxLen = 5
  MaxNum = 3
  MaxCalls = 4
SPECIFICATION MCSpec
CHECK_DEADLOCK FALSE
INVARIANTS SectsInv SectsTrack ForeachVisits SplitRight
