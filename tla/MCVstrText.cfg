CONSTANTS
  UlongBits = 6
  Tasks <- MCTasks
  NumTypes <- MCNumTypes
  NumBases <- MCNumBases
  NumFlags <- MCNumFlags
  Prints <- MCPrints
  Grouping <- MCGrouping
  ThouSep <- MCThouSep
SPECIFICATION Spec
INVARIANTS SrchRight CmpRight NumRight NetstrRight PrintRight IpRight
CHECK_DEADLOCK FALSE
