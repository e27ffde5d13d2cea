CONSTANTS
  UlongBits = 6
  Tasks <- MCTasks
  NumTypes <- MCNumTypes
  NumBases <- MCNumBases
  NumFlags <- MCNumFlags
  Prints <- MCPrints
  Grouping <- MCGrouping
  ThouSep <- MCThouSep
SPECIFICATION Spec
INVARIANT Ipv6Documented
CHECK_DEADLOCK FALSE
