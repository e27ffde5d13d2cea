CONSTANTS
  n1 = n1
  n2 = n2
  n3 = n3
  o1 = o1
  o2 = o2
  Names <- const_Names
  Objs <- const_Objs
  Null = Null
  MaxSz = 4
  FmtNames <- const_FmtNames
  TypesOf <- const_TypesOf
  Formats <- const_Formats
  NestFormats <- const_NestFormats
  UsrSz = 3
  MaxParam = 3
  MaxSpecs = 6
  AnyFlatten = FALSE
  AnyReuse = FALSE
SPECIFICATION TablesSpec
CHECK_DEADLOCK FALSE
INVARIANTS DataInv FmtInv FmtRight
PROPERTIES CookiesStable FmtAtomic SrchReturnsFull
