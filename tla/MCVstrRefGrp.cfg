CONSTANTS
  g1 = g1
  g2 = g2
  g3 = g3
  Grp <- const_Grp
  NoGrp = NoGrp
  MakeSz = 3
  MaxRef = 2
SPECIFICATION Spec
SYMMETRY Symmetry
CHECK_DEADLOCK FALSE
INVARIANTS TypeOK NoDanglingRef NoLeak Accounting
PROPERTY FreedNeverWritten
