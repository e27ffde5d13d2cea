CONSTANTS
  c1 = c1
  c2 = c2
  b1 = b1
  b2 = b2
  n1 = n1
  n2 = n2
  n3 = n3
  l1 = l1
  l2 = l2
  k1 = k1
  k2 = k2
  Conf <- Confs2
  Base <- Bases2
  Node <- Nodes3
  Link <- Links2
  Nil = Nil
  BufSizes = {1, 2}
  DefBufSz = 1
  Grps = {0, 1}
  LinkSz = 2
  Caches <- Caches2
  AnySetConf = FALSE
  MaxUser = 2
SPECIFICATION Spec
CONSTRAINT Apart
SYMMETRY Symmetry
CHECK_DEADLOCK FALSE
INVARIANTS ConfInv SparesFit CacheCbsCover
