SPECIFICATION Spec
CONSTANTS
  s1 = s1
  s2 = s2
  Base = {s1, s2}
  GrpCstr = {s1}
  Buf = {r1, r2}
  NoBuf = NoBuf
  Handle = {h1}
  Char = {"a", "b"}
  Nul = "0"
  MaxLen <- Lengths
  MaxAdd = 1
  SizeMod = 16
SYMMETRY Symm
VIEW StateView
INVARIANTS CstrInv CstrCacheRight HeldRight
