SPECIFICATION DirectorySpec
CONSTANTS
  a = a
  b = b
  dc = dc
  ac = ac
  Bases = {a, b}
  Codes = {dc, ac}
  Shapes <- MCShapes
  HeadBytes = 2
  ByteValues = 8
  MaxRuns = 3
  Givens <- MCGivens
  NoFile = NoFile
  Noise = Noise
INVARIANTS TablesCover ReadsItsOwn Repaired
PROPERTY RunDelivers
CHECK_DEADLOCK FALSE
SYMMETRY MCSymmetry
