SPECIFICATION DirectorySpec
CONSTANTS
  a = a
  b = b
  dc = dc
  ac = ac
  Bases = {a}
  Codes = {dc, ac}
  Shapes <- MCShapes
  Givens <- FitGivens
  HeadBytes = 2
  ByteValues = 4
  MaxRuns = 2
  NoFile = NoFile
  Noise = Noise
INVARIANT SegmentsFit
CHECK_DEADLOCK FALSE
