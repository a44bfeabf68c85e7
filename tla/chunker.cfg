SPECIFICATION ChunkerSpec
CONSTANTS
  minChunkSize = 3
  maxChunkSize = 6
  slidingWinSize = 2
  ReadSize = 4
  polyBase = 3
  Modulus = 16
  Word = 8
  Anchors = 4
  Bytes = {1, 2}
  MaxFile = 10
INVARIANTS NothingLost SizesInBounds CutByContent
PROPERTY Ended
CHECK_DEADLOCK FALSE
