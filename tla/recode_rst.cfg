SPECIFICATION RereadSpec
CONSTANTS
  ByteBits = 3
  JPEGFileNum = 2
  LookBits = 4
  SlowPlaces = 8
  Images <- MCImages
  Symbols <- MCSymbols
  OneSizeMax <- MCOneSizeMax
INVARIANT Stuffed
CHECK_DEADLOCK FALSE
