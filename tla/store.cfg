SPECIFICATION Spec
CONSTANTS
  a = a
  b = b
  c1 = c1
  Chunks = {a, b, c1}
  Size <- MCSize
  Zero = Zero
  MaxContainerSize = 3
  BodySize = 3
  LastContainer = 3
  MaxSessions = 4
  Faults = {"crash", "torn", "config", "save", "insert"}
  NoEntry = NoEntry
  NoFile = NoFile
  NoConfig = NoConfig
  NoRead = NoRead
INVARIANTS TypeOK Intact CleanShutdown ReadsBack
PROPERTIES DurableKept SealedKept Implements
CHECK_DEADLOCK FALSE
