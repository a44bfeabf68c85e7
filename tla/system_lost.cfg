SPECIFICATION SystemSpec
CONSTANTS
  p = p
  q = q
  v0 = v0
  v1 = v1
  v2 = v2
  a = a
  b = b
  c1 = c1
  Paths = {p}
  Versions = {v0, v1, v2}
  Count <- MCCount
  Cut <- MCCut
  WriteThrough = 2
  RecipeFaults = {"crash"}
  MaxUploads = 2
  Junk = Junk
  NoUpload = NoUpload
  NoJob = NoJob
  Chunks = {a, b, c1}
  Size <- MCSize
  Zero = Zero
  MaxContainerSize = 3
  BodySize = 3
  LastContainer = 4
  MaxSessions = 2
  Faults = {"crash"}
  NoEntry = NoEntry
  NoFile = NoFile
  NoConfig = NoConfig
  NoRead = NoRead
INVARIANT UploadServed
CHECK_DEADLOCK FALSE
