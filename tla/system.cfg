SPECIFICATION SystemSpec
CONSTANTS
  p = p
  q = q
  v0 = v0
  v1 = v1
  v2 = v2
  a = a
  b = b
  c1 = c1
  Paths = {p, q}
  Versions = {v0, v1, v2}
  Count <- MCCount
  Cut <- MCCut
  WriteThrough = 2
  RecipeFaults = {"crash", "open", "meta"}
  MaxUploads = 3
  Junk = Junk
  NoUpload = NoUpload
  NoJob = NoJob
  Chunks = {a, b, c1}
  Size <- MCSize
  Zero = Zero
  MaxContainerSize = 3
  BodySize = 3
  LastContainer = 3
  MaxSessions = 3
  Faults = {"crash", "torn", "config", "save", "insert"}
  NoEntry = NoEntry
  NoFile = NoFile
  NoConfig = NoConfig
  NoRead = NoRead
SYMMETRY MCSymmetry
INVARIANTS ListedKnown CleanUploadServed RestoreServes WholeVersions
PROPERTIES ArchivedKept PublishedKept
CHECK_DEADLOCK FALSE
