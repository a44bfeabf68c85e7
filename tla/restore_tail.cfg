SPECIFICATION RestoreSpec
CONSTANTS
  Batch = 3
  MaxTotal = 7
INVARIANT FileWhole
CHECK_DEADLOCK FALSE
