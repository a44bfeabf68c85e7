SPECIFICATION RestoreSpec
CONSTANTS
  Batch = 3
  MaxTotal = 7
INVARIANTS BatchesInRecipe InOrder EndsComplete
PROPERTY Terminates
CHECK_DEADLOCK FALSE
