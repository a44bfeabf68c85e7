SPECIFICATION KeySpec
CONSTANTS
  HashSize = 2
  Bytes = {0, 65, 128}
  Behind <- MCBehind
INVARIANTS ListedSaved WholeFetched
