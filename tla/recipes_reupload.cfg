SPECIFICATION RecipeSpec
CONSTANTS
  p = p
  q = q
  v0 = v0
  v1 = v1
  v2 = v2
  Paths = {p}
  Versions = {v0, v1, v2}
  Count <- MCCount
  RecipeFaults = {}
  MaxUploads = 2
  Junk = Junk
  NoUpload = NoUpload
INVARIANT UploadTakesEffect
CHECK_DEADLOCK FALSE
