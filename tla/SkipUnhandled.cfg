SPECIFICATION BundleSpec
CONSTANTS
  TEX = TEX
  MAT = MAT
  MESH = MESH
  Ids = {TEX, MAT, MESH}
  Dependencies <- MCDependencies
  StoredSize <- MCStoredSize
  Alignment = 2
  MaxChunks = 4
  Anything = Anything
INVARIANTS SkipsUnhandled
CHECK_DEADLOCK FALSE
