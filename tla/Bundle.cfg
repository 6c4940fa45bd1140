SPECIFICATION BundleFairSpec
CONSTANTS
  TEX = TEX
  MAT = MAT
  MESH = MESH
  Ids = {TEX, MAT, MESH}
  Dependencies <- MCDependencies
  StoredSize <- MCStoredSize
  Alignment = 2
  MaxChunks = 4
  Anything = Anything
INVARIANTS BundleTypeOK DependenciesFirst EveryChunkOnce DeliveredInOrder GaplessReadWorks OkayIsWhole
PROPERTIES BundleEnds
CHECK_DEADLOCK FALSE
