SPECIFICATION ManFairSpec
CONSTANTS
  t1 = t1
  t2 = t2
  tex = tex
  mesh = mesh
  mat = mat
  TEXTURE = TEXTURE
  MESH = MESH
  Threads = {t1, t2}
  Names = {tex}
  Durable = {tex}
  Types = {TEXTURE, MESH}
  TypeOf <- MCTypeOf
  PoolSize = 2
  Null = Null
  MemNames = {tex}
  Chunks <- NoChunks
  LastStage = 2
  Rejects <- RefusedStage
  Owner <- MCOwner
  Copies = {1, 2, 3, 4, 5}
  MaxPlaced = 2
  Absent = Absent
  Empty = Empty
INVARIANTS ManTypeOK CurrentContent IncompleteIsBeingLoaded
PROPERTIES CacheSlotStable AcquireReturns
CHECK_DEADLOCK FALSE
