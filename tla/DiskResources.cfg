SPECIFICATION ManSpec
CONSTANTS
  t1 = t1
  t2 = t2
  tex = tex
  mesh = mesh
  mat = mat
  TEXTURE = TEXTURE
  MESH = MESH
  Threads = {t1, t2}
  Names = {mesh, mat}
  Durable = {}
  Types = {TEXTURE, MESH}
  TypeOf <- MCTypeOf
  PoolSize = 2
  Null = Null
  MemNames = {}
  Chunks <- TwoChunks
  LastStage = 0
  Rejects <- NoRejects
  Owner <- MCOwner
  Copies = {1, 2, 3, 4, 5}
  MaxPlaced = 1
  Absent = Absent
  Empty = Empty
INVARIANT ServesName
SYMMETRY AnyThread
CHECK_DEADLOCK FALSE
