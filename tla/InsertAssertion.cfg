SPECIFICATION ManSpec
CONSTANTS
  t1 = t1
  t2 = t2
  tex = tex
  mesh = mesh
  mat = mat
  TEXTURE = TEXTURE
  MESH = MESH
  Threads = {t1, t2}
  Names = {tex}
  Durable = {tex}
  Types = {TEXTURE, MESH}
  TypeOf <- MCTypeOf
  PoolSize = 1
  Null = Null
  MemNames = {tex}
  Chunks <- NoChunks
  LastStage = 1
  Rejects <- NoRejects
  Owner <- MCOwner
  Copies = {1, 2, 3, 4}
  MaxPlaced = 1
  Absent = Absent
  Empty = Empty
INVARIANT InsertAgrees
CHECK_DEADLOCK FALSE
