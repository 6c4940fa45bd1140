SPECIFICATION Spec
CONSTANTS
  m = m
  o = o
  NoMesh = NoMesh
  Meshes = {m}
  Objects = {o}
  Packets <- MCPackets
  Window = 1
  MaxDelta = 1
  MaxTime = 3
  MaxPackets = 3
  Capacity = 2
  StableUpTo = 3
INVARIANTS ReplayTypeOK DrawsNewest MeshBeforeObject NoCallbackAfterGui
PROPERTIES EveryPacketAdded Closes
