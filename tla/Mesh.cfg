SPECIFICATION Spec
CONSTANTS
  a = a
  b = b
  c = c
  Positions = {a, b, c}
  X <- MCX
  Faces <- MCFaces
  Transforms <- MCTransforms
  MaybeDeleted = FALSE
  MaxVertices = 4
  MaxPolygons = 2
  MaxEdits = 1
INVARIANTS MeshTypeOK PairsMatch RingsAreClasses LoopsClose
PROPERTY ShapeKept
