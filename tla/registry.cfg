SPECIFICATION Spec
CONSTANTS
  a = a
  b = b
  none = none
  n1 = n1
  n2 = n2
  n3 = n3
  null = null
  u1 = u1
  u2 = u2
  Names <- NameSet
  Empty = none
  Nodes <- NodeSet
  Null = null
  Units <- UnitSet
  Objects <- DocumentedObjects
  Paths <- PathSet
  Depths <- DepthSet
INVARIANTS
  PutIsFound
  HandlersGetTheirNode
  WalkIsComplete
  WalkInPreorder
PROPERTIES
  FirstPutWins
