CONSTANTS
  room = room
  table = table
  cup = cup
  Entities = {room, table, cup}
  Scene = Scene
  Null = Null
  Dead = Dead
  Locals = {0, 1}
  Default = 0
  Loaded <- Furnished
  MaxSnapshots = 2
  SizeT = 4
  DestroyParents = FALSE
  MaxOps = 4
SPECIFICATION Spec
CHECK_DEADLOCK FALSE
INVARIANTS
  TypeOK
  SiblingLists
  RevertIsDrawn
PROPERTIES
  ImplementsForest
  UndoneIsPast
  RevertKeepsScene
