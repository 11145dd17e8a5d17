CONSTANTS
  w1 = w1
  w2 = w2
  main = main
  j1 = j1
  j2 = j2
  j3 = j3
  j4 = j4
  j5 = j5
  Workers = {w1, w2}
  Externals = {main}
  Jobs = {j1, j2, j3, j4, j5}
  Creator <- NestedCreator
  Urgency <- OneNormal
  Global = Global
  None = None
  CountMax = 5
  CacheSize = 2
  Threshold = 0
  MoveCount = 1
SYMMETRY Alike
SPECIFICATION Spec
INVARIANTS
  TypeOK
  EachJobOnce
  CountsExact
  ZeroHidesNothing
PROPERTIES
  UrgentFirst
