CONSTANTS
  main = main
  w1 = w1
  w2 = w2
  j1 = j1
  j2 = j2
  j3 = j3
  j4 = j4
  Workers = {w1, w2}
  Externals = {main}
  Jobs = {j1, j2, j3}
  Creator <- NestedCreator
  Detached = {j3}
  Global = Global
  None = None
  MaxSuspends = 1
  CounterMax = 7
  CacheSize = 2
  Threshold = 1
  MoveCount = 1
  StealCheckInterval = 1
SYMMETRY Alike
SPECIFICATION Spec
INVARIANTS
  TypeOK
  HandleUnique
  NoJobLost
  CounterExact
  CounterAlive
  ReturnsToOwnFrame
PROPERTIES
  JoinComplete
  ImplementsForkJoin
