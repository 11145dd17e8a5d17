CONSTANTS
  Clients = {c1}
  Server = server
  Invalid = invalid
  MaxConnects = 2
  MaxStarts = 2
SPECIFICATION Spec
CHECK_DEADLOCK FALSE
INVARIANTS
  ClientIsFound
