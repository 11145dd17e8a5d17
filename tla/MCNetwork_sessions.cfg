CONSTANTS
  Clients = {c1}
  Server = server
  Invalid = invalid
  MaxConnects = 2
  MaxStarts = 1
SPECIFICATION FairSpec
CHECK_DEADLOCK FALSE
INVARIANTS
  TypeOK
  OpenIsOwned
  PollsOpenHandle
PROPERTIES
  NoStaleEvent
  DisconnectReturns
  ClientsLeave
