SPECIFICATION WebsocketSpec
CONSTANTS
  c1 = c1
  c2 = c2
  Clients <- MCClients
  Loops <- Alone
  Backoffs = 2
  MaxConnects = 2
  MaxConnections = 3
  MaxNested = 3
  MaxQueue = 2
INVARIANTS
  KeepsTrying
  FinishedIsSilent
PROPERTY ClosingIsFinal
CHECK_DEADLOCK FALSE
