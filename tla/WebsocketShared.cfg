SPECIFICATION WebsocketSpec
CONSTANTS
  c1 = c1
  c2 = c2
  Clients <- MCClients
  Loops <- Together
  Backoffs = 1
  MaxConnects = 1
  MaxConnections = 1
  MaxNested = 1
  MaxQueue = 1
INVARIANT CountIsPositive
CHECK_DEADLOCK FALSE
