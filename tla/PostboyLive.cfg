SPECIFICATION FairSpec
CONSTANTS
  Clients = {c1}
  Waiters = {main}
  NoLimit = NoLimit
  CallNumbers = {1, NoLimit}
PROPERTIES
  RequestsAreHandled
  EndOfInputFinishes
  WaiterReturns
CHECK_DEADLOCK FALSE
