SPECIFICATION FairSpec
CONSTANTS
  range = range
  dummy1 = dummy1
  dummy2 = dummy2
  null = null
  q1 = q1
  q2 = q2
  NoQueue = NoQueue
  Nothing = Nothing
  Capacity = 1
  Postboys <- MCPostboys
  Queues <- MCQueues
  In <- MCIn
  Out <- MCOut
  Limit <- MCLimit
INVARIANTS
  TypeOK
  ItemsAreConserved
PROPERTIES
  RoutesKeepOrder
  EndOfStreamIsFinal
  EndOfStreamPropagates
  PutWaitsOnlyForTheDead
CHECK_DEADLOCK FALSE
