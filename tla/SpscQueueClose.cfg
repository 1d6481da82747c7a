SPECIFICATION FairSpec
CONSTANTS
  Capacity = 3
  MaxPushes = 8
  Empty = Empty
PROPERTIES
  ClosedQueueIsDrained
