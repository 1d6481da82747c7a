SPECIFICATION FairSpec
CONSTANTS
  Capacity = 3
  MaxPushes = 8
  Empty = Empty
INVARIANT SlotsAreExclusive
PROPERTIES
  FifoSpec
  CallsReturn
