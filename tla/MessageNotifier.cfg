SPECIFICATION FairSpec
CONSTANTS
  Threads = {t1, t2}
  QueueSize = 2
  StorageSize = 5
  BufferSize = 2
  MaxSent = 5
INVARIANTS
  TypeOK
  CopyIsIntact
  OnlyTheLivingAreRead
PROPERTIES
  DeliveredInOrder
  MessagesArrive
CHECK_DEADLOCK FALSE
