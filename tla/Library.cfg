SPECIFICATION LibrarySpec
CONSTANTS
  Producers = {p1, p2}
  Consumers = {k1, k2}
  Casts <- MCCasts
  BlockSize = 2
  IndexSize = 2
  PoolSize = 2
  MaxPushes = 6
  MaxInVain = 1
  Free = Free
  Slots = 4
  Ring = 3
  MaxValues = 11
  Nodes = {n1, n2, n3}
  Tasks = {t1, t2}
  Keys = {x, y}
  Values = {1}
  Storages = {s1, s2, s3}
  EmptyStorage = EmptyStorage
  MaxDepth = 2
  Nobody = Nobody
INVARIANTS
  FailsOnlyWhenDue
  TakesItsValue
  ClaimsAreBacked
  BlocksAreExclusive
  CountsAreReferences
PROPERTIES
  FifoSpec
  MpscFifoSpec
  ContextSpec
SYMMETRY Symmetry
CHECK_DEADLOCK FALSE
