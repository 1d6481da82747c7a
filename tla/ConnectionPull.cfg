SPECIFICATION Spec
CONSTANTS
  u1 = u1
  u2 = u2
  Pinger = Pinger
  Owner = Owner
  Users <- MCUsers
  Casts <- MCCasts
  MaxCount = 2
INVARIANTS
  EachOnce
  CountBounded
PROPERTY DestructionEnds
CHECK_DEADLOCK FALSE
CONSTRAINT Followed
