SPECIFICATION Spec
CONSTANTS
  Clients = {c1, c2}
  Waiters = {}
  NoLimit = NoLimit
  CallNumbers = {2, NoLimit}
INVARIANTS
  StoppedIsQuiet
  AtMostOneLateCall
  CallsWithinLimit
  FinishedWhenDue
PROPERTIES
  FinishIsIrrevocable
  LifecycleSpec
CHECK_DEADLOCK FALSE
