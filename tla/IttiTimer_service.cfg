SPECIFICATION FairSpec
CONSTANTS
  Intervals = {1, 2}
  Ties = FALSE
  Racing = TRUE
  Shutdown = TRUE
  Never = 9
  MaxTime = 3
  MaxTimers = 3
  MaxRemoves = 1
INVARIANTS
  TypeOK
  TimersAreKept
PROPERTIES
  ServiceSpec
  FiresUndisturbed
CHECK_DEADLOCK FALSE
