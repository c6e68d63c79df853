SPECIFICATION FairSpec
CONSTANTS
  Intervals = {1, 2, 3}
  Ties = FALSE
  Racing = FALSE
  Shutdown = FALSE
  Never = 9
  MaxTime = 4
  MaxTimers = 2
  MaxRemoves = 1
PROPERTIES
  EveryTimerFires
CHECK_DEADLOCK FALSE
