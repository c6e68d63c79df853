CONSTANTS
  ue1 = ue1
  ue2 = ue2
  upf1 = upf1
  upf2 = upf2
  upf3 = upf3
  upf4 = upf4
  Sessions = {ue1, ue2}
  Upfs = {upf1, upf2, upf3, upf4}
  NoAddress = NoAddress
  MaxContexts = 2
  MaxLost = 0
  MaxInFlight = 2
  MaxFailures = 0
  MaxAsked = 5
  Path <- Apart
  Static <- OneStatic
  PoolSize = 1
SPECIFICATION FairSpec
INVARIANTS TunnelFirst
PROPERTIES DeletionReturnsAddress
CHECK_DEADLOCK FALSE
