SPECIFICATION FairSpec
CONSTANTS
  upf1 = upf1
  upf2 = upf2
  Upfs <- TwoUpfs
  Hash <- HighLow
  OwnHash = 3
  Half = 4
  SizeMod = 32
  MaxRetries = 1
  MaxAssociations = 1
  MaxSetups = 3
  MaxResponses = 1
INVARIANTS
  TypeOK
  HeartbeatAlive
  FailedIsRemoved
  FailureNeedsHeartbeats
  WithinCapacity
PROPERTIES
  RemovedHasFailed
  SilentIsGivenUp
CHECK_DEADLOCK FALSE
