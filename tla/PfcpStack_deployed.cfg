SPECIFICATION Spec
CONSTANTS
  smf = smf
  upf = upf
  upf2 = upf2
  Nodes <- TwoUpfs
  Traffic <- Crossing
  InitSeq <- MeetSeq
  CtrMod = 12
  WireMod = 6
  MaxTrxn = 3
  N1 = 3
  None = None
  TimeoutsDispatched = FALSE
INVARIANTS
  TypeOK
  PendingIsMapped
  OneResponseSent
  OneResponseHandedUp
  OneExecutionInFlight
  ResponseToOwnRequest
CHECK_DEADLOCK FALSE
