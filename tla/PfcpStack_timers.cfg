SPECIFICATION Spec
CONSTANTS
  smf = smf
  upf = upf
  upf2 = upf2
  Nodes <- OneUpf
  Traffic <- OneWay
  InitSeq <- ApartPair
  CtrMod = 8
  WireMod = 4
  MaxTrxn = 2
  N1 = 2
  None = None
  TimeoutsDispatched = TRUE
PROPERTIES
  NoRetryAfterResponse
CHECK_DEADLOCK FALSE
