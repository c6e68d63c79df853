SPECIFICATION FairSpec
CONSTANTS
  amf = amf
  smf = smf
  NFs = {amf, smf}
  Punctual = {amf}
  Heartbeat = 3
  Margin = 1
  Interval = 4
  Phase = 1
  MaxLag = 1
  MaxRequests <- Requests
  Off = Off
INVARIANTS
  TypeOK
  PunctualIsKept
  WatchedUntilLapse
PROPERTIES
  NeverHeardIsRemoved
  SilentIsSuspended
CHECK_DEADLOCK FALSE
