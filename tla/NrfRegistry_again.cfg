SPECIFICATION Spec
CONSTANTS
  amf = amf
  smf = smf
  NFs = {smf}
  Punctual = {}
  Heartbeat = 3
  Margin = 1
  Interval = 4
  Phase = 1
  MaxLag = 1
  MaxRequests <- Requests
  Off = Off
INVARIANTS
  WatchedAgain
CHECK_DEADLOCK FALSE
