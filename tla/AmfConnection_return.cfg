SPECIFICATION Spec
CONSTANTS
  ue1 = ue1
  ue2 = ue2
  Ues = {ue1}
  NoUe = NoUe
  RanIds = {1, 2}
  MaxConns = 2
  InitRan <- OneUe
PROPERTIES
  ConnectedIsKept
CHECK_DEADLOCK FALSE
