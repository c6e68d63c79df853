SPECIFICATION FairSpec
CONSTANTS
  ue1 = ue1
  ue2 = ue2
  Ues = {ue1, ue2}
  NoUe = NoUe
  RanIds = {1, 2, 3}
  MaxConns = 3
  InitRan <- TwoUes
INVARIANTS
  TypeOK
  NgapMapsAgree
  SessionsFollow
  Supervised
PROPERTIES
  OldReleaseIgnored
  SilentIsReleased
CHECK_DEADLOCK FALSE
