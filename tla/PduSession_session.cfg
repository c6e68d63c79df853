CONSTANTS
  ue1 = ue1
  ue2 = ue2
  upf1 = upf1
  upf2 = upf2
  upf3 = upf3
  upf4 = upf4
  Sessions = {ue1, ue2}
  Upfs = {upf1}
  NoAddress = NoAddress
  MaxContexts = 3
  MaxLost = 1
  MaxInFlight = 2
  MaxFailures = 1
  MaxAsked = 6
  Path <- OneUpf
  Static <- Dynamic
  PoolSize = 2
SPECIFICATION Spec
SYMMETRY Symmetry
INVARIANTS TypeOK AddressExclusive SwitchConsistent NoMisdelivery
PROPERTIES OnlyOwnSession
CHECK_DEADLOCK FALSE
