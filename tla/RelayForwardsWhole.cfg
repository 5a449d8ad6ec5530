SPECIFICATION RelaySpec
CONSTANTS
  MaxLen = 12
  ReadSize = 4
  HeaderMod = 9
INVARIANT ForwardsWhole
CHECK_DEADLOCK FALSE
