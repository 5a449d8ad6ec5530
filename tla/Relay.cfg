SPECIFICATION FairRelay
CONSTANTS
  MaxLen = 12
  ReadSize = 4
  HeaderMod = 9
INVARIANTS RelaySound
PROPERTIES RelayEnds
CHECK_DEADLOCK FALSE
