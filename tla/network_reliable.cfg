SPECIFICATION Spec
CONSTANTS
  NumNodes = 3
  MaxBlocks = 2
  MaxCrash = 1
  MaxStart = 1
  WriteCap = 1
  MaxDropped = 2
  Lossy = FALSE
  Timely = TRUE
INVARIANTS
  TypeOK
  OneDistributor
  NoFork
  OwnBlockIsEverywhere
  InSyncAtRest
PROPERTIES
  SentOnSharedTip
  KeepOneChain
CHECK_DEADLOCK FALSE
