SPECIFICATION Spec
CONSTANTS
  NumNodes = 2
  MaxBlocks = 2
  MaxCrash = 0
  MaxStart = 0
  WriteCap = 1
  MaxDropped = 2
  Lossy = TRUE
  Timely = TRUE
INVARIANT NoFork

CHECK_DEADLOCK FALSE
