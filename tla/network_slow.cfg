SPECIFICATION Spec
CONSTANTS
  NumNodes = 2
  MaxBlocks = 2
  MaxCrash = 0
  MaxStart = 0
  WriteCap = 1
  MaxDropped = 2
  Lossy = FALSE
  Timely = FALSE
INVARIANT OwnBlockIsEverywhere

CHECK_DEADLOCK FALSE
