SPECIFICATION LiveSpec
CONSTANTS
  NumNodes = 2
  MaxBlocks = 3
  MaxCrash = 1
  MaxStart = 0
  WriteCap = 1
  MaxDropped = 2
  Lossy = TRUE
  Timely = TRUE
PROPERTIES
  KeepPromises
  

CHECK_DEADLOCK FALSE
