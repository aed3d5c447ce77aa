SPECIFICATION Spec
CONSTANTS
  Batch = {b1, b2}
  OtherBlocks = {f1, f2}
  MaxForeign = 1
  Hash <- MCHash
  NoHash <- MCNoHash
  PrevOf <- MCPrevOf
  Own <- MCOwn
  BatchOf <- MCBatchOf
  NoBatch = NoBatch
  Dropped = Dropped
  MaxRetries = 2
  WriteCap = 1
INVARIANTS
  TypeOK
  LinkedChain
  ClaimHasOwner
  BatchInOnePlace
  HeadIsOnDisk
PROPERTIES
  PrevHashAdvances
  ImplementsLedger
SYMMETRY MCSymmetry
CHECK_DEADLOCK FALSE
