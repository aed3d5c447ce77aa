SPECIFICATION LiveSpec
CONSTANTS
  Batch = {b1, b2}
  OtherBlocks = {f1, f2}
  MaxForeign = 1
  Hash <- MCHash
  NoHash <- MCNoHash
  PrevOf <- MCPrevOf
  Own <- MCOwn
  BatchOf <- MCBatchOf
  NoBatch = NoBatch
  Dropped = Dropped
  MaxRetries = 1
  WriteCap = 1
INVARIANTS
  NeverHalts
  OneAcceptedPerParent
PROPERTIES
  KeepsPromise
  ClaimIsReleased
  BatchIsSettled
CHECK_DEADLOCK FALSE
