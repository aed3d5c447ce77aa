SPECIFICATION Spec
CONSTANTS
  User = {u1, u2}
  MaxCoin = 1
  MaxBalance = 0
  MaxTxns = 3
INVARIANT MarkedBlockIsSigned
CHECK_DEADLOCK FALSE
