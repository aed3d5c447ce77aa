SPECIFICATION Spec
CONSTANTS
  User = {u1, u2, u3}
  MaxCoin = 2
  MaxBalance = 1
  MaxTxns = 3
INVARIANTS
  TypeOK
  MapNeverTooHigh
  OwnBlockAffordable
  SignedIsCovered
  RefusedIsOverspent
SYMMETRY MCSymmetry
CHECK_DEADLOCK FALSE
