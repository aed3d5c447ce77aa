SPECIFICATION LiveSpec
CONSTANTS
  Txn = {t1, t2, t3, t4, t5}
  TranCap = 2
  MaxTransactions = 2
  TimeLimit = 2
INVARIANTS
  TypeOK
  FirstComeFirstServed
PROPERTIES
  IsBatchQueue
  HandedUnlessLate
CHECK_DEADLOCK FALSE
