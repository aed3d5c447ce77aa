SPECIFICATION LiveSpec
CONSTANTS
  Txn = {t1, t2, t3}
  TranCap = 2
  MaxTransactions = 1
  TimeLimit = 2
PROPERTY
  EveryTransactionIsHanded
CHECK_DEADLOCK FALSE
