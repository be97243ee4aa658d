\* Controller whose FGO write clears a stale FDONE.
CONSTANTS
  Addr <- MCAddr
  Val <- MCVal
  TxMax = 2
  IdlePolls = 2
  DonePolls = 2
  GoClearsDone = TRUE
SPECIFICATION FairSpec
INVARIANT TypeOK
INVARIANT SuccessAfterFreshGo
PROPERTY NoCycleWhileBusy
PROPERTY TransactionReturns
PROPERTY TxnSpec
