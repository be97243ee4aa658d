\* Controller with write-1-to-clear FDONE that FGO leaves alone.
CONSTANTS
  Addr <- MCAddr
  Val <- MCVal
  TxMax = 2
  IdlePolls = 2
  DonePolls = 2
  GoClearsDone = FALSE
SPECIFICATION Spec
INVARIANT SuccessIsCompletion
