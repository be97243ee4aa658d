CONSTANTS
  Region = 3
  ChunkLen = 2
  MaxRestoreAttempts = 3
  FregVals <- MCFregVals
  Flaky = TRUE
SPECIFICATION FairSpec
INVARIANTS
  TypeOK
  AppSuccessMeansImage
  TransferClipped
  RestoreBound
  ExitCleansUp
PROPERTIES
  AppTerminates
CHECK_DEADLOCK FALSE
