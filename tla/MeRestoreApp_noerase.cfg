CONSTANTS
  Region = 3
  ChunkLen = 2
  MaxRestoreAttempts = 3
  FregVals <- MCFregVals
  Flaky = FALSE
SPECIFICATION Spec
INVARIANT CleanRunSucceeds
CHECK_DEADLOCK FALSE
