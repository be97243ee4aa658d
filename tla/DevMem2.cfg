CONSTANTS
  AddrBits = 5
  PageBits = 3
  Nums <- MCNums
  Letters <- MCLetters
  MaxArgs = 3
SPECIFICATION FairSpec
INVARIANTS
  TypeOK
  ReleasedBetweenCalls
PROPERTIES
  TerminatesBelowTop
CHECK_DEADLOCK FALSE
