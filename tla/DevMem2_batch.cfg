CONSTANTS
  AddrBits = 5
  PageBits = 3
  Nums <- MCNums
  Letters <- MCLetters
  MaxArgs = 3
SPECIFICATION FairSpec
INVARIANTS
  BatchReadsListed
CHECK_DEADLOCK FALSE
