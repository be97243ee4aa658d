CONSTANTS
  MsrArgs <- MCMsrArgs
  MsrAddrBits = 10
  FullModes <- MCFullModes
SPECIFICATION Spec
INVARIANTS
  TypeOK
  MarkerAtFullEnd
  FullRunsItsTiers
PROPERTIES
  MarkerErasedOnlyByMsrWriters
