SPECIFICATION FairSpec
CONSTANTS
  Cap = 3
  Rate = 2
  Files <- MCFiles
  Altered <- MCAltered
  Buffer = 2
  Quantum = 2
  Probe = 1
  Chunk = 4
  Ahead = 1
  Limit = 4
INVARIANTS
  PreparedIsIntact
  FinalBytesAreVerified
  UnalteredDecodesAlike
  WorkIsBounded
  CancelStopsPreflight
PROPERTIES
  KeepsItsPromise
  ReadsReturn
CHECK_DEADLOCK FALSE
