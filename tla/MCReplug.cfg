CONSTANTS
  d1 = d1
  d2 = d2
  d3 = d3
  none = none
  Drives = {d1, d2, d3}
  NoSerial = none
  Serial <- MCSerial
  Size <- MCSize
  MaxEvents = 5
  ImageSizes = {1}
  Modes = {"Full"}
  Kinds = {"Raw"}
  Origins = {"Listed", "BlockPathOnly"}
  Disturbances = {"plug", "use"}
SPECIFICATION Spec
INVARIANTS
  WritesOnlyWhatWasConfirmed
  VerifyReadsTheWrittenInstance
PROPERTY NeverWritesWhileInUse
CHECK_DEADLOCK FALSE
