CONSTANTS
  d1 = d1
  d2 = d2
  d3 = d3
  none = none
  Drives = {d1}
  NoSerial = none
  Serial <- MCSerial
  Size <- MCSizeFour
  MaxEvents = 2
  ImageSizes = {0, 1, 4, 5}
  Modes = {"None", "Quick", "Full"}
  Kinds = {"Raw", "Compressed"}
  Origins = {"BlockPathOnly"}
  Disturbances = {"use", "source", "cancel", "foreign"}
SPECIFICATION FairSpec
INVARIANTS
  SyncedImageIsTheSelectedOne
  VerifiedTargetHoldsTheImage
  CancelStopsWithinOneChunk
  ResultIsTrue
PROPERTIES KeepsTheContract OperationEnds
CHECK_DEADLOCK FALSE
