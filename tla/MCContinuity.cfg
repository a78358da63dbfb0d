SPECIFICATION FairSpec
CONSTANTS
  d1 = d1
  d2 = d2
  d3 = d3
  none = none
  Drives = {d1, d3}
  Serial <- MCSerial
  NoSerial = none
  Size <- MCSize
  MaxEvents = 3
  Commands = {"select", "openTest", "prepareTest"}
  MaxPending = 1
INVARIANTS OpenedIsSelected LossIsPending
PROPERTIES InvalidatedForGood LossIsNoticed
CHECK_DEADLOCK FALSE
