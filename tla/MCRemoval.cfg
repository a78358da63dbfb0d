SPECIFICATION FairSpec
CONSTANTS
  d1 = d1
  d2 = d2
  d3 = d3
  none = none
  Drives = {d1, d2, d3}
  NoSerial = none
  Serial <- MCSerial
  Size <- MCSize
  MaxEvents = 4
  MaxMounts = 2
INVARIANTS ActsOnlyWhereJudged NothingInUseIsPoweredOff
PROPERTY RemovalEnds
PROPERTY GivenUpForGood
CHECK_DEADLOCK FALSE
