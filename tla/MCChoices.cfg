SPECIFICATION FairSpec
CONSTANTS
  d1 = d1
  d2 = d2
  d3 = d3
  f1 = f1
  f2 = f2
  none = none
  None = none
  Files = {f1, f2}
  Sizes = {2}
  Ports = {1, 2}
  Drives = {d1, d3}
  Serial <- MCSerial
  Capacity <- MCCapacity
  MaxChoices = 2
  MaxEvents = 2
INVARIANTS
  ShownImageIsTheChosenOne
  VerifyNeverWeaker
PROPERTIES
  OnlyTheUserReplaces
  StartsWithWhatIsShown
  InspectionsEnd
  GoneIsNoticed
