SPECIFICATION Spec
CONSTANTS
  sda = sda
  sda1 = sda1
  sdb1 = sdb1
  loop0 = loop0
  stick = stick
  internal = internal
  port = port
  port2 = port2
  Paths = {sda, sda1, sdb1, loop0}
  Target = sda
  Drives = {stick, internal}
  NoDrive = none
  Points = {"/", "/media", ""}
  Critical = {"/"}
  Siblings = {port, port2}
  NoSibling = empty
  FirstTrees <- MCFirstTrees
  MaxChanges = 2
INVARIANTS
  SelectableIsUnused
  RemovalMissesNothing
CHECK_DEADLOCK FALSE
