SPECIFICATION Spec
CONSTANTS
  Geometries <- MCGeometries
  Capacities = {24, 27, 28}
  ImageSizes = {0, 1, 3, 8, 13, 24, 25, 27}
  Modes = {"Full", "Quick"}
  Accesses = {"RandomAccess", "SequentialReplay"}
  Window = 8
  Chunk = 4
  MaxRead = 4
INVARIANTS
  ReadsFollowTheRules
  VerdictIsTrue
CHECK_DEADLOCK FALSE
