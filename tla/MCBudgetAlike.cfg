SPECIFICATION Spec
CONSTANTS
  Cap = 2
  Rate = 2
  Files <- BudgetFiles
  Altered <- None
  Buffer = 2
  Quantum = 2
  Probe = 1
  Chunk = 4
  Ahead = 0
  Limit = 8
INVARIANT
  BudgetAppliesAlike
CHECK_DEADLOCK FALSE
