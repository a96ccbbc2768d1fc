SPECIFICATION ComputeSpec
CONSTANTS
  Nodes = {n1, n2}
  Tasks = {h1, h2}
  MaxFallbacks = 2
  MaxWindows = 5
INVARIANTS
  ComputeInv
CHECK_DEADLOCK FALSE
