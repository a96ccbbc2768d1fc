SPECIFICATION Spec
CONSTANTS
  NumNics = 3
  Handlers = {h1, h2}
  Faults = {f1, f2}
  MaxCalls = 4
  MaxRegistrations = 2
INVARIANTS
  NicInv
  SerialActiveHealthy
  StuckOnlyIfCancelled
CHECK_DEADLOCK FALSE
