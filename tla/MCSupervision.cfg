SPECIFICATION FairSpec
CONSTANTS
  Ranks = {0, 1}
  MaxLaunches = 3
  MaxKilled = 1
  MaxStuck = 1
  Reuse = TRUE
INVARIANTS
  SupervisionInv
  OneLaunchPerGpu
  SamplerCovers
PROPERTIES
  SamplerEnds
CHECK_DEADLOCK FALSE
