SPECIFICATION BenchSpec
CONSTANTS
  Workloads <- MCWorkloads
  Pool <- MCPool
  Steps <- MCSteps
  MaxFaults = 3
  TotalSteps = 6000
INVARIANTS
  AtExpectedTier
  CompositionWins
CHECK_DEADLOCK FALSE
