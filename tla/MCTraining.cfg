SPECIFICATION FairSpec
CONSTANTS
  World = 3
  Steps = 3
  HeartbeatTimeout = 1
  CollectiveTimeout = 3
  DrainTimeout = 2
  Traces <- MCTraces
INVARIANTS
  TrainInv
  TraceAccounted
  ResumeIsInFlight
  HaltTold
PROPERTIES
  DeathSeen
  RunEnds
CHECK_DEADLOCK FALSE
