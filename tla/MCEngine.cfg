SPECIFICATION Spec
CONSTANTS
  Handlers = {h1, h2}
  Faults <- RoutingFaults
  Ranks <- MCRanks
  Nodes <- MCNodes
  Racks <- MCRacks
  NoRack = NoRack
  Windows = {0, 1}
  Thresholds = {2}
  Suspending = {0, 1}
  Raising = {2, 3, 4}
  ObserveOnly = {FALSE, TRUE}
  MaxFaults = 3
  MaxTime = 1
SYMMETRY HandlerSymmetry
INVARIANTS
  EpochsAccounted
  EscalationSound
  KpiMatchesAudit
  BurstEscalates
PROPERTIES
  ClimbsOnly
  GateFresh
CHECK_DEADLOCK FALSE
