SPECIFICATION Spec
CONSTANTS
  Handlers = {h1}
  Faults <- RoutingFaults
  Ranks <- MCRanks
  Nodes <- MCNodes
  Racks <- MCRacks
  NoRack = NoRack
  Windows = {0}
  Thresholds = {2}
  Suspending = {}
  Raising = {2, 3, 4}
  ObserveOnly = {FALSE}
  MaxFaults = 2
  MaxTime = 0
INVARIANTS
  EveryFaultAudited
CHECK_DEADLOCK FALSE
