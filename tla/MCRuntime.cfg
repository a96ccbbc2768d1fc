SPECIFICATION FairSpec
CONSTANTS
  MaxEvents = 3
  QueueSize = 2
  Stopper = stopper
  Loop = Loop
  NoTask = NoTask
  Faults <- MCFaults
  Ranks <- MCRanks
  Nodes = {"n0", "n1"}
  Racks = {"rackA"}
  NoRack = NoRack
  Windows = {0}
  Thresholds = {3}
  Suspending = {4}
  Raising = {4}
  ObserveOnly = {FALSE}
INVARIANTS
  EventsAnswered
  EpochsInOrder
  AuditInOrder
PROPERTIES
  EventSettles
CHECK_DEADLOCK FALSE
