SPECIFICATION FairSpec
CONSTANTS
  MaxEvents = 3
  QueueSize = 2
  NSubs = 2
  Stoppers = {s1, s2}
  Loops = {l1, l2}
  NoTask = NoTask
INVARIANTS
  BusInv
  StopDrains
  LoopsOwned
PROPERTIES
  Delivers
  StopReturns
