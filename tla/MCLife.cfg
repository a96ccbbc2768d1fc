SPECIFICATION FairSpec
CONSTANTS
  Threads = {t1, t2}
  MaxInits = 2
INVARIANTS
  LifeInv
  AllOrNothing
PROPERTIES
  DisableReturns
CHECK_DEADLOCK FALSE
