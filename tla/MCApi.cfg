SPECIFICATION ApiSpec
CONSTANTS
  Callers = {t1, t2}
  MaxSaves = 3
  MaxEpoch = 2
INVARIANTS
  ApiInv
PROPERTIES
  NeverRollsBack
CHECK_DEADLOCK FALSE
