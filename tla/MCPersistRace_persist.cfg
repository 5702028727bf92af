SPECIFICATION Spec
CONSTANTS
  N = 2
  Address = {0, 1, 2}
  CacheLineSize = 2
  Program <- Programs
  ValueNone = 1000
  MaxOps = 2
CHECK_DEADLOCK FALSE
INVARIANTS
  CreditedIsPersisted
  NoRaceMissed
  NoFalseWarning
