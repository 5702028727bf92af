SPECIFICATION Spec
CONSTANTS
  N = 3
  Address = {0, 1, 2}
  PageSize = 2
  ThreadMask = 3
  VectorMask = 8
  InitCapacity = 2
  Program <- Programs
  Recovery <- WriteAndRead
  StoreBufferThreshold = 0
  MaxCrash = 1
CHECK_DEADLOCK FALSE
INVARIANTS
  RacesAreReal
  RacesAreFound
  SizedAsBytes
