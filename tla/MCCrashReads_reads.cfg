SPECIFICATION Spec
CONSTANTS
  Loc <- WordByteAndNext
  WordSize = 2
  CacheLineSize = 4
  MaxExec = 3
  MaxSeq = 4
  MaxOps = 4
  BootSeq = 1
CHECK_DEADLOCK FALSE
INVARIANT AllCutsOffered
PROPERTY ImplementsCuts
