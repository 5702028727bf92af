SPECIFICATION FairSpec
CONSTANTS
  Thread = {t1, t2}
  NoThread = NoThread
  Loc <- WordAndBytes
  WordSize = 2
  CacheLineSize = 4
  Byte = {0, 1}
  Instr = {"write", "scwrite", "read", "rmw", "casfail", "clflush", "clflushopt", "mfence"}
  MaxActs = 3
  BootSeq = 1
  CrashEnabled = TRUE
  FirstCrash = 0
  StoreBufferThreshold = 1
  EvictMax = 2
  ValueNone = 1000
INVARIANTS
  NoFlushesLeft
  LoadsAgree
PROPERTIES
  ImplementsTSO
  FenceCompletes
