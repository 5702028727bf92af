SPECIFICATION Spec
CONSTANTS
  Thread = {t1, t2}
  NoThread = NoThread
  Loc <- OneByte
  WordSize = 2
  CacheLineSize = 4
  Byte = {0, 1}
  Instr = {"write", "clflush", "clflushopt", "sfence", "mfence"}
  MaxActs = 4
  BootSeq = 1
  CrashEnabled = TRUE
  FirstCrash = 0
  StoreBufferThreshold = 0
  EvictMax = 2
  ValueNone = 1000
SYMMETRY Symmetry
INVARIANTS
  TypeOK
  StoreOrder
  FlushDurable
  FencesComplete
  CoverJustified
  NoLostCrashPoint
PROPERTY
  CrashFreezesStores
