SPECIFICATION Spec
CONSTANTS
  MaxThreads = 3
  Mutex = {m, r}
  Recursive = {r}
  Cond = {c}
  Ops <- AllOps
  MaxOps = 4
INVARIANTS
  TakeStepAsserts
  MutualExclusion
  NoMissedWakeUp
  DeadlockFound
  SearchEnds
  NoThreadLeftBehind
  OnLiveStack
PROPERTY ExecutionEnds
