SPECIFICATION Spec
CONSTANTS
  MaxThreads = 2
  Mutex = {m}
  Recursive = {}
  Cond = {c}
  Ops <- AllOps
  MaxOps = 6
INVARIANT FreedIsOver
