SPECIFICATION Spec
CONSTANTS
  MaxDepth = 4
  MaxChoices = 3
  Programs <- Mixed
CHECK_DEADLOCK FALSE
INVARIANTS
  RandomNeverReplays
PROPERTY ExploresTree
