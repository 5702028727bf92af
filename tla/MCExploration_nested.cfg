SPECIFICATION Spec
CONSTANTS
  MaxDepth = 3
  MaxChoices = 2
  Programs <- TwoRandomCrashes
CHECK_DEADLOCK FALSE
INVARIANTS
  RandomNeverReplays
