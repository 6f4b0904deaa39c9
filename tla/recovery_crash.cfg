SPECIFICATION Spec
CONSTANTS
  Keys = {1, 2}
  BatchSize = 1
  MaxLag = 5
  SameName = TRUE
  Matching <- Everything
  MaxWrites = 3
  MaxBoots = 2
  Env <- Crashes
INVARIANTS ZeroLossHandover
CHECK_DEADLOCK FALSE
