SPECIFICATION FairSpec
CONSTANTS
  Keys = {1, 2}
  BatchSize = 1
  MaxLag = 5
  SameName = TRUE
  Matching <- Everything
  MaxWrites = 3
  MaxBoots = 2
  Env <- Calm
PROPERTIES Converges
CHECK_DEADLOCK FALSE
