SPECIFICATION FairSpec
CONSTANTS
  Rows = {r1}
  Versions = {v1}
  Workers = {w1}
  None = None
  BatchSize = 2
  MaxEntries = 3
  MaxSwaps = 0
  MaxDrops = 0
  MaxFaults = 0
  Env <- Calm
PROPERTIES MirrorConverges
CHECK_DEADLOCK FALSE
