SPECIFICATION FairSpec
CONSTANTS
  Rows = {r1}
  Versions = {v1, v2}
  Workers = {w1}
  None = None
  BatchSize = 2
  MaxEntries = 3
  MaxSwaps = 2
  MaxDrops = 0
  MaxFaults = 1
  Env <- Faults
PROPERTIES Delivered AliasFollows
CHECK_DEADLOCK FALSE
