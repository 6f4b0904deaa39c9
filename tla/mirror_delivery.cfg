SPECIFICATION Spec
CONSTANTS
  Rows = {r1, r2}
  Versions = {v1}
  Workers = {w1, w2}
  None = None
  BatchSize = 2
  MaxEntries = 3
  MaxSwaps = 0
  MaxDrops = 1
  MaxFaults = 1
  Env <- Anything
SYMMETRY RowSymmetry
INVARIANTS TypeOK NothingSkipped CaughtUpIsExact
CHECK_DEADLOCK FALSE
