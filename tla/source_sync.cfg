SPECIFICATION FairSpec
CONSTANTS
  a = a
  b = b
  Contents = {a, b}
  Gone = Gone
  MaxKey = 3
  BatchSize = 2
  MaxWrites = 1
  MaxStarts = 3
  MaxFaults = 1
INVARIANTS TypeOK NothingBehindCursor
PROPERTIES PassIsExact PassEnds
CHECK_DEADLOCK FALSE
