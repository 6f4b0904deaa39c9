SPECIFICATION FairSpec
CONSTANTS
  Keys <- MCKeys
  Width = 2
  ChunkSize = 3
  MaxChanges = 2
  Env <- Everything
INVARIANTS TypeOK NoGhostSurvives
PROPERTIES DeletesOnlyGhosts SweepEnds
CHECK_DEADLOCK FALSE
