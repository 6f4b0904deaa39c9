SPECIFICATION FairSpec
CONSTANTS
  p1 = p1
  p2 = p2
  None = None
  Order <- MCOrder
  Polling = {p2}
  Branched = {p1}
  MaxStarts = 3
  MaxFaults = 2
INVARIANTS TypeOK IdleIsWhole StatusTold
PROPERTIES OnlyBuilds FleetSettles
CHECK_DEADLOCK FALSE
