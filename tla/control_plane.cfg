SPECIFICATION Spec
CONSTANTS
  r1 = r1
  r2 = r2
  r3 = r3
  r4 = r4
  own = own
  v1 = v1
  v2 = v2
  Requests <- MCRequests
  Versions <- MCVersions
  Own = own
  None = None
SYMMETRY Symmetry
INVARIANTS TypeOK LaterPostWins GenerationsDense SettingsAreOwn
CHECK_DEADLOCK FALSE
