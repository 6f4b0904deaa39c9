SPECIFICATION FairSpec
CONSTANTS
  v1 = v1
  v2 = v2
  d1 = d1
  d2 = d2
  Versions = {v1, v2}
  Daemons = {d1, d2}
  None = None
  Own <- MCOwn
  MaxPosts = 1
  MaxFaults = 0
  Env <- Calm
PROPERTIES Promoted
