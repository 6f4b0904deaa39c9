SPECIFICATION Spec
CONSTANTS
  Keys = {1, 2}
  BatchSize = 1
  MaxLag = 1
  SameName = TRUE
  Matching <- FirstTwo
  MaxWrites = 3
  MaxBoots = 2
  Env <- Anything
INVARIANTS TypeOK HandoverUsesAnchor CatchUpCovers RecoveryIsAlone
PROPERTIES NoLossWhileAttached NoLossWhileAlone SweepHeals ImplementsContract
CHECK_DEADLOCK FALSE
