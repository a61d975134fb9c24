SPECIFICATION Spec
CONSTANTS
  MaxBlocks = 3
  MaxExpects = 2
  PipeSize = 1
  Kinds <- MCKinds
  Values <- MCValues
  SnapshotEnabled = TRUE
  CreateSnapshots = TRUE
  OverwriteSnapshots = FALSE
  Missing = Missing
  Stored = {Missing}
INVARIANTS
  TypeOK
  VerdictTruthful
  ResultHonest
PROPERTIES
  RunSettles
CHECK_DEADLOCK FALSE
