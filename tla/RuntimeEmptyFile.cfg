SPECIFICATION Spec
CONSTANTS
  MaxBlocks = 2
  MaxExpects = 2
  PipeSize = 1
  Kinds <- MCKinds
  Values <- MCValues
  SnapshotEnabled = TRUE
  CreateSnapshots = TRUE
  OverwriteSnapshots = FALSE
  Missing = Missing
  Stored = {Missing}
INVARIANT
  EmptyFileIsEmpty
CHECK_DEADLOCK FALSE
