SPECIFICATION WatchSpec
CONSTANTS
  a = a
  b = b
  helper = helper
  config = config
  Spec = {a, b}
  Lib = {helper}
  Config = config
  Outside = {helper}
  InitialImports <- MCImports
  InitialBroken = {}
  Parallel = TRUE
  FuzzEnabled = FALSE
  WarmCache = {a}
  Fragile = {helper}
  Rewired = {a}
  MaxEdits = 2
  None = None
INVARIANTS
  TypeOK
  NoLostWakeup
  VerdictCurrent
  HonestExit
  QuietMeansFresh
PROPERTIES
  TriggersTaken
  RunsCease
