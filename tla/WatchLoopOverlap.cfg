SPECIFICATION WatchSpec
CONSTANTS
  a = a
  b = b
  helper = helper
  config = config
  Spec = {a, b}
  Lib = {helper}
  Config = config
  Outside = {}
  InitialImports <- MCImports
  InitialBroken = {}
  Parallel = FALSE
  FuzzEnabled = FALSE
  WarmCache = {}
  Fragile = {helper}
  Rewired = {a}
  MaxEdits = 2
  None = None
INVARIANT
  OneRun
