SPECIFICATION CacheSpec
CONSTANTS
  a = a
  helper = helper
  good = good
  bad = bad
  Spec = {a}
  Lib = {helper}
  Imports <- MCImports
  Content = {good, bad}
  Broken = {}
  Failing = {bad}
  Matching = good
  Sessions <- AllKinds
  MaxEdits = 2
  BuildError = BuildError
  None = None
INVARIANTS
  TypeOK
  WasmCurrent
  Truthful
  DiskConsistent
