SPECIFICATION Spec
CONSTANTS
  a = a
  b = b
  helper = helper
  asc = asc
  dotHelper = dotHelper
  Path = {a, b, helper, asc, dotHelper}
  SpecPath = {a, b}
  File = {a, b, helper, asc}
  Resolve <- MCResolve
  Uninteresting = {asc}
  Mode = {none, debug}
INVARIANTS
  TypeOK
  IndexExact
  AffectedExact
PROPERTIES
  ImplementsRelation
