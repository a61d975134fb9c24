SPECIFICATION Spec
CONSTANTS
  t1 = t1
  t2 = t2
  t3 = t3
  t4 = t4
  release = release
  Task = {t1, t2, t3, t4}
  Signature = {release}
  SignatureOf <- MCSignatureOf
  Size = 2
  MaxDeaths = 2
  NoTask = NoTask
INVARIANTS
  TypeOK
  OnePlace
  WorkConserving
  OneBuildPerChild
  NoFalseSuccess
  CloseSettles
PROPERTIES
  NoOvertaking
  ImplementsService
\* The CLI stops when the pool is closed and every child has exited, or when it
\* crashed.
CHECK_DEADLOCK FALSE
