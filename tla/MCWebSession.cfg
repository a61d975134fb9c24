SPECIFICATION Spec
CONSTANTS
  t1 = t1
  t2 = t2
  Tab = {t1, t2}
  NumJobs = 3
  Requests = 2
  Launched = TRUE
  None = None
INVARIANTS
  TypeOK
  ConnectedWhileOpen
  OwnMessages
PROPERTIES
  ImplementsService
  JobsSettle
CHECK_DEADLOCK FALSE
