SPECIFICATION Spec
CONSTANTS
  t1 = t1
  t2 = t2
  Tab = {t1}
  NumJobs = 1
  Requests = 0
  Launched = TRUE
  None = None
INVARIANT DisconnectFails
CHECK_DEADLOCK FALSE
