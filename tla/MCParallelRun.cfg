SPECIFICATION Spec
CONSTANTS
  MaxFiles = 4
  MaxModes = 2
  PoolWidth = 3
  RunJobs = 1
  Commands <- MCCommands
INVARIANTS
  TypeOK
  ResultsHonest
  EndsQuietly
PROPERTIES
  RunEnds
CHECK_DEADLOCK FALSE
