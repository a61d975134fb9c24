SPECIFICATION Spec
CONSTANTS
  Magic <- MCMagic
  MaxFrame = 2
  Json <- MCJson
  Calls <- MCJson
  Data <- MCData
  Output <- MCOutput
  Following <- MCFollowing
  MaxItems = 4
INVARIANTS
  TypeOK
  
  ChannelExact
PROPERTIES
  ComesToRest
CHECK_DEADLOCK FALSE
