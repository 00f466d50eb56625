SPECIFICATION Spec
CONSTANTS
  MaxCalls = 3
  MaxRequests = 2
  PoolSize = 2
INVARIANTS
  RepliesNest
PROPERTIES
  CallsReturn
  EofReleasesHandlers
CHECK_DEADLOCK FALSE
