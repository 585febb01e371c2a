SPECIFICATION Spec
CONSTANTS
  Downstreams = 2
  QueueCap = 2
  MaxMessages = 4
INVARIANTS
  
  StopDrains
  DropsOldest
PROPERTIES
  DispatchReturns
  OthersServed
  DestructorReturns
CHECK_DEADLOCK FALSE
