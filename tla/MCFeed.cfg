SPECIFICATION Spec
CONSTANTS
  Absent = Absent
  Malformed = Malformed
  Scalar = Scalar
  Configs <- MCConfigs
  Downstreams = 1
  QueueCap = 1
  MaxMessages = 4
  InboxCap = 1
  BatchMax = 2
  ProducerCap = 1
INVARIANTS TypeOK   StartsAsConfigured
PROPERTIES  EnqueueReturns ShutdownEnds
CHECK_DEADLOCK FALSE
