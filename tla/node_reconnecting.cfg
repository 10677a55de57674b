SPECIFICATION Spec
CONSTANTS
  QueueCapacity = 2
  AckLimit = 1
  MaxFrames = 5
  MaxConnections = 2
INVARIANT
  NobodyWaitsForReconnection
CHECK_DEADLOCK FALSE
