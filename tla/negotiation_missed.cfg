SPECIFICATION FairSpec
CONSTANTS
  MaxFaults = 2
  MaxNegotiations = 5
  QueueSize = 1
PROPERTIES
  Recovers
CHECK_DEADLOCK FALSE
