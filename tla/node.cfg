SPECIFICATION FairSpec
CONSTANTS
  QueueCapacity = 2
  AckLimit = 1
  MaxFrames = 4
  MaxConnections = 3
INVARIANTS
  TypeOK
  NoTaskOutlivesItsConnection
  UsersEndFirst
PROPERTIES
  RefinesChannel
  QueueDrains
  StopEnds
CHECK_DEADLOCK FALSE
