SPECIFICATION FairSpec
CONSTANTS
  Conn = {c1, c2}
  Tag = {t1, t2}
  NoConn = NoConn
  NoTag = NoTag
  SendBufferLimit = 1
  MessagesPerConnection = 2
  MessagesPerSecond = 1
  Stalling = {c2}
  PROPERTY StaleConnectionIsRemoved
CHECK_DEADLOCK FALSE
