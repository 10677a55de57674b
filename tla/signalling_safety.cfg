SPECIFICATION Spec
CONSTANTS
  Conn = {c1, c2, c3}
  Tag = {t1, t2}
  NoConn = NoConn
  NoTag = NoTag
  SendBufferLimit = 1
  MessagesPerConnection = 1
  MessagesPerSecond = 1
  Stalling = {}
SYMMETRY Symmetry
INVARIANTS
  TypeOK
  RoomsHoldLiveMembers
  PutStaysInsideTheRoom
PROPERTIES
  MembershipEndsWithTeardown
  RefinesRooms
CHECK_DEADLOCK FALSE
