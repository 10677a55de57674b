SPECIFICATION Spec
CONSTANTS
  c1 = c1
  c2 = c2
  c3 = c3
  Client <- MCClient
  Remote <- MCRemote
  Command <- TwoPages
  StartDb <- MCDb
  Today = "today"
  BatchSize = 2
  PoolSize = 2
  MaxCalls = 1
PROPERTY PagesStartAtTheCursor
CHECK_DEADLOCK FALSE
