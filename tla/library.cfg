SPECIFICATION Spec
CONSTANTS
  c1 = c1
  c2 = c2
  c3 = c3
  Client <- MCClient
  Remote <- MCRemote
  Command <- MCCommand
  StartDb <- MCDb
  Today = "today"
  BatchSize = 2
  PoolSize = 2
  MaxCalls = 1
INVARIANTS
  TypeOK
  TotalsAgreeWithDays
  ReadsStayCurrent
  PagesAreWindows
PROPERTIES
  DeletedTracksAreOnRecord
  AnsweredIdsNameTheTracks
  ShownTracksAreOfOneDatabase
  RefinesService
CHECK_DEADLOCK FALSE
