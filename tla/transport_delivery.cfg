SPECIFICATION FairSpec
CONSTANTS
  Backend = backend
  Browser = browser
  AckLimit = 1
  MaxSends = 2
  MaxCopies = 1
  MaxLives = 1
  Restarting = {}
  Stopping = {}
INVARIANT ConfirmedWasDelivered
PROPERTIES
  RefinesDelivery
  EverySendEnds
CHECK_DEADLOCK FALSE
