SPECIFICATION Spec
CONSTANTS
  Backend = backend
  Browser = browser
  AckLimit = 1
  MaxSends = 2
  MaxCopies = 1
  MaxLives = 2
  Restarting = {browser}
  Stopping = {}
INVARIANT AckMeansDelivered
CHECK_DEADLOCK FALSE
