SPECIFICATION Spec
CONSTANTS
  Backend = backend
  Browser = browser
  AckLimit = 1
  MaxSends = 1
  MaxCopies = 1
  MaxLives = 2
  Restarting = {browser}
  Stopping = {backend, browser}
INVARIANTS
  TypeOK
  ConfirmedWasDelivered
CHECK_DEADLOCK FALSE
