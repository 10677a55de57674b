SPECIFICATION FairSpec
CONSTANTS
  MaxFaults = 2
  MaxNegotiations = 5
  QueueSize = 1
INVARIANTS
  TypeOK
  NegotiationHasItsOffer
  CandidatesFollowTheirAnswer
PROPERTIES
  RefinesOfferAnswer
  OnlyRecentTimersHideTrouble
  RecoversIfAttended
  CancelEnds
CHECK_DEADLOCK FALSE
