SPECIFICATION FairSpec
CONSTANTS
  Cards = {c1}
  Voters = {1, 2, 3, 4}
  MaxWorkers = 2
  NoAmount = NoAmount
  NoRequest = NoRequest
CHECK_DEADLOCK FALSE
INVARIANTS
  TypeOK
  NoStragglers
  CountedAsGiven
  BlockedHeadlineIsTrue
PROPERTIES
  ImplementsQuorumPayment
  EveryCardIsShown
