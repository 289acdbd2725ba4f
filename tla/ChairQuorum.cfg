SPECIFICATION FairSpec
CONSTANTS
  Runs = {r1}
  Voters = {0, 1, 2, 3}
  Attendees = {3}
  Stance <- MCStance
  EvenDigest <- MCEvenDigest
  Caps = {20000}
  Expenses <- MCExpenses
  FanOutCap = 2
  NoAmount = NoAmount
  NoRequest = NoRequest
  NoCap = NoCap
CHECK_DEADLOCK FALSE
INVARIANTS
  TypeOK
  WireFollowsTheVote
  EveryVoteCounted
  BlockedIsTrue
PROPERTIES
  GovernedByGateway
  ImplementsQuorumPayment
  EveryRunEnds
