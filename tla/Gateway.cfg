SPECIFICATION FairSpec
CONSTANTS
  Tools = {"erp-payments-wire", "expense-db-get"}
  WireNamed = {"erp-payments-wire"}
  Amounts <- TierAmounts
  NoAmount = NoAmount
  NoRequest = NoRequest
  Calls = {c1, c2}
CHECK_DEADLOCK FALSE
INVARIANTS
  TypeOK
  TwoTierHolds
  AnswersAreTrue
PROPERTIES
  FailClosed
  EveryCallSettles
