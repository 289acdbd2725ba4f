SPECIFICATION Spec
CONSTANTS
  Tools = {"a2a-payments"}
  WireNamed = {"a2a-payments"}
  Amounts <- TierAmounts
  NoAmount = NoAmount
  NoRequest = NoRequest
  Calls = {c1}
CHECK_DEADLOCK FALSE
INVARIANT
  MeshIsGoverned
