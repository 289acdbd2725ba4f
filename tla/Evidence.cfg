SPECIFICATION Spec
CONSTANTS
  Runs = {r1, r2}
  OtherRequests <- ClientRequests
  Shown = {"policy_approved", "policy_ceiling", "pii", "a2a"}
  Probes <- BandProbes
  MaxOthers = 1
  LogTail = 3
  AsFloat = AsFloat
  NoAmount = NoAmount
  NoRequest = NoRequest
  None = None
SYMMETRY RunSymmetry
CHECK_DEADLOCK FALSE
INVARIANTS
  TypeOK
  DecisionFitsTheRequest
  CardsAreTrue
