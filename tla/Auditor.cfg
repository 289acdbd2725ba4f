SPECIFICATION Spec
CONSTANTS
  Audits = {a1, a2}
  Amounts = {1700, 1000000, 10000000}
  Payees = {{}, {"policy", "agent error"}}
  Asked <- MCAsked
  NoAmount = NoAmount
  NoPayee = NoPayee
  NoRequest = NoRequest
SYMMETRY AuditSymmetry
CHECK_DEADLOCK FALSE
INVARIANTS
  TypeOK
  ExecutedIsTrue
  PaidAsTheTextAllows
