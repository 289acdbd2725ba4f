SPECIFICATION Spec
CONSTANTS
  Processes = {p1, p2}
  MaxRuns = 2
  Deployed = {"erp-payments", "policy-docs", "fx-rates"}
  Jobs <- AllJobs
  Before <- EmptyOrReordered
  MaxGen = 2
  None = None
SYMMETRY TerminalSymmetry
CHECK_DEADLOCK FALSE
INVARIANTS
  TypeOK
  LeastPrivilege
  ScriptsDoAsTheyReport
  AnalystKeepsItsScope
