CONSTANTS
  r1 = r1
  r2 = r2
  r3 = r3
  None = None
  Reqs = {r1, r2, r3}
  Ctxs = {1, 2, 3}
  ParamSegs = {":id", ":n"}
  RegexSegs = {":k(num)"}
  ParamName <- MCParamName
  Accepts <- MCAccepts
  Burst = 1
  TTL = 1
  MaxNow = 2
  Scenarios <- MCScenarios
SPECIFICATION FairSpec
CHECK_DEADLOCK FALSE
INVARIANTS RoutesRight ResponseRight BurstBounded Drained
PROPERTY WebEnds
