CONSTANTS
  None = None
  s1 = s1
  s2 = s2
  s3 = s3
  p1 = p1
  p2 = p2
  Servers <- MCServers
  Callers <- MCCallers
  MaxUint = 15
  Scenarios <- MCScenarios
SPECIFICATION FairSpec
CHECK_DEADLOCK FALSE
INVARIANTS RegisteredServes PickersEven
PROPERTIES ChangesFlow PickEnds
