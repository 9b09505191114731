CONSTANTS
  None = None
  k1 = k1
  k2 = k2
  Calls <- MCCalls
  Conns <- MCConns
  Scenarios <- LateScenarios
SPECIFICATION Spec
CHECK_DEADLOCK FALSE
INVARIANTS
  LateAnswerIsDropped
