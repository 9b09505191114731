CONSTANTS
  None = None
  k1 = k1
  k2 = k2
  Calls <- MCCalls
  Conns <- MCConns
  Scenarios <- MCScenarios
SPECIFICATION FairSpec
CHECK_DEADLOCK FALSE
INVARIANTS CallsFaithful ConnsSound
PROPERTY CallReturns
