CONSTANTS
  n1 = n1
  a1 = a1
  a2 = a2
  a3 = a3
  bad = bad
  p1 = p1
  p2 = p2
  r1 = r1
  Names = {n1}
  Addrs = {a1, a2, a3}
  Inet6 = {a3}
  Failed = Failed
  Callers = {p1, p2}
  r2 = r2
  Resolvers = {r1, r2}
  NoNode = NoNode
  Nil = Nil
  Configs <- MCConfigs
  Lookups <- MCLookups
  RetryAttempts = 1
  Threshold = 2
SPECIFICATION FairSpec
CHECK_DEADLOCK FALSE
INVARIANTS NodesRight FailsForCause WrrFair
PROPERTY CallReturns
