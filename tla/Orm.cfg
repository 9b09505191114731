CONSTANTS
  c1 = c1
  c2 = c2
  Clients = {c1, c2}
  Ids = {1, 2, 3}
  Null = Null
  NoField = NoField
  Inc = Inc
  Now = Now
  Scenarios <- MCScenarios
SPECIFICATION Spec
CHECK_DEADLOCK FALSE
INVARIANTS StatementsRight TxAtomic ChunksRight
PROPERTY RowsSafe
