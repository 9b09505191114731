CONSTANTS
  k1 = k1
  k2 = k2
  w1 = w1
  w2 = w2
  g1 = g1
  c1 = c1
  c2 = c2
  Keys = {k1, k2}
  Writers = {w1, w2}
  Getters = {g1}
  Closers = {c1, c2}
  Values <- MCValues
  Unsized <- MCUnsized
  PairSize <- MCPairSize
  Capacity = 2
  Word = 64
  CleanMax = 1
  Scenarios <- MCScenarios
SPECIFICATION FairSpec
CHECK_DEADLOCK FALSE
INVARIANTS ListAgrees ValuesTrue
PROPERTIES LiveEntriesStay ExpiredLeave
