CONSTANTS
  p1 = p1
  p2 = p2
  s1 = s1
  s2 = s2
  Callers = {p1, p2}
  Streams = {s1, s2}
  NoProc = NoProc
  NoStream = NoStream
  MaxOpen = 1
  HighLoad = 1
  MaxLost = 2
  Env = {"cancel", "ping", "close"}
SPECIFICATION FairSpec
CHECK_DEADLOCK FALSE
INVARIANTS SlotsKept
PROPERTY GetReturns
