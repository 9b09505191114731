SPECIFICATION FairSpec
CONSTANTS
  Callers = {p1, p2}
  Wrappers = {w1, w2}
  Conns = {c1, c2}
  Cleaner = Cleaner
  NoProc = NoProc
  NoWrapper = NoWrapper
  NoConn = NoConn
  InitConnCnt = 0
  MaxIdleCnt = 1
  MaxConnCap = 1
  Envs <- Surroundings
INVARIANTS Exclusive ConnsAccounted
PROPERTIES NoEntryAfterTeardown SleepersWoken
