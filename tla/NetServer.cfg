CONSTANTS
  c1 = c1
  c2 = c2
  r1 = r1
  r2 = r2
  Conns = {c1, c2}
  Reqs = {r1, r2}
  OneWay = {r2}
  Ping = Ping
  NoConn = NoConn
  NoFrame = NoFrame
  MaxConns = 1
  MaxInbox = 1
  Envs <- Surroundings
SPECIFICATION FairSpec
CHECK_DEADLOCK FALSE
INVARIANTS InFlightServed ShutdownQuiet
PROPERTY ShutdownReturns
