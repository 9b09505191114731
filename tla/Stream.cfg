CONSTANTS
  p1 = p1
  p2 = p2
  p3 = p3
  Calls = {p1, p2, p3}
  SharedId = SharedId
  Reader = Reader
  SrvPing = SrvPing
  NoCall = NoCall
  MaxFlight = 1
  Scenarios <- MCScenarios
SPECIFICATION FairSpec
CHECK_DEADLOCK FALSE
INVARIANTS AnswersDelivered FramesWhole
PROPERTY ClosedReleasesCalls
