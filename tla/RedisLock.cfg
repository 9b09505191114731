CONSTANTS
  h1 = h1
  h2 = h2
  Handles = {h1, h2}
  None = None
  MaxCnt = 1
  Uses <- MCUses
SPECIFICATION FairSpec
CHECK_DEADLOCK FALSE
INVARIANTS Exclusive UnlockTruth
PROPERTIES LeaseSpec LockCallsEnd
