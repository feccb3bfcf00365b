SPECIFICATION FairBufferSpec
CONSTANTS
  MaxPending = 3
  MaxEnqueue = 2
  MaxRows = 8
INVARIANT NothingLost
PROPERTIES ImplementsLedger EventuallySettled
CHECK_DEADLOCK FALSE
