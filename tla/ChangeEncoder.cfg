SPECIFICATION Spec
CONSTANTS
  BucketMs = 3
  GapMs = 2
  Deadband = 2
  Readings = {0, 1, 2}
  MaxDelay = 5
  MaxTime = 6
  MaxSteps = 1
INVARIANTS ErrorWithinDeadband RowsTileTime UnknownNotStored
CHECK_DEADLOCK FALSE
