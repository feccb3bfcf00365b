SPECIFICATION Spec
CONSTANTS
  Values = {1, 2}
  UserValues = {1}
  Commands = {2}
  Configs = {"export", "friendly"}
  Edited = {"sell"}
  BoundSets <- FeedOrGridBound
  Readbacks <- GridAMayMiss
  LostCommits = FALSE
  MaxRestarts = 1
INVARIANT SnapshotHeld
PROPERTIES
  RestartNeverRecaptures
  GridNeverHalfClaimed
CONSTRAINT SteeringBounds
ACTION_CONSTRAINT SamePlant
