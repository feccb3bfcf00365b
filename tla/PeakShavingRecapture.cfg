SPECIFICATION Spec
CONSTANTS
  Values = {1, 2}
  UserValues = {1}
  Commands = {2}
  Configs = {"export", "friendly"}
  Edited = {"sell"}
  BoundSets <- FeedBound
  Readbacks <- AllRead
  LostCommits = FALSE
  MaxRestarts = 1
INVARIANT CapturesUserValue
