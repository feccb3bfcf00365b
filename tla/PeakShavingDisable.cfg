SPECIFICATION FairSpec
CONSTANTS
  Values = {1, 2}
  UserValues = {1}
  Commands = {2}
  Configs = {"off", "export"}
  Edited = {}
  BoundSets <- Rebound
  Readbacks <- ChargeMayMiss
  LostCommits = FALSE
  MaxRestarts = 1
INVARIANTS LatestConfigWins
PROPERTY DisableHandsBack
