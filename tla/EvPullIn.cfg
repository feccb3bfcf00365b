SPECIFICATION FairSpec
CONSTANTS
  Regimes = {"none", "absorb", "spend-down"}
  UserModes = {"off", "now"}
  UserLimits = {"disabled"}
  MaxWire = 3
  MaxUpsets = 1
INVARIANT LimitIsHeld
PROPERTIES OriginalsKept Converges HandsBack
