CONSTANTS
  Orders = {w1, w2}
  AutoSets = {{w1, w2}}
  Configs = {TRUE}
  MaxUpdates = 2
  MaxTurns = 2
  MaxPauses = 0
  MaxCrashes = 1
  MaxBlocks = 0
  MaxMerges = 0
  MaxTroubles = 1
SPECIFICATION Spec
PROPERTY NobodyHoldsTheLine
CHECK_DEADLOCK FALSE
