CONSTANTS
  Orders = {w1, w2}
  AutoSets = {{w1, w2}, {w1}}
  Configs = {TRUE, FALSE}
  MaxUpdates = 1
  MaxTurns = 1
  MaxPauses = 1
  MaxCrashes = 1
  MaxBlocks = 1
  MaxMerges = 1
  MaxTroubles = 2
SPECIFICATION Spec
INVARIANT LineIsSound
PROPERTIES TheLineMoves FirstInLineMerges
CHECK_DEADLOCK FALSE
