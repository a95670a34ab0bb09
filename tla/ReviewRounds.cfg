SPECIFICATION FairSpec
CONSTANTS
  RoundLimit = 2
  MaxFixes = 1
  MaxTrouble = 2
  MaxContinues = 1
  MaxUpdates = 1
INVARIANTS RoundsAreSound ApprovedWasReviewed
PROPERTIES RoundsEnd
CHECK_DEADLOCK FALSE
