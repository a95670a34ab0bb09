SPECIFICATION FairSpec
CONSTANTS
  PauseKeys = {"p1"}
  ResumeKeys = {"r1"}
  Guidance = {"g1"}
  Replies = {"c1"}
  Autonomous = TRUE
  RoundLimit = 2
  MaxMessages = 3
  MaxReturns = 1
  MaxFaults = 1
INVARIANTS LedgerIsSound OneAgentAtWork ImplementedPlanWasApproved
PROPERTIES PauseIsAGate InterventionsAreAnswered
CHECK_DEADLOCK FALSE
