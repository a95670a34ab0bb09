CONSTANTS
  p1 = p1
  p2 = p2
  Pumps = {p1, p2}
  MaxAttempt = 2
  MaxEvents = 2
  BufferSize = 1
  WireSize = 1
  MaxFaults = 1
  Continuations = TRUE
SPECIFICATION FairSpec
INVARIANTS CopyIsSound CompletionIsComplete
PROPERTIES ImplementsOrderedCopy PumpReturns
CHECK_DEADLOCK FALSE
