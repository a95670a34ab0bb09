\* One agent at a time, Continues racing the turn and its corrections; or both agents, unclaimed.
CONSTANTS
  g1 = g1
  g2 = g2
  g3 = g3
  lead = lead
  reviewer = reviewer
  Procs = {g1, g2, g3}
  Agents = {lead}
  Continues = 2
  MaxCorrections = 2
SPECIFICATION MCSpec
INVARIANTS OneHolder ClaimHasOwner NeverFreeAndBlocked
PROPERTIES RefusedTurnGoesBack
CHECK_DEADLOCK FALSE
