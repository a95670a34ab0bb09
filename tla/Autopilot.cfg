SPECIFICATION Spec
CONSTANTS
    None = None
    i1 = i1
    u1 = u1
    w1 = w1
    w2 = w2
    w3 = w3
    Order = {u1, w1, w2, w3}
    Item = {i1}
    Cards = 2
    Proposal <- MCProposal
    Cap = 1
    MaxContinues = 1
    Builds = FALSE
    First = {u1, w1}
    Ours = {w1}
    MaxActs = 1
    MaxFailures = 1
    MaxCrashes = 1
INVARIANTS AutopilotIsSound NothingIsLeftBehind
PROPERTIES EarlyWaits
CHECK_DEADLOCK FALSE
