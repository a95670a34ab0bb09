SPECIFICATION FairSpec
CONSTANTS
    a1 = a1
    a2 = a2
    k1 = k1
    k2 = k2
    p1 = p1
    p2 = p2
    Attempt = {a1}
    Key = {k1}
    ProviderID = {p1}
    NoID = NoID
    MaxEvents = 3
    MaxCrashes = 1
    MaxCorrections = 1
    ClientKinds = {"message", "pause", "continue", "stop", "force_stop", "supersede"}
    EmittedEvents = {"pause_acknowledged"}
    SessionOf <- MCSessionOf
INVARIANTS
    AnswersAreHonest
PROPERTIES
    ImplementsJournal
    ForceStopIsAnswered
CHECK_DEADLOCK FALSE
