SPECIFICATION Spec
CONSTANTS
    a1 = a1
    a2 = a2
    k1 = k1
    k2 = k2
    p1 = p1
    p2 = p2
    Attempt = {a1}
    Key = {k1, k2}
    ProviderID = {p1, p2}
    NoID = NoID
    MaxEvents = 3
    MaxCrashes = 1
    MaxCorrections = 0
    ClientKinds = {"pause", "stop"}
    EmittedEvents = {"recovery_assessment", "continued", "pause_acknowledged"}
    SessionOf <- MCSessionOf
SYMMETRY Symmetric
INVARIANTS
    ServiceIsSound
PROPERTIES
    StopIsIrrevocable
    FencedHistory
CHECK_DEADLOCK FALSE
