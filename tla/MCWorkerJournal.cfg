SPECIFICATION Spec
CONSTANTS
    a1 = a1
    a2 = a2
    p1 = p1
    p2 = p2
    Attempt = {a1, a2}
    Key = {k1}
    Request = {"q1"}
    ProviderID = {p1, p2}
    NoID = NoID
    EventType = {"activity", "attempt_terminal"}
    MaxEvents = 2
    SessionOf <- MCSessionOf
INVARIANTS
    OneNonterminalPerSession
    HistoryContiguous
    RowsValid
PROPERTIES
    TerminalIsFinal
SYMMETRY Symmetric
