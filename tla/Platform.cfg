SPECIFICATION MCSpec
CONSTANTS
    MaxMoves = 1
    MaxCommits = 1
    MaxTroubles = 1
    MaxRequests = 2
    MaxSyncs = 1
    MaxChanges = 1
    MaxAsked = 4
    MaxCommands = 1
    MaxRestarts = 1
    PlanningRounds = 2
    ReviewRounds = 3
    WaitingRuns = {a}
    MaxAtOnce = 2
    MaxRefusals = 1
    OutputBuffer = 1
    EventBuffer = 1
    MaxLines = 3
    MaxOdd = 1
    NoticeBuffer = 1
    MaxNotices = 2
    MaxStray = 1
    Commands = {"interrupt"}
    Tests = {t1}
    Commanded = {t1}
    Notes = {"n1"}
    NumSteps = 1
    Commits = 2
    Told = {1}
    Tries = 2
    MaxRevisions = 5
INVARIANTS
    WorkspacesAreSound
    ProjectsAreSound
    SimulationIsSound
    WaitsAreSound
    AgentTurnsAreSound
CHECK_DEADLOCK FALSE
