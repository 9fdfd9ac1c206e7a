SPECIFICATION Spec
CONSTANTS
    None = None
    All = All
    MaxCommands = 4
    Roots = {"home", "workflows"}
    Tree <- MCTree
    Disk <- MCDisk
    Resolve <- MCResolve
    MaxMoves = 3
    Found <- MCFound
    Running <- MCRunning
    LastStage = 5
    MaxRounds = 2
    MaxApprovals = 2
    Services = {"ad", "cart"}
    Periods = {1, 24}
    Findings = {2, 3}
    ServiceOf <- MCServiceOf
    Age <- MCAge
    FirstFresh = "ad"
    MaxLoads = 3
    MaxVerdicts = 1
    Views <- MCViews
    Graphs <- MCGraphs
    MaxRefreshes = 2
    MaxSelections = 2
    Keys = {"right", "wrong"}
    ServerKey = "right"
    MaxKeys = 2
    MaxChecks = 6
    Watched = {"terminal", "filesystem", "wizard", "reports", "processes", "security"}
    MaxOpens = 2
INVARIANTS
    TranscriptIsWhole
    WindowAgrees
    WizardGoesOn
    ShownIsOfTheSelection
    ColumnsFollowCalls
CHECK_DEADLOCK FALSE
