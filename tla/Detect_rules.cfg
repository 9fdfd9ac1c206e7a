SPECIFICATION Spec
CONSTANTS
    c1 = c1
    elsewhere = elsewhere
    Containers = {c1}
    Flags = {"f1"}
    Aims <- MCAims
    NoDomain = "none"
    Anything = Anything
    Levels <- MCLevels
    Sustained = 2
    Gap = 1
    Fresh = 1
    Cooldown = 2
    Recent = 2
    HistoryLimit = 2
    QueueLimit = 1
    MaxTime = 3
    MaxDelay = 1
    MaxFaults = 1
INVARIANTS
    
    OncePerCooldown
    FindingsAreReported
    LabelsAreTrue
CHECK_DEADLOCK FALSE
