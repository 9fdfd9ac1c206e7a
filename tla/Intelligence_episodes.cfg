SPECIFICATION Spec
CONSTANTS
    RuleDetectors = {rule}
    KpiDetector = kpi
    ModelDetector = ml
    Findable = {{kpi}}
    Cooldown = 2
    Episode = 1
    Kinds = {}
    MaxInput = 1
    MaxEnd = 2
    MaxWindows = 1
    MaxFound = 1
    MaxFaults = 0
INVARIANTS
    EpisodesAreShared
CHECK_DEADLOCK FALSE
