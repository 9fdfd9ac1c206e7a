SPECIFICATION FairSpec
CONSTANTS
    RuleDetectors = {rule}
    KpiDetector = kpi
    ModelDetector = ml
    Findable = {{kpi}, {kpi, ml}}
    Cooldown = 2
    Episode = 1
    Kinds = {"event", "invalid"}
    MaxInput = 1
    MaxEnd = 3
    MaxWindows = 2
    MaxFound = 2
    MaxFaults = 1
INVARIANTS
    CommittedIsHandled
    MarkerMeansAnalysed
    FindingsAreWhole
    CooldownHolds
    CasesAreEpisodes
PROPERTIES
    RuleIncidentsAreEnriched
    NotificationsAreDelivered
CHECK_DEADLOCK FALSE
