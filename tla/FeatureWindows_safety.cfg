SPECIFICATION Spec
CONSTANTS
    Services = {ad, email}
    Minute = 2
    Lateness = 1
    Horizon = 5
    MaxEvents = 2
    MaxTime = 7
INVARIANTS
    EvidenceIsTimely
    WindowsAreComplete
PROPERTIES
    WindowsAreSealed
CHECK_DEADLOCK FALSE
