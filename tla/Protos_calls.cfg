SPECIFICATION Spec
CONSTANTS
    Undefined = Undefined
    Null = Null
    Refused = Refused
    Safe = 2
    MaxEdits = 2
INVARIANTS
    ArrivesAsSent
    UnsafeIsRefused
