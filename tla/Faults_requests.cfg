SPECIFICATION FairSpec
CONSTANTS
    f1 = f1
    f2 = f2
    f3 = f3
    Requests = {r1, r2}
    Flags = {f1, f2}
    Keys = {f1, f2}
    VariantsOf <- MCVariantsOf
    Requested = {"on", "10x"}
    NoOne = NoOne
    MaxWindows = 2
    MaxUiWrites = 1
    MaxFailures = 1
INVARIANTS
    WindowEndsOnce
PROPERTIES
    OneFlagPerWrite
    RequestsAreAnswered
