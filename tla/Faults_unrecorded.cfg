SPECIFICATION Spec
CONSTANTS
    f1 = f1
    f2 = f2
    f3 = f3
    Requests = {r1}
    Flags = {f1, f2}
    Keys = {f1, f2, f3}
    VariantsOf <- MCVariantsOf
    Requested = {"on"}
    NoOne = NoOne
    MaxWindows = 1
    MaxUiWrites = 0
    MaxFailures = 1
INVARIANTS
    ToggleIsRecorded
