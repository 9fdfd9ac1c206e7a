SPECIFICATION Spec
CONSTANTS
    Operators = {o1}
    NoOne = NoOne
    Missing = {3}
    Choices = {0, 5, 6, 10}
    Margin = 1
    MinHealthy = 3
    MinTrain = 1
    MinValidation = 1
    Lateness = 1
    MaxTime = 11
    MaxFaults = 2
    MaxModels = 1
    MaxCrashes = 0
INVARIANTS
    NegativesAreHealthy
CHECK_DEADLOCK FALSE
