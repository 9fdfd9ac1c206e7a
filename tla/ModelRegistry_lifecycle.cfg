SPECIFICATION Spec
CONSTANTS
    Operators = {o1, o2}
    NoOne = NoOne
    Missing = {3}
    Choices = {0, 5, 6, 10}
    Margin = 1
    MinHealthy = 3
    MinTrain = 1
    MinValidation = 1
    Lateness = 1
    MaxTime = 11
    MaxFaults = 1
    MaxModels = 2
    MaxCrashes = 1
INVARIANTS
    PromotionsNeverCollide
    TrainingIsClean
    HoldoutsAreUnseen
    TestIsLabelled
PROPERTIES
    ServiceStaysCovered
CHECK_DEADLOCK FALSE
