SPECIFICATION FairSpec
CONSTANTS
    Limit = 2
    MaxOrders = 2
    MaxSamples = 1
    MaxFaults = 2
INVARIANTS
    CommittedPersisted
    EventsMatchOutbox
PROPERTIES
    HealthIsTruthful
    ImplementsDelivery
    EveryRowDelivered
    EveryOrderPersisted
