SPECIFICATION Spec
CONSTANTS
    c1 = c1
    c2 = c2
    Events <- MCEvents
    Consumers <- MCConsumers
    LeaseMs = 2
    RetryMs = 1
    MaxAttempts = 2
    MaxBatch = 2
    MaxTime = 4
    MaxClaims = 3
SYMMETRY Symmetric
INVARIANTS
    TypeOK
    OneLiveLease
    NothingLost
    FailuresAreBounded
PROPERTIES
    StaleReportsAreRejected
