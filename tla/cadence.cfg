SPECIFICATION Spec
CONSTANTS
    ClusterCount = 2
    PollInterval = 3
    CycleMax = 2
    TTL = 8
    Second = 2
    MaxTime = 13
CHECK_DEADLOCK FALSE
INVARIANTS
    CadenceInv
    TwoCyclesSuffice
    HealthyAgeIsBounded
    FreshMeansFewFailures
    OkMeansAtMostOneFailure
    HealthyIsOk
