SPECIFICATION Spec
CONSTANTS
    ClusterCount = 2
    PollInterval = 3
    CycleMax = 2
    TTL = 6
    Second = 2
    MaxTime = 13
CHECK_DEADLOCK FALSE
INVARIANT
    TtlBoundSuffices
