SPECIFICATION FairSpec
CONSTANTS
    Requests = {q1}
    StaleAfter = 2
    MaxTime = 3
    MaxCycles = 2
CHECK_DEADLOCK FALSE
INVARIANTS
    HealthInv
    ReplyWasTrue
    AtMostOneCycleAfterStop
PROPERTY
    StopIsHonoured
