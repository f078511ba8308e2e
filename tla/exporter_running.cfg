SPECIFICATION Spec
CONSTANTS
    Absent = Absent
    NoId = NoId
    Corrupt = Corrupt
    NoUid = NoUid
    c1 = c1
    c2 = c2
    u1 = u1
    ClusterOrder <- TwoClusters
    Uids = {u1}
    LegacyLedger <- OldRows
    InitialStores <- OnlyEmpty
    Writers = {w1}
    LatePuts = FALSE
    RetentionPeriod = 1
    MaxCycles = 2
    MaxFaults = 1
    QuietEnd = FALSE
    MaxClock = 2
CHECK_DEADLOCK FALSE
PROPERTY
    RunningRunsAreKept
