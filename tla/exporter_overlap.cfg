SPECIFICATION Spec
CONSTANTS
    Absent = Absent
    NoId = NoId
    Corrupt = Corrupt
    NoUid = NoUid
    c1 = c1
    c2 = c2
    u1 = u1
    ClusterOrder <- TwoClusters
    Uids = {u1}
    LegacyLedger <- OldRows
    InitialStores <- UsedStore
    Writers = {w1, w2}
    LatePuts = TRUE
    RetentionPeriod = 1
    MaxCycles = 2
    MaxFaults = 1
    QuietEnd = FALSE
    MaxClock = 1
ACTION_CONSTRAINT FirstClusterMoves
SYMMETRY WriterSymmetry
CHECK_DEADLOCK FALSE
INVARIANTS
    ExporterInv
