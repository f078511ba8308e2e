SPECIFICATION FairSpec
CONSTANTS
    Absent = Absent
    NoId = NoId
    Corrupt = Corrupt
    InitialStores <- AnyStore
    Writers = {w1}
    Readers = {r1}
    LatePuts = FALSE
    CheckFreshness = TRUE
    MaxCycles = 4
    MaxFaults = 2
    QuietEnd = TRUE
INVARIANTS
    OneWriterInv
    DataNeverBehindMarker
    HeartbeatIsCommitted
    ReportIsOffByAtMostOne
PROPERTIES
    MarkerCommits
    ReadersNeverGoBack
    UndecodableLedgerIsKept
    TornIsRepaired
    ReadersCatchUp
