SPECIFICATION Spec
CONSTANTS
    Absent = Absent
    NoId = NoId
    Corrupt = Corrupt
    InitialStores <- ReadableStore
    Writers = {w1, w2}
    Readers = {r1}
    LatePuts = TRUE
    CheckFreshness = FALSE
    MaxCycles = 3
    MaxFaults = 2
    QuietEnd = FALSE
SYMMETRY ActorSymmetry
INVARIANTS
    PublicationInv
    SelectedIsSnapshot
PROPERTIES
    AtomicSpec
