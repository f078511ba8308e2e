SPECIFICATION Spec
CONSTANTS
    None = None
    Odd = Odd
    Falsy = Falsy
    Empty = Empty
    Blank = Blank
    Second = 2
    Int64Max = 5
    Rules <- MCRules
    Normalized <- MCNormalized
    Buckets = {1, 2}
    FloatMax = 400
    Environments <- MCEnvironments
    ClusterNames <- MCClusterNames
    Objects <- MCObjects
    Metadata <- MCMetadata
    NodeMaps <- MCNodeMaps
    Messages <- MCMessages
    Finishes = {2, 3}
    Counters <- MCCounters
    EarlierRows <- MCEarlierRows
    ForeignMarkers <- MCForeignMarkers
    Times = {0, 2}
    Day = 1
    Earliest <- MCEarliest
    MaxCycles = 3
ACTION_CONSTRAINTS
    WorldMovesWhenSeen
    RareComesAlone
VIEW WithoutOutcome
INVARIANTS
    PipelineInv
    LedgerIsHistory
    MeasuresAgree
    InventoryIsAccounted
    AcceptedMarkerIsUsable
    SidecarIsNeverRefused
CHECK_DEADLOCK FALSE
