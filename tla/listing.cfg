SPECIFICATION FairSpec
CONSTANTS
    o1 = o1
    o2 = o2
    o3 = o3
    Names <- ThreeNames
    Malformed <- OneMalformed
    Fresh = Fresh
CHECK_DEADLOCK FALSE
INVARIANTS
    ListingInv
    CompleteIsSnapshot
    FailedIsNothing
PROPERTY
    ListingEnds
