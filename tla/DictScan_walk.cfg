\* Five keys in tables of two, four and eight buckets.
SPECIFICATION FairSpec
CONSTANTS
    Keys = {0, 1, 3, 5, 6}
    Hash <- MCHash
    W = 3
    InitialExp = 1
    MinFill = 2
    ForceRatio = 2
    EmptyVisits = 2
INVARIANTS
    TypeOK
    AllFound
    FullWalk
PROPERTY
    WalkEnds
