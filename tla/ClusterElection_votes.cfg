\* Three masters, two replicas of the failing one, one epoch of elections, two crashes.
SPECIFICATION Spec
CONSTANTS
    old = old
    m1 = m1
    m2 = m2
    r1 = r1
    r2 = r2
    Masters = {old, m1, m2}
    Old = old
    Replicas = {r1, r2}
    Name <- MCName
    Forces = {FALSE}
    Busy = {FALSE, TRUE}
    MaxEpoch = 2
    MaxCrashes = 2
SYMMETRY Symmetry
CHECK_DEADLOCK FALSE
INVARIANTS
    TypeOK
    MajorityElects
    OneVotePerEpoch
    ClaimsWon
