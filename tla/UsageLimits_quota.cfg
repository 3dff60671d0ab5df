\* Two connections of a FREE user race at a limit of 2, over two changes of month.
SPECIFICATION Spec
CONSTANTS
    free = free
    f1 = f1
    f2 = f2
    Users = {free}
    Requests = {f1, f2}
    ClientOf <- MCClientOf
    PlanOf <- MCPlanOf
    FreeLimit = 2
    MaxMonth = 2
    MaxCreated = 5
SYMMETRY Connections
INVARIANTS
    TypeOK
    OvershootBounded
    DecksBounded
    FairCharge
    RefusalJustified
