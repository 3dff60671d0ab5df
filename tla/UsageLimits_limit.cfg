\* Two connections of a FREE user within one month.
SPECIFICATION Spec
CONSTANTS
    free = free
    f1 = f1
    f2 = f2
    Users = {free}
    Requests = {f1, f2}
    ClientOf <- MCClientOf
    PlanOf <- MCPlanOf
    FreeLimit = 2
    MaxMonth = 0
    MaxCreated = 4
INVARIANT MonthlyLimit
