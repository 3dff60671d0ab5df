\* A master and two replicas, two writes and two failures or commands, a backlog of one write.
SPECIFICATION Spec
CONSTANTS
    n2 = n2
    n3 = n3
    Nodes = {n1, n2, n3}
    First = n1
    BacklogSize = 1
    MaxWrites = 2
    MaxEvents = 2
SYMMETRY Replicas
CHECK_DEADLOCK FALSE
INVARIANTS
    TypeOK
    Coherent
    InSync
    OneHistory
