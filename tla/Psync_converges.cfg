\* A master and two replicas, one write and two failures or commands, a backlog of one write.
SPECIFICATION FairSpec
CONSTANTS
    n2 = n2
    n3 = n3
    Nodes = {n1, n2, n3}
    First = n1
    BacklogSize = 1
    MaxWrites = 1
    MaxEvents = 2
CHECK_DEADLOCK FALSE
PROPERTY
    Converges
