\* The same cluster with two epochs of elections, no crash, and every vote saved before its ACK leaves.
SPECIFICATION Spec
CONSTANTS
    old = old
    m1 = m1
    m2 = m2
    r1 = r1
    r2 = r2
    Masters = {old, m1, m2}
    Old = old
    Replicas = {r1, r2}
    Name <- MCName
    Forces = {FALSE}
    Busy = {FALSE}
    MaxEpoch = 3
    MaxCrashes = 0
SYMMETRY Symmetry
CHECK_DEADLOCK FALSE
INVARIANTS
    OneWinnerPerEpoch
