\* Two sockets and two rooms, a socket may be in both; cursors, and the fairness of the connection.
SPECIFICATION FairSpec
CONSTANTS
    Sockets = {s1, s2}
    Pids = {p1, p2}
    Cursors = {here}
    NoCursor = NoCursor
    NumColours = 1
    MaxInbox = 2
INVARIANTS
    TypeOK
    MembershipAgrees
    RosterConverges
PROPERTY LeaversDisappear
