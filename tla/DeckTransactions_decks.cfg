\* Three requests of the owner, one of them without slides, and one of a stranger, on one presentation, against the store of whole decks and under the fairness of the event loop.
SPECIFICATION FairSpec
CONSTANTS
    owner = owner
    stranger = stranger
    r1 = r1
    r2 = r2
    x = x
    z = z
    Pids = {p1}
    Requests = {r1, r2, x, z}
    NoRequest = NoRequest
    ClientOf <- MCClientOf
    OwnerOf <- MCOwnerOf
    DeckSize <- MCDeckSize
INVARIANTS
    TypeOK
    WholeDecks
    NoOrphans
    ReadsForward
PROPERTIES
    ImplementsStore
    EveryRequestEnds
