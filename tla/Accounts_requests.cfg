\* Three requests, two e-mails, two passwords, two Google identities.
SPECIFICATION Spec
CONSTANTS
    e1 = e1
    e2 = e2
    g1 = g1
    g2 = g2
    Requests = {r1, r2, r3}
    Emails = {e1, e2}
    Passwords = {w1, w2}
    GoogleIds = {g1, g2}
    Tickets <- MCTickets
    None = None
INVARIANTS
    TypeOK
    OneAccount
    SignupOwnsAccount
    SessionsEarned
    LinkVouched
    LinkLostOnlyInRace
PROPERTY
    AccountsKept
