----------------------------- MODULE UsageLimits -----------------------------
(***************************************************************************)
(* The monthly quota of Slideo.ai: middleware checkLimits followed by the  *)
(* handlers createPresentation and generateSingleSlide.                    *)
(*                                                                         *)
(* A handler runs on Node's event loop and gives up control at every       *)
(* await, so one action is one awaited database call together with the     *)
(* synchronous code up to the next one.  Between two actions of a request  *)
(* any other request of the same user may run.                             *)
(***************************************************************************)
EXTENDS Naturals, FiniteSets

CONSTANTS
    Users,       \* rows of the User table (no code deletes a user)
    Requests,    \* connections, each carrying at most one request at a time
    ClientOf,    \* the user whose token the connection presents
    PlanOf,      \* column User.plan (no code changes it)
    FreeLimit,   \* presentations per month on the FREE plan: 5 in the code
    MaxMonth,    \* bound: the clock stops here
    MaxCreated   \* bound: no creation request arrives past this many rows

Plans == {"FREE", "PRO", "TEAM", "ENTERPRISE"}

ASSUME UsersAssumption == ClientOf \in [Requests -> Users] /\ PlanOf \in [Users -> Plans]
ASSUME RequestsAssumption == IsFiniteSet(Requests)
ASSUME LimitAssumption == FreeLimit \in Nat \ {0}
ASSUME BoundsAssumption == MaxMonth \in Nat /\ MaxCreated \in Nat

VARIABLES
    month,       \* wall clock: the (year, month) pair as one number
    usage,       \* column User.presentationsCreatedThisMonth
    lastReset,   \* month of column User.lastUsageReset
    created,     \* Presentation rows committed by createPresentation
    pc,          \* the await at which a request is suspended
    kind,        \* which of the two routes it is on
    row,         \* checkLimits' local copy `user` of the User row
    now,         \* checkLimits' local `now`
    before,      \* history: how many decks a user had when the counter was last reset
    lost         \* history: decks saved since then whose increment was never made

dbVars == <<usage, lastReset, created>>
localVars == <<kind, row, now>>
history == <<before, lost>>
vars == <<month, usage, lastReset, created, pc, kind, row, now, before, lost>>

Presentations == [id : Nat, owner : Users, month : Nat]
Locations == {"idle", "checking", "decide", "resetting", "admitted",
              "generated", "saved", "refused"}
Answered == {"idle", "refused"}

Slots(u) == {r \in Requests : ClientOf[r] = u}

\* Connections whose deck is saved and not yet counted.
Saved(u) == {r \in Slots(u) : pc[r] = "saved"}

Decks(u) == {p \in created : p.owner = u}

TypeOK ==
    /\ month \in Nat
    /\ usage \in [Users -> Nat]
    /\ lastReset \in [Users -> Nat]
    /\ created \subseteq Presentations /\ IsFiniteSet(created)
    /\ pc \in [Requests -> Locations]
    /\ kind \in [Requests -> {"create", "slide"}]
    /\ row \in [Requests -> [usage : Nat, lastReset : Nat]]
    /\ now \in [Requests -> Nat]
    /\ before \in [Users -> Nat] /\ lost \in [Users -> Nat]

Init ==
    /\ month = 0
    /\ usage = [u \in Users |-> 0]
    /\ lastReset = [u \in Users |-> 0]
    /\ created = {}
    /\ pc = [r \in Requests |-> "idle"]
    /\ kind = [r \in Requests |-> "slide"]
    /\ row = [r \in Requests |-> [usage |-> 0, lastReset |-> 0]]
    /\ now = [r \in Requests |-> 0]
    /\ before = [u \in Users |-> 0] /\ lost = [u \in Users |-> 0]

Goto(r, loc) == pc' = [pc EXCEPT ![r] = loc]

-----------------------------------------------------------------------------
(* Middleware checkLimits                                                  *)

\* A request with a valid token reaches checkLimits.
Arrive(r, k) ==
    /\ pc[r] \in Answered
    /\ k = "create" =>
         Cardinality(created)
           + Cardinality({q \in Requests : pc[q] \notin Answered /\ kind[q] = "create"})
           < MaxCreated
    /\ Goto(r, "checking")
    /\ kind' = [kind EXCEPT ![r] = k]
    /\ UNCHANGED <<month, dbVars, row, now, history>>

\* await prisma.user.findUnique: the row is copied into the local `user`.
ReadUser(r) ==
    /\ pc[r] = "checking"
    /\ row' = [row EXCEPT ![r] = [usage |-> usage[ClientOf[r]],
                                  lastReset |-> lastReset[ClientOf[r]]]]
    /\ Goto(r, "decide")
    /\ UNCHANGED <<month, dbVars, kind, now, history>>

\* Mutant: the comparison is `>`.
LimitReachedOffByOne(r, count) == PlanOf[ClientOf[r]] = "FREE" /\ count > FreeLimit

LimitReached(r, count) == PlanOf[ClientOf[r]] = "FREE" /\ count >= FreeLimit

\* The limit test on the local copy: 403, or next().
CheckLimit(r, count) ==
    Goto(r, IF LimitReached(r, count) THEN "refused" ELSE "admitted")

\* `now` is read after the row came back; a row of another month is reset first.
CompareMonth(r) ==
    /\ pc[r] = "decide"
    /\ now' = [now EXCEPT ![r] = month]
    /\ IF row[r].lastReset # month THEN Goto(r, "resetting")
                                   ELSE CheckLimit(r, row[r].usage)
    /\ UNCHANGED <<month, dbVars, kind, row, history>>

\* Mutant: the row is reset but the local copy keeps last month's count.
ResetUsageStaleCopy(r) ==
    /\ pc[r] = "resetting"
    /\ usage' = [usage EXCEPT ![ClientOf[r]] = 0]
    /\ lastReset' = [lastReset EXCEPT ![ClientOf[r]] = now[r]]
    /\ CheckLimit(r, row[r].usage)
    /\ UNCHANGED <<month, created, kind, row, now, history>>

\* await prisma.user.update, then the local copy is zeroed and tested.
ResetUsage(r) ==
    /\ pc[r] = "resetting"
    /\ usage' = [usage EXCEPT ![ClientOf[r]] = 0]
    /\ lastReset' = [lastReset EXCEPT ![ClientOf[r]] = now[r]]
    /\ row' = [row EXCEPT ![r].usage = 0]
    /\ CheckLimit(r, 0)
    /\ before' = [before EXCEPT ![ClientOf[r]] = Cardinality(Decks(ClientOf[r]))]
    /\ lost' = [lost EXCEPT ![ClientOf[r]] = 0]
    /\ UNCHANGED <<month, created, kind, now>>

-----------------------------------------------------------------------------
(* Handlers createPresentation and generateSingleSlide                     *)

\* 400: neither a topic nor slides (createPresentation), no topic
\* (generateSingleSlide).
BadRequest(r) ==
    /\ pc[r] = "admitted"
    /\ Goto(r, "idle")
    /\ UNCHANGED <<month, dbVars, localVars, history>>

\* Template lookup and slide generation.  A failing AI call is answered with
\* fallback slides, so generation itself never fails; generateSingleSlide
\* replies here and counts nothing.
Generate(r) ==
    /\ pc[r] = "admitted"
    /\ Goto(r, IF kind[r] = "create" THEN "generated" ELSE "idle")
    /\ UNCHANGED <<month, dbVars, localVars, history>>

\* Mutant: the counter is charged when the deck is saved and again afterwards.
SavePresentationCharging(r) ==
    /\ pc[r] = "generated"
    /\ created' = created \cup {[id |-> Cardinality(created) + 1,
                                 owner |-> ClientOf[r], month |-> month]}
    /\ usage' = [usage EXCEPT ![ClientOf[r]] = @ + 1]
    /\ Goto(r, "saved")
    /\ UNCHANGED <<month, lastReset, localVars, history>>

\* await prisma.presentation.create (with its slides, one nested write).
SavePresentation(r) ==
    /\ pc[r] = "generated"
    /\ created' = created \cup {[id |-> Cardinality(created) + 1,
                                 owner |-> ClientOf[r], month |-> month]}
    /\ Goto(r, "saved")
    /\ UNCHANGED <<month, usage, lastReset, localVars, history>>

\* Mutant: one more than in the row that checkLimits has read is written.
IncrementUsageOfCopy(r) ==
    /\ pc[r] = "saved"
    /\ usage' = [usage EXCEPT ![ClientOf[r]] = row[r].usage + 1]
    /\ Goto(r, "idle")
    /\ UNCHANGED <<month, lastReset, created, localVars, history>>

\* await prisma.user.update with { increment: 1 }, then 201.
IncrementUsage(r) ==
    /\ pc[r] = "saved"
    /\ usage' = [usage EXCEPT ![ClientOf[r]] = @ + 1]
    /\ Goto(r, "idle")
    /\ UNCHANGED <<month, lastReset, created, localVars, history>>

-----------------------------------------------------------------------------
(* Failures and the environment                                            *)

\* Mutant: the catch block hands back a unit that was never charged.
StatementFailsRefunding(r) ==
    /\ pc[r] \in {"checking", "resetting", "admitted", "generated", "saved"}
    /\ usage' = [usage EXCEPT ![ClientOf[r]] = @ - 1]
    /\ Goto(r, "idle")
    /\ UNCHANGED <<month, lastReset, created, localVars, history>>

\* Any awaited database call may reject; both catch blocks answer 500 and
\* undo nothing.
StatementFails(r) ==
    /\ pc[r] \in {"checking", "resetting", "admitted", "generated", "saved"}
    /\ Goto(r, "idle")
    /\ lost' = IF pc[r] = "saved" THEN [lost EXCEPT ![ClientOf[r]] = @ + 1] ELSE lost
    /\ UNCHANGED <<month, dbVars, localVars, before>>

\* The server process dies: what is in flight is lost, the database stays.
Crash ==
    /\ \E r \in Requests : pc[r] \notin Answered
    /\ pc' = [r \in Requests |-> "idle"]
    /\ lost' = [u \in Users |-> lost[u] + Cardinality(Saved(u))]
    /\ UNCHANGED <<month, dbVars, localVars, before>>

NextMonth ==
    /\ month < MaxMonth
    /\ month' = month + 1
    /\ UNCHANGED <<dbVars, pc, localVars, history>>

Handler(r) ==
    \/ ReadUser(r)
    \/ CompareMonth(r)
    \/ ResetUsage(r)
    \/ Generate(r)
    \/ SavePresentation(r)
    \/ IncrementUsage(r)

Next ==
    \/ \E r \in Requests, k \in {"create", "slide"} : Arrive(r, k)
    \/ \E r \in Requests : Handler(r)
    \/ \E r \in Requests : BadRequest(r)
    \/ \E r \in Requests : StatementFails(r)
    \/ Crash
    \/ NextMonth

Spec == Init /\ [][Next]_vars

-----------------------------------------------------------------------------
(* Properties                                                              *)

CreatedIn(u, m) == {p \in created : p.owner = u /\ p.month = m}
CreatedSince(u, m) == {p \in created : p.owner = u /\ p.month >= m}

\* checkLimits reads the counter long before createPresentation increments it,
\* so the limit can be overshot; but never by more than the other requests
\* the user has in flight, whatever fails, crashes or crosses a month.
OvershootBounded ==
    \A u \in Users :
        PlanOf[u] = "FREE" => usage[u] <= FreeLimit - 1 + Cardinality(Slots(u))

\* What a FREE user really gets: since the counter was last reset, the decks saved
\* exceed the limit by less than the user's connections and the increments that a
\* failure or a crash has cost, one deck each.  Nothing else leaves a deck uncounted:
\* increments of overlapping requests add up.
DecksBounded ==
    \A u \in Users :
        PlanOf[u] = "FREE" =>
          Cardinality(Decks(u)) - before[u] <= FreeLimit - 1 + Cardinality(Slots(u)) + lost[u]

\* The counter follows the decks: since its last reset a user was charged at
\* most for the decks saved since then and for the ones that requests in
\* flight across the reset had already saved (the resetting one is not among
\* them, hence the strict inequality).
FairCharge ==
    \A r \in Requests :
        LET u == ClientOf[r]
        IN  usage[u] < Cardinality(CreatedSince(u, lastReset[u])) + Cardinality(Slots(u))

\* A 403 is about the current month: up to the same carry-over, a refused user
\* really has FreeLimit decks of the month in which checkLimits looked.
RefusalJustified ==
    \A r \in Requests :
        LET u == ClientOf[r]
        IN  pc[r] = "refused" =>
              FreeLimit < Cardinality(CreatedIn(u, now[r])) + Cardinality(Slots(u))

\* What the 403 body says (error 'Monthly limit reached', limit: 5): a FREE user
\* gets at most FreeLimit presentations into a month.
MonthlyLimit ==
    \A u \in Users, m \in 0..MaxMonth :
        PlanOf[u] = "FREE" => Cardinality(CreatedIn(u, m)) <= FreeLimit

-----------------------------------------------------------------------------
(* The inductive invariant                                                 *)

\* Connections that hold, or are about to compute, a verdict that lets them go
\* on to the increment.
Pending(u) ==
    {r \in Slots(u) : \/ pc[r] \in {"admitted", "generated", "saved"}
                      \/ pc[r] = "decide" /\ row[r].usage < FreeLimit}

\* No timestamp is ahead of the clock, and row ids are 1, 2, 3, ...
TimesInv ==
    /\ \A u \in Users : lastReset[u] <= month
    /\ \A r \in Requests : now[r] <= month
    /\ \A p \in created : p.month <= month /\ p.id \in 1..Cardinality(created)

\* What the in-flight requests may still add is part of the overshoot bound.
AdmissionInv ==
    \A u \in Users :
        PlanOf[u] = "FREE" =>
          usage[u] + Cardinality(Pending(u)) <= FreeLimit - 1 + Cardinality(Slots(u))

\* A saved but not yet counted deck is charged in advance.
ChargeInv ==
    \A r \in Requests :
        LET u == ClientOf[r]
        IN  usage[u] + Cardinality(Saved(u))
              < Cardinality(CreatedSince(u, lastReset[u])) + Cardinality(Slots(u))

\* Every deck since the last reset is in the counter, about to be, or lost.
LedgerInv ==
    \A u \in Users :
        Cardinality(Decks(u)) <= before[u] + usage[u] + Cardinality(Saved(u)) + lost[u]

\* The local copy of the row was fair when it was read, and stays so.
CopyInv ==
    \A r \in Requests :
        LET u == ClientOf[r]
        IN  pc[r] = "decide" =>
              row[r].usage < Cardinality(CreatedSince(u, row[r].lastReset))
                             + Cardinality(Slots(u))

IndInv ==
    /\ TypeOK
    /\ TimesInv
    /\ AdmissionInv
    /\ ChargeInv
    /\ CopyInv
    /\ LedgerInv
    /\ RefusalJustified

=============================================================================
