-------------------------- MODULE UsageLimitsProofs --------------------------
(***************************************************************************)
(* Proofs about UsageLimits for any users, connections, limit and bounds.  *)
(***************************************************************************)
EXTENDS UsageLimits, FiniteSetTheorems, TLAPS

\* The connections of a user are finitely many, and so is any part of them.
LEMMA SlotsFinite ==
    ASSUME NEW u, NEW S, S \subseteq Slots(u)
    PROVE  /\ IsFiniteSet(S) /\ Cardinality(S) \in Nat
           /\ IsFiniteSet(Slots(u)) /\ Cardinality(Slots(u)) \in Nat
           /\ Cardinality(S) <= Cardinality(Slots(u))
<1>1. Slots(u) \subseteq Requests
  BY DEF Slots
<1>2. IsFiniteSet(Slots(u)) /\ IsFiniteSet(S)
  BY <1>1, FS_Subset, RequestsAssumption
<1>3. QED
  BY <1>2, FS_Subset, FS_CardinalityType

\* Every handler step moves the control of one connection only.
LEMMA TypeStep == TypeOK /\ [Next]_vars => TypeOK'
<1> SUFFICES ASSUME TypeOK, [Next]_vars PROVE TypeOK'
  OBVIOUS
<1> USE UsersAssumption DEF TypeOK, Goto, Locations, Answered, dbVars, localVars, history
<1>1. ASSUME NEW r \in Requests, NEW k \in {"create", "slide"}, Arrive(r, k)
      PROVE  TypeOK'
  BY <1>1 DEF Arrive
<1>2. ASSUME NEW r \in Requests, ReadUser(r) PROVE TypeOK'
  BY <1>2 DEF ReadUser
<1>3. ASSUME NEW r \in Requests, CompareMonth(r) PROVE TypeOK'
  BY <1>3 DEF CompareMonth, CheckLimit
<1>4. ASSUME NEW r \in Requests, ResetUsage(r) PROVE TypeOK'
  <2>1. Cardinality(Decks(ClientOf[r])) \in Nat
    BY FS_Subset, FS_CardinalityType DEF Decks
  <2>2. QED
    BY <1>4, <2>1 DEF ResetUsage, CheckLimit
<1>5. ASSUME NEW r \in Requests, Generate(r) PROVE TypeOK'
  BY <1>5 DEF Generate
<1>6. ASSUME NEW r \in Requests, SavePresentation(r) PROVE TypeOK'
  <2>1. Cardinality(created) \in Nat
    BY FS_CardinalityType
  <2>2. created' \subseteq Presentations
    BY <1>6, <2>1 DEF SavePresentation, Presentations
  <2>3. IsFiniteSet(created')
    BY <1>6, FS_AddElement DEF SavePresentation
  <2>4. QED
    BY <1>6, <2>2, <2>3 DEF SavePresentation
<1>7. ASSUME NEW r \in Requests, IncrementUsage(r) PROVE TypeOK'
  BY <1>7 DEF IncrementUsage
<1>8. ASSUME NEW r \in Requests, BadRequest(r) \/ StatementFails(r) PROVE TypeOK'
  BY <1>8 DEF BadRequest, StatementFails
<1>9. CASE Crash
  <2>1. \A u \in Users : Cardinality(Saved(u)) \in Nat
    BY SlotsFinite DEF Saved
  <2>2. QED
    BY <1>9, <2>1 DEF Crash
<1>10. CASE NextMonth
  BY <1>10 DEF NextMonth
<1>11. CASE UNCHANGED vars
  BY <1>11 DEF vars
<1>12. QED
  BY <1>1, <1>2, <1>3, <1>4, <1>5, <1>6, <1>7, <1>8, <1>9, <1>10, <1>11
     DEF Next, Handler

\* Type correctness of the quota's state.
THEOREM TypeCorrect == Spec => []TypeOK
<1>1. Init => TypeOK
  BY FS_EmptySet DEF Init, TypeOK, Locations, Presentations
<1>2. QED
  BY <1>1, TypeStep, PTL DEF Spec

-----------------------------------------------------------------------------
(* Rows are only added, so counts of rows only grow.                       *)

LEMMA CreatedFinite ==
    ASSUME TypeOK, NEW S, S \subseteq created
    PROVE  IsFiniteSet(S) /\ Cardinality(S) \in Nat
BY FS_Subset, FS_CardinalityType DEF TypeOK

\* A new row has an id that no row of the table has.
LEMMA FreshId ==
    ASSUME TypeOK, TimesInv, NEW u, NEW m
    PROVE  [id |-> Cardinality(created) + 1, owner |-> u, month |-> m] \notin created
<1>1. Cardinality(created) \in Nat
  BY CreatedFinite
<1>2. QED
  BY <1>1 DEF TimesInv

LEMMA CreatedGrows ==
    ASSUME TypeOK, [Next]_vars
    PROVE  created \subseteq created'
BY DEF Next, Handler, vars, dbVars, Arrive, ReadUser, CompareMonth, ResetUsage, Generate,
       SavePresentation, IncrementUsage, BadRequest, StatementFails, Crash, NextMonth

-----------------------------------------------------------------------------
(* One lemma per conjunct of the inductive invariant.                      *)

\* Timestamps follow the clock.
LEMMA TimesStep == TypeOK /\ TimesInv /\ [Next]_vars => TimesInv'
<1> SUFFICES ASSUME TypeOK, TimesInv, [Next]_vars PROVE TimesInv'
  OBVIOUS
<1> USE UsersAssumption DEF TypeOK, TimesInv, dbVars, localVars
<1>1. ASSUME NEW r \in Requests, SavePresentation(r) PROVE TimesInv'
  <2> DEFINE new == [id |-> Cardinality(created) + 1, owner |-> ClientOf[r], month |-> month]
  <2>1. Cardinality(created) \in Nat /\ Cardinality(created') = Cardinality(created) + 1
    BY <1>1, FreshId, CreatedFinite, FS_AddElement DEF SavePresentation
  <2>2. ASSUME NEW p \in created' PROVE p.month <= month' /\ p.id \in 1..Cardinality(created')
    <3>1. CASE p \in created
      BY <1>1, <2>1, <3>1 DEF SavePresentation
    <3>2. CASE p = new
      BY <1>1, <2>1, <3>2 DEF SavePresentation
    <3>3. QED
      BY <1>1, <2>2, <3>1, <3>2 DEF SavePresentation
  <2>3. QED
    BY <1>1, <2>2 DEF SavePresentation
<1>2. ASSUME NEW r \in Requests, ResetUsage(r) PROVE TimesInv'
  BY <1>2 DEF ResetUsage
<1>3. ASSUME NEW r \in Requests, CompareMonth(r) PROVE TimesInv'
  BY <1>3 DEF CompareMonth
<1>4. CASE NextMonth
  <2>1. \A p \in created : p.month \in Nat
    BY DEF Presentations
  <2>2. QED
    BY <1>4, <2>1 DEF NextMonth
<1>5. ASSUME NEW r \in Requests,
             \/ \E k \in {"create", "slide"} : Arrive(r, k)
             \/ ReadUser(r) \/ Generate(r) \/ IncrementUsage(r)
             \/ BadRequest(r) \/ StatementFails(r)
      PROVE  TimesInv'
  BY <1>5 DEF Arrive, ReadUser, Generate, IncrementUsage, BadRequest, StatementFails
<1>6. CASE Crash \/ UNCHANGED vars
  BY <1>6 DEF Crash, vars
<1>7. QED
  BY <1>1, <1>2, <1>3, <1>4, <1>5, <1>6 DEF Next, Handler

\* Taking one member out of a part of the connections makes room for one.
LEMMA RemoveSlot ==
    ASSUME NEW u, NEW S, S \subseteq Slots(u), NEW T, T \subseteq Slots(u), NEW r \in S,
           T \subseteq S \ {r}
    PROVE  Cardinality(T) + 1 <= Cardinality(S)
<1>1. IsFiniteSet(S) /\ Cardinality(S) \in Nat /\ IsFiniteSet(T) /\ Cardinality(T) \in Nat
  BY SlotsFinite
<1>2. IsFiniteSet(S \ {r}) /\ Cardinality(S \ {r}) = Cardinality(S) - 1
  BY <1>1, FS_RemoveElement
<1>3. Cardinality(T) <= Cardinality(S \ {r})
  BY <1>2, FS_Subset
<1>4. QED
  BY <1>1, <1>2, <1>3

LEMMA SubsetCounts ==
    ASSUME NEW u, NEW S, S \subseteq Slots(u), NEW T, T \subseteq S
    PROVE  Cardinality(T) <= Cardinality(S)
BY SlotsFinite, FS_Subset

\* A request is only admitted on a count below the limit, and only admitted
\* requests charge.
LEMMA AdmissionStep == TypeOK /\ AdmissionInv /\ [Next]_vars => AdmissionInv'
<1> SUFFICES ASSUME TypeOK, AdmissionInv, [Next]_vars, NEW u \in Users, PlanOf[u] = "FREE"
             PROVE  usage'[u] + Cardinality(Pending(u)') <= FreeLimit - 1 + Cardinality(Slots(u))
  BY DEF AdmissionInv, Slots
<1> DEFINE P == Pending(u)
           Q == Pending(u)'
           Goal == usage'[u] + Cardinality(Q) <= FreeLimit - 1 + Cardinality(Slots(u))
<1>a. P \subseteq Slots(u) /\ Q \subseteq Slots(u)
  BY DEF Pending, Slots
<1>b. /\ Cardinality(P) \in Nat /\ Cardinality(Q) \in Nat /\ Cardinality(Slots(u)) \in Nat
      /\ Cardinality(Q) <= Cardinality(Slots(u))
  BY <1>a, SlotsFinite
<1>c. usage[u] + Cardinality(P) <= FreeLimit - 1 + Cardinality(Slots(u))
  BY DEF AdmissionInv
<1>d. usage[u] \in Nat /\ FreeLimit \in Nat \ {0}
  BY LimitAssumption DEF TypeOK
<1>e. ASSUME usage'[u] = usage[u], Q \subseteq P PROVE Goal
  BY <1>a, <1>b, <1>c, <1>d, <1>e, SubsetCounts
<1> HIDE DEF P, Q
<1>1. ASSUME NEW r \in Requests, NEW k \in {"create", "slide"}, Arrive(r, k) PROVE Goal
  <2>1. Q \subseteq P
    BY <1>1 DEF P, Q, Pending, Slots, Arrive, Goto, TypeOK
  <2>2. QED
    BY <1>1, <1>e, <2>1 DEF Arrive, dbVars
<1>2. ASSUME NEW r \in Requests, ReadUser(r) PROVE Goal
  <2>1. usage' = usage
    BY <1>2 DEF ReadUser, dbVars
  <2>2. CASE usage[u] < FreeLimit
    BY <1>b, <1>d, <2>1, <2>2
  <2>3. CASE ~(usage[u] < FreeLimit)
    <3>1. Q \subseteq P
      BY <1>2, <2>3 DEF P, Q, Pending, Slots, ReadUser, Goto, TypeOK
    <3>2. QED
      BY <1>e, <2>1, <3>1
  <2>4. QED
    BY <2>2, <2>3
<1>3. ASSUME NEW r \in Requests, CompareMonth(r) PROVE Goal
  <2>1. Q \subseteq P
    BY <1>3, <1>d DEF P, Q, Pending, Slots, CompareMonth, CheckLimit, LimitReached, Goto, TypeOK
  <2>2. QED
    BY <1>3, <1>e, <2>1 DEF CompareMonth, dbVars
<1>4. ASSUME NEW r \in Requests, ResetUsage(r) PROVE Goal
  <2>1. CASE ClientOf[r] = u
    <3>1. usage'[u] = 0
      BY <1>4, <2>1 DEF ResetUsage, TypeOK
    <3>2. QED
      BY <1>b, <1>d, <3>1
  <2>2. CASE ClientOf[r] # u
    <3>1. Q \subseteq P
      BY <1>4, <2>2 DEF P, Q, Pending, Slots, ResetUsage, CheckLimit, Goto, TypeOK
    <3>2. usage'[u] = usage[u]
      BY <1>4, <2>2 DEF ResetUsage, TypeOK
    <3>3. QED
      BY <1>e, <3>1, <3>2
  <2>3. QED
    BY <2>1, <2>2
<1>5. ASSUME NEW r \in Requests, IncrementUsage(r) PROVE Goal
  <2>1. CASE ClientOf[r] = u
    <3>1. r \in P /\ Q \subseteq P \ {r}
      BY <1>5, <2>1 DEF P, Q, Pending, Slots, IncrementUsage, Goto, TypeOK, localVars
    <3>2. Cardinality(Q) + 1 <= Cardinality(P)
      BY <1>a, <3>1, RemoveSlot DEF P, Q
    <3>3. usage'[u] = usage[u] + 1
      BY <1>5, <2>1 DEF IncrementUsage, TypeOK
    <3>4. QED
      BY <1>b, <1>c, <1>d, <3>2, <3>3 DEF P, Q
  <2>2. CASE ClientOf[r] # u
    <3>1. Q \subseteq P
      BY <1>5, <2>2 DEF P, Q, Pending, Slots, IncrementUsage, Goto, TypeOK, localVars
    <3>2. usage'[u] = usage[u]
      BY <1>5, <2>2 DEF IncrementUsage, TypeOK
    <3>3. QED
      BY <1>e, <3>1, <3>2
  <2>3. QED
    BY <2>1, <2>2
<1>6. ASSUME NEW r \in Requests,
             Generate(r) \/ SavePresentation(r) \/ BadRequest(r) \/ StatementFails(r)
      PROVE  Goal
  <2>1. Q \subseteq P
    BY <1>6 DEF P, Q, Pending, Slots, Generate, SavePresentation, BadRequest,
                StatementFails, Goto, TypeOK, localVars
  <2>2. QED
    BY <1>6, <1>e, <2>1 DEF Generate, SavePresentation, BadRequest, StatementFails, dbVars
<1>7. CASE Crash \/ NextMonth \/ UNCHANGED vars
  <2>1. Q \subseteq P
    BY <1>7 DEF P, Q, Pending, Slots, Crash, NextMonth, vars, TypeOK, localVars
  <2>2. QED
    BY <1>7, <1>e, <2>1 DEF Crash, NextMonth, vars, dbVars, Q
<1>8. QED
  BY <1>1, <1>2, <1>3, <1>4, <1>5, <1>6, <1>7 DEF Next, Handler, Q

\* A saved deck is charged once; a reset forgets the decks before it, and the
\* request that resets has not saved one.
LEMMA ChargeStep == TypeOK /\ TimesInv /\ ChargeInv /\ [Next]_vars => ChargeInv'
<1> SUFFICES ASSUME TypeOK, TimesInv, ChargeInv, [Next]_vars, NEW u \in Users,
                    \E q \in Requests : ClientOf[q] = u
             PROVE  usage'[u] + Cardinality(Saved(u)')
                      < Cardinality(CreatedSince(u, lastReset[u])') + Cardinality(Slots(u))
  BY UsersAssumption DEF ChargeInv, Slots
<1> DEFINE S == Saved(u)
           T == Saved(u)'
           C == Cardinality(CreatedSince(u, lastReset[u]))
           D == Cardinality(CreatedSince(u, lastReset[u])')
           Goal == usage'[u] + Cardinality(T) < D + Cardinality(Slots(u))
<1>a. S \subseteq Slots(u) /\ T \subseteq Slots(u)
  BY DEF Saved, Slots
<1>b. /\ Cardinality(S) \in Nat /\ Cardinality(T) \in Nat /\ Cardinality(Slots(u)) \in Nat
  BY <1>a, SlotsFinite
<1>c. usage[u] + Cardinality(S) < C + Cardinality(Slots(u))
  BY DEF ChargeInv
<1>d. usage[u] \in Nat
  BY DEF TypeOK
<1>f. C \in Nat
  BY CreatedFinite DEF CreatedSince
<1>g. D \in Nat
  <2>1. IsFiniteSet(created')
    BY TypeStep DEF TypeOK
  <2>2. CreatedSince(u, lastReset[u])' \subseteq created'
    BY DEF CreatedSince
  <2>3. QED
    BY <2>1, <2>2, FS_Subset, FS_CardinalityType
<1>h. ASSUME lastReset'[u] = lastReset[u] PROVE C <= D
  <2>2. CreatedSince(u, lastReset[u]) \subseteq CreatedSince(u, lastReset[u])'
    BY <1>h, CreatedGrows DEF CreatedSince
  <2>3. IsFiniteSet(CreatedSince(u, lastReset[u])')
    <3>1. IsFiniteSet(created')
      BY TypeStep DEF TypeOK
    <3>2. CreatedSince(u, lastReset[u])' \subseteq created'
      BY DEF CreatedSince
    <3>3. QED
      BY <3>1, <3>2, FS_Subset
  <2>4. QED
    BY <2>2, <2>3, FS_Subset
<1>e. ASSUME usage'[u] = usage[u], lastReset'[u] = lastReset[u], T \subseteq S PROVE Goal
  <2>1. Cardinality(T) <= Cardinality(S)
    BY <1>a, <1>e, SubsetCounts
  <2>2. C <= D
    BY <1>e, <1>h
  <2>3. QED
    BY <1>b, <1>c, <1>d, <1>e, <1>f, <1>g, <2>1, <2>2
<1> HIDE DEF S, T, C, D
<1>1. ASSUME NEW r \in Requests, SavePresentation(r) PROVE Goal
  <2>0. usage'[u] = usage[u] /\ lastReset'[u] = lastReset[u]
    BY <1>1 DEF SavePresentation
  <2>1. CASE ClientOf[r] = u
    <3> DEFINE new == [id |-> Cardinality(created) + 1, owner |-> ClientOf[r], month |-> month]
    <3>1. new \notin created
      BY FreshId
    <3>2. new.owner = u /\ new.month >= lastReset[u]
      BY <2>1 DEF TimesInv, TypeOK
    <3> HIDE DEF new
    <3>3. created' = created \cup {new}
      BY <1>1 DEF SavePresentation, new
    <3>4. CreatedSince(u, lastReset[u])' = CreatedSince(u, lastReset[u]) \cup {new}
      BY <2>0, <3>2, <3>3 DEF CreatedSince
    <3>5. IsFiniteSet(CreatedSince(u, lastReset[u])) /\ new \notin CreatedSince(u, lastReset[u])
      BY <3>1, CreatedFinite DEF CreatedSince
    <3>6. D = C + 1
      BY <3>4, <3>5, FS_AddElement DEF C, D
    <3>7. r \notin S /\ T = S \cup {r}
      BY <1>1, <2>1 DEF S, T, Saved, Slots, SavePresentation, Goto, TypeOK
    <3>8. Cardinality(T) = Cardinality(S) + 1
      BY <1>a, <3>7, SlotsFinite, FS_AddElement DEF S, T
    <3>9. QED
      BY <1>b, <1>c, <1>d, <1>f, <2>0, <3>6, <3>8
  <2>2. CASE ClientOf[r] # u
    <3>1. T \subseteq S
      BY <1>1, <2>2 DEF S, T, Saved, Slots, SavePresentation, Goto, TypeOK
    <3>2. QED
      BY <1>e, <2>0, <3>1
  <2>3. QED
    BY <2>1, <2>2
<1>2. ASSUME NEW r \in Requests, IncrementUsage(r) PROVE Goal
  <2>0. lastReset'[u] = lastReset[u]
    BY <1>2 DEF IncrementUsage
  <2>1. CASE ClientOf[r] = u
    <3>1. r \in S /\ T \subseteq S \ {r}
      BY <1>2, <2>1 DEF S, T, Saved, Slots, IncrementUsage, Goto, TypeOK
    <3>2. Cardinality(T) + 1 <= Cardinality(S)
      BY <1>a, <3>1, RemoveSlot DEF S, T
    <3>3. usage'[u] = usage[u] + 1
      BY <1>2, <2>1 DEF IncrementUsage, TypeOK
    <3>4. C <= D
      BY <1>h, <2>0
    <3>5. QED
      BY <1>b, <1>c, <1>d, <1>f, <1>g, <3>2, <3>3, <3>4
  <2>2. CASE ClientOf[r] # u
    <3>1. T \subseteq S /\ usage'[u] = usage[u]
      BY <1>2, <2>2 DEF S, T, Saved, Slots, IncrementUsage, Goto, TypeOK
    <3>2. QED
      BY <1>e, <2>0, <3>1
  <2>3. QED
    BY <2>1, <2>2
<1>3. ASSUME NEW r \in Requests, ResetUsage(r) PROVE Goal
  <2>1. CASE ClientOf[r] = u
    <3>1. usage'[u] = 0
      BY <1>3, <2>1 DEF ResetUsage, TypeOK
    <3>2. r \in Slots(u) /\ T \subseteq Slots(u) \ {r}
      BY <1>3, <2>1 DEF T, Saved, Slots, ResetUsage, CheckLimit, Goto, TypeOK
    <3>3. Cardinality(T) + 1 <= Cardinality(Slots(u))
      BY <1>a, <3>2, RemoveSlot
    <3>4. QED
      BY <1>b, <1>g, <3>1, <3>3
  <2>2. CASE ClientOf[r] # u
    <3>1. T \subseteq S
      BY <1>3, <2>2 DEF S, T, Saved, Slots, ResetUsage, CheckLimit, Goto, TypeOK
    <3>2. usage'[u] = usage[u] /\ lastReset'[u] = lastReset[u]
      BY <1>3, <2>2 DEF ResetUsage, TypeOK
    <3>3. QED
      BY <1>e, <3>1, <3>2
  <2>3. QED
    BY <2>1, <2>2
<1>4. ASSUME NEW r \in Requests,
             \/ \E k \in {"create", "slide"} : Arrive(r, k)
             \/ ReadUser(r) \/ CompareMonth(r) \/ Generate(r)
             \/ BadRequest(r) \/ StatementFails(r)
      PROVE  Goal
  <2>1. T \subseteq S
    BY <1>4 DEF S, T, Saved, Slots, Arrive, ReadUser, CompareMonth, CheckLimit, Generate,
                BadRequest, StatementFails, Goto, TypeOK
  <2>2. usage' = usage /\ lastReset' = lastReset
    BY <1>4 DEF Arrive, ReadUser, CompareMonth, Generate, BadRequest, StatementFails, dbVars
  <2>3. QED
    BY <1>e, <2>1, <2>2
<1>5. ASSUME Crash \/ NextMonth \/ UNCHANGED vars PROVE Goal
  <2>1. T \subseteq S
    BY <1>5 DEF S, T, Saved, Slots, Crash, NextMonth, vars, TypeOK
  <2>2. usage' = usage /\ lastReset' = lastReset
    BY <1>5 DEF Crash, NextMonth, vars, dbVars
  <2>3. QED
    BY <1>e, <2>1, <2>2
<1>6. QED
  BY <1>1, <1>2, <1>3, <1>4, <1>5 DEF Next, Handler, T, D

\* A deck is counted, about to be counted, or lost with the request that saved it.
LEMMA LedgerStep == TypeOK /\ LedgerInv /\ [Next]_vars => LedgerInv'
<1> SUFFICES ASSUME TypeOK, LedgerInv, [Next]_vars, NEW u \in Users
             PROVE  Cardinality(Decks(u)') <= before'[u] + usage'[u] + Cardinality(Saved(u)') + lost'[u]
  BY DEF LedgerInv
<1> DEFINE S == Saved(u)
           T == Saved(u)'
           C == Cardinality(Decks(u))
           D == Cardinality(Decks(u)')
           Goal == D <= before'[u] + usage'[u] + Cardinality(T) + lost'[u]
<1>a. S \subseteq Slots(u) /\ T \subseteq Slots(u)
  BY DEF Saved, Slots
<1>b. Cardinality(S) \in Nat /\ Cardinality(T) \in Nat /\ IsFiniteSet(S) /\ IsFiniteSet(T)
  BY <1>a, SlotsFinite
<1>c. C <= before[u] + usage[u] + Cardinality(S) + lost[u]
  BY DEF LedgerInv
<1>d. /\ usage[u] \in Nat /\ before[u] \in Nat /\ lost[u] \in Nat
      /\ usage'[u] \in Nat /\ before'[u] \in Nat /\ lost'[u] \in Nat
  BY TypeStep DEF TypeOK
<1>f. IsFiniteSet(Decks(u)) /\ C \in Nat
  BY CreatedFinite DEF Decks
<1>e. ASSUME created' = created PROVE D = C
  BY <1>e DEF Decks
<1>g. ASSUME UNCHANGED <<usage, created, before, lost>>, T = S PROVE Goal
  BY <1>b, <1>c, <1>d, <1>e, <1>f, <1>g
<1> HIDE DEF S, T, C, D
<1>1. ASSUME NEW r \in Requests, SavePresentation(r) PROVE Goal
  <2> DEFINE new == [id |-> Cardinality(created) + 1, owner |-> ClientOf[r], month |-> month]
  <2>0. created' = created \cup {new} /\ UNCHANGED <<usage, before, lost>> /\ new.owner = ClientOf[r]
    BY <1>1 DEF SavePresentation, history
  <2> HIDE DEF new
  <2>1. CASE ClientOf[r] = u
    <3>1. Decks(u)' = Decks(u) \cup {new}
      BY <2>0, <2>1 DEF Decks
    <3>2. D <= C + 1 /\ D \in Nat
      <4>1. D = IF new \in Decks(u) THEN C ELSE C + 1
        BY <1>f, <3>1, FS_AddElement DEF C, D
      <4>2. QED
        BY <1>f, <4>1
    <3>3. r \notin S /\ T = S \cup {r}
      BY <1>1, <2>1 DEF S, T, Saved, Slots, SavePresentation, Goto, TypeOK
    <3>4. Cardinality(T) = Cardinality(S) + 1
      BY <1>b, <3>3, FS_AddElement
    <3>5. QED
      BY <1>b, <1>c, <1>d, <1>f, <2>0, <3>2, <3>4
  <2>2. CASE ClientOf[r] # u
    <3>1. Decks(u)' = Decks(u)
      BY <2>0, <2>2 DEF Decks
    <3>2. T = S
      BY <1>1, <2>2 DEF S, T, Saved, Slots, SavePresentation, Goto, TypeOK
    <3>3. QED
      BY <1>b, <1>c, <1>d, <1>f, <2>0, <3>1, <3>2 DEF C, D
  <2>3. QED
    BY <2>1, <2>2
<1>2. ASSUME NEW r \in Requests, IncrementUsage(r) PROVE Goal
  <2>0. UNCHANGED <<created, before, lost>>
    BY <1>2 DEF IncrementUsage, history
  <2>1. CASE ClientOf[r] = u
    <3>1. r \in S /\ T = S \ {r} /\ usage'[u] = usage[u] + 1
      BY <1>2, <2>1 DEF S, T, Saved, Slots, IncrementUsage, Goto, TypeOK
    <3>2. Cardinality(T) = Cardinality(S) - 1
      BY <1>b, <3>1, FS_RemoveElement
    <3>3. QED
      BY <1>b, <1>c, <1>d, <1>e, <1>f, <2>0, <3>1, <3>2
  <2>2. CASE ClientOf[r] # u
    <3>1. T = S /\ usage'[u] = usage[u]
      BY <1>2, <2>2 DEF S, T, Saved, Slots, IncrementUsage, Goto, TypeOK
    <3>2. QED
      BY <1>b, <1>c, <1>d, <1>e, <1>f, <2>0, <3>1
  <2>3. QED
    BY <2>1, <2>2
<1>3. ASSUME NEW r \in Requests, ResetUsage(r) PROVE Goal
  <2>0. created' = created
    BY <1>3 DEF ResetUsage
  <2>1. CASE ClientOf[r] = u
    <3>1. before'[u] = C
      BY <1>3, <2>1 DEF ResetUsage, TypeOK, C
    <3>2. QED
      BY <1>b, <1>d, <1>e, <1>f, <2>0, <3>1
  <2>2. CASE ClientOf[r] # u
    <3>1. /\ T = S /\ usage'[u] = usage[u] /\ before'[u] = before[u] /\ lost'[u] = lost[u]
      BY <1>3, <2>2 DEF S, T, Saved, Slots, ResetUsage, CheckLimit, Goto, TypeOK
    <3>2. QED
      BY <1>b, <1>c, <1>d, <1>e, <1>f, <2>0, <3>1
  <2>3. QED
    BY <2>1, <2>2
<1>4. ASSUME NEW r \in Requests, StatementFails(r) PROVE Goal
  <2>0. UNCHANGED <<usage, created, before>>
    BY <1>4 DEF StatementFails, dbVars
  <2>1. CASE ClientOf[r] = u /\ pc[r] = "saved"
    <3>1. r \in S /\ T = S \ {r} /\ lost'[u] = lost[u] + 1
      BY <1>4, <2>1 DEF S, T, Saved, Slots, StatementFails, Goto, TypeOK
    <3>2. Cardinality(T) = Cardinality(S) - 1
      BY <1>b, <3>1, FS_RemoveElement
    <3>3. QED
      BY <1>b, <1>c, <1>d, <1>e, <1>f, <2>0, <3>1, <3>2
  <2>2. CASE ~(ClientOf[r] = u /\ pc[r] = "saved")
    <3>1. T = S /\ lost'[u] = lost[u]
      BY <1>4, <2>2 DEF S, T, Saved, Slots, StatementFails, Goto, TypeOK
    <3>2. QED
      BY <1>b, <1>c, <1>d, <1>e, <1>f, <2>0, <3>1
  <2>3. QED
    BY <2>1, <2>2
<1>5. ASSUME Crash PROVE Goal
  <2>1. UNCHANGED <<usage, created, before>>
    BY <1>5 DEF Crash, dbVars
  <2>2. lost'[u] = lost[u] + Cardinality(S)
    BY <1>5 DEF Crash, S
  <2>3. D = C /\ usage'[u] = usage[u] /\ before'[u] = before[u]
    BY <1>e, <2>1
  <2>4. QED
    BY <1>b, <1>c, <1>d, <1>f, <2>2, <2>3
<1>6. ASSUME NEW r \in Requests,
             \/ \E k \in {"create", "slide"} : Arrive(r, k)
             \/ ReadUser(r) \/ CompareMonth(r) \/ Generate(r) \/ BadRequest(r)
      PROVE  Goal
  <2>1. T = S
    BY <1>6 DEF S, T, Saved, Slots, Arrive, ReadUser, CompareMonth, CheckLimit, Generate,
                BadRequest, Goto, TypeOK, Answered
  <2>2. UNCHANGED <<usage, created, before, lost>>
    BY <1>6 DEF Arrive, ReadUser, CompareMonth, Generate, BadRequest, dbVars, history
  <2>3. QED
    BY <1>g, <2>1, <2>2
<1>7. ASSUME NextMonth \/ UNCHANGED vars PROVE Goal
  <2>1. T = S /\ UNCHANGED <<usage, created, before, lost>>
    BY <1>7 DEF S, T, Saved, Slots, NextMonth, vars, dbVars, history
  <2>2. QED
    BY <1>g, <2>1
<1>8. QED
  BY <1>1, <1>2, <1>3, <1>4, <1>5, <1>6, <1>7 DEF Next, Handler, T, D

\* The copy of the row is fair when it is read, and later rows only help it.
LEMMA CopyStep == TypeOK /\ ChargeInv /\ CopyInv /\ [Next]_vars => CopyInv'
<1> SUFFICES ASSUME TypeOK, ChargeInv, CopyInv, [Next]_vars,
                    NEW q \in Requests, NEW u \in Users, u = ClientOf[q], pc'[q] = "decide"
             PROVE  row'[q].usage < Cardinality(CreatedSince(u, row[q].lastReset)')
                                    + Cardinality(Slots(u))
  BY UsersAssumption DEF CopyInv, Slots, CreatedSince
<1>1. CASE ReadUser(q)
  <2>1. row'[q] = [usage |-> usage[u], lastReset |-> lastReset[u]] /\ created' = created
    BY <1>1 DEF ReadUser, TypeOK, dbVars
  <2>2. CreatedSince(u, row[q].lastReset)' = CreatedSince(u, lastReset[u])
    BY <2>1 DEF CreatedSince
  <2>3. Cardinality(Saved(u)) \in Nat /\ Cardinality(Slots(u)) \in Nat
    BY SlotsFinite DEF Saved
  <2>4. Cardinality(CreatedSince(u, lastReset[u])) \in Nat
    BY CreatedFinite DEF CreatedSince
  <2>5. usage[u] + Cardinality(Saved(u))
          < Cardinality(CreatedSince(u, lastReset[u])) + Cardinality(Slots(u))
    BY DEF ChargeInv
  <2>6. usage[u] \in Nat
    BY DEF TypeOK
  <2>7. QED
    BY <2>1, <2>2, <2>3, <2>4, <2>5, <2>6
<1>2. CASE ~ReadUser(q)
  <2>1. pc[q] = "decide" /\ row'[q] = row[q]
    BY <1>2 DEF Next, Handler, vars, dbVars, localVars, Arrive, ReadUser, CompareMonth,
                CheckLimit, ResetUsage, Generate, SavePresentation, IncrementUsage,
                BadRequest, StatementFails, Crash, NextMonth, Goto, TypeOK
  <2>2. row[q].usage < Cardinality(CreatedSince(u, row[q].lastReset)) + Cardinality(Slots(u))
    BY <2>1 DEF CopyInv
  <2>3. Cardinality(Slots(u)) \in Nat /\ row[q].usage \in Nat
    BY SlotsFinite DEF TypeOK
  <2> DEFINE m == row[q].lastReset
  <2>4. CreatedSince(u, row[q].lastReset)' = {p \in created' : p.owner = u /\ p.month >= m}
    BY <2>1 DEF CreatedSince
  <2>5. CreatedSince(u, m) \subseteq CreatedSince(u, row[q].lastReset)'
    BY <2>4, CreatedGrows DEF CreatedSince
  <2>6. IsFiniteSet(created')
    BY TypeStep DEF TypeOK
  <2>7. IsFiniteSet(CreatedSince(u, row[q].lastReset)')
    BY <2>4, <2>6, FS_Subset
  <2>8. /\ Cardinality(CreatedSince(u, m)) <= Cardinality(CreatedSince(u, row[q].lastReset)')
        /\ Cardinality(CreatedSince(u, m)) \in Nat
        /\ Cardinality(CreatedSince(u, row[q].lastReset)') \in Nat
    BY <2>5, <2>7, FS_Subset, FS_CardinalityType
  <2>9. QED
    BY <2>1, <2>2, <2>3, <2>8
<1>3. QED
  BY <1>1, <1>2

\* A refusal is decided on a row of the current month, whose charges are all
\* for decks of that month; a count that was just reset is never refused.
LEMMA RefusalStep ==
    TypeOK /\ TimesInv /\ CopyInv /\ RefusalJustified /\ [Next]_vars => RefusalJustified'
<1> SUFFICES ASSUME TypeOK, TimesInv, CopyInv, RefusalJustified, [Next]_vars,
                    NEW q \in Requests, NEW u \in Users, u = ClientOf[q], pc'[q] = "refused"
             PROVE  FreeLimit < Cardinality(CreatedIn(u, now[q])') + Cardinality(Slots(u))
  BY UsersAssumption DEF RefusalJustified, Slots, CreatedIn
<1>0. FreeLimit \in Nat \ {0} /\ Cardinality(Slots(u)) \in Nat
  BY LimitAssumption, SlotsFinite
<1>1. CASE CompareMonth(q)
  <2>1. now'[q] = month /\ created' = created
    BY <1>1 DEF CompareMonth, TypeOK, dbVars
  <2>2. row[q].lastReset = month /\ row[q].usage >= FreeLimit /\ pc[q] = "decide"
    BY <1>1 DEF CompareMonth, CheckLimit, LimitReached, Goto, TypeOK
  <2>3. row[q].usage < Cardinality(CreatedSince(u, month)) + Cardinality(Slots(u))
    BY <2>2 DEF CopyInv
  <2>4. CreatedSince(u, month) = CreatedIn(u, month)
    <3>1. \A p \in created : p.month \in Nat /\ p.month <= month
      BY DEF TimesInv, TypeOK, Presentations
    <3>2. month \in Nat
      BY DEF TypeOK
    <3>3. \A p \in created : p.month >= month <=> p.month = month
      BY <3>1, <3>2
    <3>4. QED
      BY <3>3 DEF CreatedSince, CreatedIn
  <2>5. CreatedIn(u, now[q])' = CreatedIn(u, month)
    BY <2>1 DEF CreatedIn
  <2>6. Cardinality(CreatedIn(u, month)) \in Nat /\ row[q].usage \in Nat
    BY CreatedFinite DEF CreatedIn, TypeOK
  <2>7. QED
    BY <1>0, <2>2, <2>3, <2>4, <2>5, <2>6
<1>2. CASE ~CompareMonth(q)
  <2>1. ~ResetUsage(q)
    BY <1>0 DEF ResetUsage, CheckLimit, LimitReached, Goto, TypeOK
  <2>2. pc[q] = "refused" /\ now'[q] = now[q]
    BY <1>2, <2>1 DEF Next, Handler, vars, dbVars, localVars, Arrive, ReadUser, CompareMonth,
                CheckLimit, ResetUsage, Generate, SavePresentation, IncrementUsage,
                BadRequest, StatementFails, Crash, NextMonth, Goto, TypeOK
  <2>3. FreeLimit < Cardinality(CreatedIn(u, now[q])) + Cardinality(Slots(u))
    BY <2>2 DEF RefusalJustified
  <2>4. CreatedIn(u, now[q]) \subseteq CreatedIn(u, now[q])'
    BY <2>2, CreatedGrows DEF CreatedIn
  <2>5. IsFiniteSet(created') /\ CreatedIn(u, now[q])' \subseteq created'
    BY TypeStep DEF TypeOK, CreatedIn
  <2>6. IsFiniteSet(CreatedIn(u, now[q])')
    BY <2>5, FS_Subset
  <2>7. /\ Cardinality(CreatedIn(u, now[q])) <= Cardinality(CreatedIn(u, now[q])')
        /\ Cardinality(CreatedIn(u, now[q])) \in Nat
        /\ Cardinality(CreatedIn(u, now[q])') \in Nat
    BY <2>4, <2>6, FS_Subset, FS_CardinalityType
  <2>8. QED
    BY <1>0, <2>3, <2>7
<1>3. QED
  BY <1>1, <1>2

-----------------------------------------------------------------------------
(* The theorems.                                                           *)

LEMMA InitIndInv == Init => IndInv
<1> SUFFICES ASSUME Init PROVE IndInv
  OBVIOUS
<1>1. TypeOK
  BY FS_EmptySet DEF Init, TypeOK, Locations, Presentations
<1>2. TimesInv /\ CopyInv /\ RefusalJustified
  BY DEF Init, TimesInv, CopyInv, RefusalJustified
<1>3. ASSUME NEW u PROVE Pending(u) = {} /\ Saved(u) = {}
  BY DEF Init, Pending, Saved, Slots
<1>4. AdmissionInv
  <2> SUFFICES ASSUME NEW u \in Users
               PROVE  usage[u] + Cardinality(Pending(u)) <= FreeLimit - 1 + Cardinality(Slots(u))
    BY DEF AdmissionInv
  <2>1. Cardinality(Pending(u)) = 0 /\ usage[u] = 0
    BY <1>3, FS_EmptySet DEF Init
  <2>2. Cardinality(Slots(u)) \in Nat
    BY SlotsFinite
  <2>3. QED
    BY <2>1, <2>2, LimitAssumption
<1>5. ChargeInv
  <2> SUFFICES ASSUME NEW r \in Requests, NEW u \in Users, u = ClientOf[r]
               PROVE  usage[u] + Cardinality(Saved(u))
                        < Cardinality(CreatedSince(u, lastReset[u])) + Cardinality(Slots(u))
    BY UsersAssumption DEF ChargeInv
  <2>1. Cardinality(Saved(u)) = 0 /\ usage[u] = 0
    BY <1>3, FS_EmptySet DEF Init
  <2>2. {} \subseteq Slots(u) /\ r \in Slots(u)
    BY DEF Slots
  <2>3. Cardinality({}) + 1 <= Cardinality(Slots(u))
    BY <2>2, RemoveSlot
  <2>4. Cardinality(CreatedSince(u, lastReset[u])) \in Nat /\ Cardinality(Slots(u)) \in Nat
    BY <1>1, CreatedFinite, SlotsFinite DEF CreatedSince
  <2>5. QED
    BY <2>1, <2>3, <2>4, FS_EmptySet
<1>6. LedgerInv
  <2>1. ASSUME NEW u \in Users PROVE Decks(u) = {}
    BY DEF Init, Decks
  <2>2. QED
    BY <1>3, <2>1, FS_EmptySet DEF Init, LedgerInv
<1>7. QED
  BY <1>1, <1>2, <1>4, <1>5, <1>6 DEF IndInv

\* The strengthened invariant: timestamps, admissions in flight, decks saved
\* but not yet counted, and the fairness of the copied row.
THEOREM IndInvHolds == Spec => []IndInv
<1>1. IndInv /\ [Next]_vars => IndInv'
  BY TypeStep, TimesStep, AdmissionStep, ChargeStep, CopyStep, LedgerStep, RefusalStep DEF IndInv
<1>2. QED
  BY <1>1, InitIndInv, PTL DEF Spec

\* However requests of a FREE user interleave with each other, with failures,
\* crashes and the change of month, checkLimits lets the counter overshoot the
\* limit by less than the number of the user's connections.
THEOREM OvershootTheorem == Spec => []OvershootBounded
<1>1. IndInv => OvershootBounded
  <2> SUFFICES ASSUME IndInv, NEW u \in Users, PlanOf[u] = "FREE"
               PROVE  usage[u] <= FreeLimit - 1 + Cardinality(Slots(u))
    BY DEF OvershootBounded
  <2>1. Cardinality(Pending(u)) \in Nat /\ Cardinality(Slots(u)) \in Nat
    BY SlotsFinite DEF Pending
  <2>2. usage[u] + Cardinality(Pending(u)) <= FreeLimit - 1 + Cardinality(Slots(u))
    BY DEF IndInv, AdmissionInv
  <2>3. usage[u] \in Nat /\ FreeLimit \in Nat
    BY LimitAssumption DEF IndInv, TypeOK
  <2>4. QED
    BY <2>1, <2>2, <2>3
<1>2. QED
  BY <1>1, IndInvHolds, PTL

\* A FREE user's decks since the last reset exceed the limit by less than the user's
\* connections and the increments that failures and crashes after the save have cost.
THEOREM DecksTheorem == Spec => []DecksBounded
<1>1. IndInv => DecksBounded
  <2> SUFFICES ASSUME IndInv, NEW u \in Users, PlanOf[u] = "FREE"
               PROVE  Cardinality(Decks(u)) - before[u] <= FreeLimit - 1 + Cardinality(Slots(u)) + lost[u]
    BY DEF DecksBounded
  <2>1. /\ Cardinality(Pending(u)) \in Nat /\ Cardinality(Slots(u)) \in Nat
        /\ Cardinality(Saved(u)) \in Nat
    BY SlotsFinite DEF Pending, Saved
  <2>2. Cardinality(Saved(u)) <= Cardinality(Pending(u))
    <3>1. Pending(u) \subseteq Slots(u) /\ Saved(u) \subseteq Pending(u)
      BY DEF Pending, Saved
    <3>2. QED
      BY <3>1, SubsetCounts
  <2>3. usage[u] + Cardinality(Pending(u)) <= FreeLimit - 1 + Cardinality(Slots(u))
    BY DEF IndInv, AdmissionInv
  <2>4. Cardinality(Decks(u)) <= before[u] + usage[u] + Cardinality(Saved(u)) + lost[u]
    BY DEF IndInv, LedgerInv
  <2>5. /\ usage[u] \in Nat /\ before[u] \in Nat /\ lost[u] \in Nat /\ FreeLimit \in Nat
        /\ Cardinality(Decks(u)) \in Nat
    BY LimitAssumption, CreatedFinite DEF IndInv, TypeOK, Decks
  <2>6. QED
    BY <2>1, <2>2, <2>3, <2>4, <2>5
<1>2. QED
  BY <1>1, IndInvHolds, PTL

\* createPresentation's increment never charges more than the decks it stands
\* for, up to those in flight across a reset.
THEOREM FairChargeTheorem == Spec => []FairCharge
<1>1. IndInv => FairCharge
  <2> SUFFICES ASSUME IndInv, NEW r \in Requests, NEW u \in Users, u = ClientOf[r]
               PROVE  usage[u] < Cardinality(CreatedSince(u, lastReset[u]))
                                 + Cardinality(Slots(u))
    BY UsersAssumption DEF FairCharge
  <2>1. Cardinality(Saved(u)) \in Nat /\ Cardinality(Slots(u)) \in Nat
    BY SlotsFinite DEF Saved
  <2>2. usage[u] + Cardinality(Saved(u))
          < Cardinality(CreatedSince(u, lastReset[u])) + Cardinality(Slots(u))
    BY DEF IndInv, ChargeInv
  <2>3. usage[u] \in Nat /\ Cardinality(CreatedSince(u, lastReset[u])) \in Nat
    BY CreatedFinite DEF IndInv, TypeOK, CreatedSince
  <2>4. QED
    BY <2>1, <2>2, <2>3
<1>2. QED
  BY <1>1, IndInvHolds, PTL

\* A FREE user who is refused really has used up the month's quota, up to the
\* decks in flight across a reset.
THEOREM RefusalTheorem == Spec => []RefusalJustified
BY IndInvHolds, PTL DEF IndInv

=============================================================================
