--------------------------- MODULE AccountsProofs ----------------------------
(***************************************************************************)
(* Proofs about Accounts, for any requests, e-mails, passwords and Google  *)
(* tickets.                                                                *)
(***************************************************************************)
EXTENDS Accounts, TLAPS

\* The empty table satisfies the invariant.
LEMMA InitInv == Init => IndInv
<1> SUFFICES ASSUME Init PROVE IndInv
    OBVIOUS
<1>1. TypeOK
    BY DEF Init, TypeOK, Locations, Ended
<1>2. IdsInv /\ OneAccount /\ LinkVouched
    BY DEF Init, IdsInv, OneAccount, LinkVouched
<1>3. ControlInv /\ FoundInv /\ SignupOwnsAccount /\ SessionsEarned
    BY DEF Init, ControlInv, FoundInv, SignupOwnsAccount, SessionsEarned, At
<1> QED BY <1>1, <1>2, <1>3 DEF IndInv

\* The table keeps its rows, up to a new Google identity.  (AccountsKept says
\* so of every step.)
Kept ==
    \A u \in users : \E v \in users' :
        /\ v.id = u.id /\ v.email = u.email /\ v.password = u.password
        /\ u.googleId # None => v.googleId # None

\* A step of r that leaves the table alone and gives no token.
LEMMA QuietStep ==
    ASSUME IndInv, NEW r \in Requests, pc[r] \notin Ended,
           NEW loc \in {"hashing", "creating", "failed"},
           pc' = [pc EXCEPT ![r] = loc],
           UNCHANGED <<users, kind, email, secret, found, session>>,
           pc[r] # "new"
    PROVE  IndInv'
<1> USE DEF IndInv
<1>1. TypeOK'
    BY DEF TypeOK, Locations, Ended
<1>2. IdsInv'
    BY DEF IdsInv, TypeOK, Rows, Ended
<1>3. ControlInv'
    BY DEF ControlInv, TypeOK
<1>4. FoundInv'
    BY DEF FoundInv, TypeOK
<1>5. OneAccount' /\ LinkVouched'
    BY DEF OneAccount, LinkVouched
<1>6. SignupOwnsAccount' /\ SessionsEarned'
    BY DEF SignupOwnsAccount, SessionsEarned, At, TypeOK
<1> QED BY <1>1, <1>2, <1>3, <1>4, <1>5, <1>6

\* A step of r that gives a token for a row it has looked up.
LEMMA GrantStep ==
    ASSUME IndInv, NEW r \in Requests, pc[r] \notin Ended, pc[r] # "new",
           NEW f \in Rows \cup {None},
           found' = [found EXCEPT ![r] = f],
           NEW u \in users, u.email = email[r],
           kind[r] \in {"login", "google"},
           kind[r] = "login" => u.password = secret[r],
           kind[r] = "google" => u.googleId # None,
           Grant(r, u.id),
           UNCHANGED <<users, kind, email, secret>>
    PROVE  IndInv'
<1> USE DEF IndInv
<1>1. u.id \in Requests
    BY DEF TypeOK, Rows
<1>2. /\ pc' = [pc EXCEPT ![r] = "done"]
      /\ session' = [session EXCEPT ![r] = u.id]
    BY DEF Grant, Goto
<1>3. TypeOK'
    BY <1>1, <1>2 DEF TypeOK, Locations, Ended
<1>4. IdsInv'
    BY <1>2 DEF IdsInv, TypeOK, Rows
<1>5. ControlInv'
    BY <1>2 DEF ControlInv, TypeOK
<1>6. FoundInv'
    BY <1>2 DEF FoundInv, TypeOK
<1>7. OneAccount' /\ LinkVouched'
    BY DEF OneAccount, LinkVouched
<1>8. SignupOwnsAccount'
    BY <1>2 DEF SignupOwnsAccount, At, TypeOK
<1>9. SessionsEarned'
    <2> SUFFICES ASSUME NEW q \in Requests, pc'[q] = "done"
                 PROVE  \E v \in users :
                          /\ v.id = session'[q] /\ v.email = email[q]
                          /\ kind[q] = "login" => v.password = secret[q]
                          /\ kind[q] = "google" => v.googleId # None
        BY DEF SessionsEarned
    <2>1. CASE q = r
        BY <1>2, <2>1 DEF TypeOK
    <2>2. CASE q # r
        BY <1>2, <2>2 DEF SessionsEarned, TypeOK
    <2> QED BY <2>1, <2>2
<1> QED BY <1>3, <1>4, <1>5, <1>6, <1>7, <1>8, <1>9

\* A step of r that remembers a row of the table.
LEMMA RememberStep ==
    ASSUME IndInv, NEW r \in Requests, pc[r] \notin Ended, pc[r] # "new",
           NEW u \in users, u.email = email[r],
           NEW loc \in {"comparing", "linking"},
           found' = [found EXCEPT ![r] = u],
           pc' = [pc EXCEPT ![r] = loc],
           UNCHANGED <<users, kind, email, secret, session>>
    PROVE  IndInv'
<1> USE DEF IndInv
<1>1. u \in Rows
    BY DEF TypeOK
<1>2. TypeOK'
    BY <1>1 DEF TypeOK, Locations, Ended
<1>3. IdsInv'
    BY DEF IdsInv, TypeOK, Rows, Ended
<1>4. ControlInv'
    BY DEF ControlInv, TypeOK
<1>5. FoundInv'
    <2> SUFFICES ASSUME NEW q \in Requests, pc'[q] \in {"comparing", "linking"}
                 PROVE  \E v \in users :
                          /\ v.id = found'[q].id /\ v.email = email[q]
                          /\ v.password = found'[q].password
        BY DEF FoundInv
    <2>1. CASE q = r
        <3>1. found'[q] = u
            BY <2>1 DEF TypeOK
        <3> QED BY <2>1, <3>1
    <2>2. CASE q # r
        BY <2>2 DEF FoundInv, TypeOK
    <2> QED BY <2>1, <2>2
<1>6. OneAccount' /\ LinkVouched'
    BY DEF OneAccount, LinkVouched
<1>7. SignupOwnsAccount' /\ SessionsEarned'
    BY DEF SignupOwnsAccount, SessionsEarned, At, TypeOK
<1> QED BY <1>2, <1>3, <1>4, <1>5, <1>6, <1>7

\* An insertion by r, under the unique columns.
LEMMA InsertStep ==
    ASSUME IndInv, NEW r \in Requests, pc[r] \in {"hashing", "creating"},
           NEW u \in Rows, u.id = r, u.email = email[r],
           \/ kind[r] = "signup" /\ u.password = secret[r] /\ u.googleId = None
           \/ kind[r] = "google" /\ u.googleId = secret[r] /\ u.googleId # None,
           Insert(r, u), UNCHANGED locals
    PROVE  IndInv' /\ Kept
<1> USE DEF IndInv
<1>1. /\ kind' = kind /\ email' = email /\ secret' = secret /\ found' = found
      /\ pc[r] \notin Ended /\ pc[r] # "new"
    BY DEF locals, Ended
<1>2. CASE ~UniqueWith(u)
    <2>1. users' = users /\ session' = session /\ pc' = [pc EXCEPT ![r] = "failed"]
        BY <1>2 DEF Insert, Refuse, Goto
    <2>2. Kept
        BY <2>1 DEF Kept
    <2> QED BY <1>1, <2>1, <2>2, QuietStep
<1>3. CASE UniqueWith(u)
    <2>1. /\ users' = users \cup {u} /\ session' = [session EXCEPT ![r] = r]
          /\ pc' = [pc EXCEPT ![r] = "done"]
        BY <1>3 DEF Insert, Grant, Goto
    <2>2. \A v \in users : v.id # r
        BY <1>1 DEF IdsInv, Ended
    <2>3. TypeOK'
        BY <1>1, <2>1 DEF TypeOK, Locations, Ended
    <2>4. IdsInv'
        <3>1. \A v, w \in users' : v.id = w.id => v = w
            BY <2>1, <2>2 DEF IdsInv
        <3>2. \A v \in users' : pc'[v.id] = "done"
            BY <2>1 DEF IdsInv, TypeOK, Rows
        <3> QED BY <3>1, <3>2 DEF IdsInv
    <2>5. ControlInv'
        BY <1>1, <2>1 DEF ControlInv, TypeOK
    <2>6. FoundInv'
        BY <1>1, <2>1 DEF FoundInv, TypeOK
    <2>7. OneAccount'
        BY <1>3, <2>1, <2>2 DEF OneAccount, UniqueWith
    <2>8. LinkVouched'
        <3>1. kind[r] = "google" => <<secret[r], email[r]>> \in Tickets
            BY <1>1 DEF ControlInv
        <3> QED BY <2>1, <3>1 DEF LinkVouched
    <2>9. SignupOwnsAccount'
        <3> SUFFICES ASSUME NEW q \in Requests, kind[q] = "signup", pc'[q] = "done"
                     PROVE  \E v \in users' :
                              v.id = q /\ v.email = email[q] /\ v.password = secret[q]
            BY <1>1 DEF SignupOwnsAccount, At
        <3>1. CASE q = r
            BY <2>1, <3>1
        <3>2. CASE q # r
            BY <2>1, <3>2 DEF SignupOwnsAccount, At, TypeOK
        <3> QED BY <3>1, <3>2
    <2>10. SessionsEarned'
        <3> SUFFICES ASSUME NEW q \in Requests, pc'[q] = "done"
                     PROVE  \E v \in users' :
                              /\ v.id = session'[q] /\ v.email = email[q]
                              /\ kind[q] = "login" => v.password = secret[q]
                              /\ kind[q] = "google" => v.googleId # None
            BY <1>1 DEF SessionsEarned
        <3>1. CASE q = r
            BY <2>1, <3>1 DEF TypeOK
        <3>2. CASE q # r
            BY <2>1, <3>2 DEF SessionsEarned, TypeOK
        <3> QED BY <3>1, <3>2
    <2>11. Kept
        BY <2>1 DEF Kept
    <2> QED BY <2>3, <2>4, <2>5, <2>6, <2>7, <2>8, <2>9, <2>10, <2>11
<1> QED BY <1>2, <1>3

\* Linking, with the row as it is when the update runs.
LEMMA LinkStep ==
    ASSUME IndInv, NEW r \in Requests, GoogleLink(r)
    PROVE  IndInv' /\ Kept
<1> USE DEF IndInv
<1>1. /\ kind' = kind /\ email' = email /\ secret' = secret /\ found' = found
      /\ kind[r] = "google" /\ pc[r] = "linking" /\ pc[r] \notin Ended /\ pc[r] # "new"
    BY DEF GoogleLink, At, locals, Ended
<1>2. PICK v \in users :
        /\ v.id = found[r].id
        /\ LET u == [v EXCEPT !.googleId = secret[r]]
           IN  IF UniqueWith(u) THEN users' = (users \ {v}) \cup {u} /\ Grant(r, u.id)
                                ELSE UNCHANGED users /\ Refuse(r)
    BY DEF GoogleLink
<1> DEFINE u == [v EXCEPT !.googleId = secret[r]]
<1>3. /\ <<secret[r], email[r]>> \in Tickets
      /\ secret[r] \in GoogleIds /\ secret[r] # None
    BY <1>1, TicketsAssumption, NoneAssumption DEF ControlInv
<1>4. v \in Rows /\ v.email = email[r]
    BY <1>1, <1>2 DEF TypeOK, FoundInv, IdsInv
<1>5. /\ u \in Rows /\ u.id = v.id /\ u.email = v.email /\ u.password = v.password
      /\ u.googleId = secret[r]
    BY <1>3, <1>4 DEF Rows
<1>6. CASE ~UniqueWith(u)
    <2>1. users' = users /\ session' = session /\ pc' = [pc EXCEPT ![r] = "failed"]
        BY <1>2, <1>6 DEF Refuse, Goto
    <2>2. Kept
        BY <2>1 DEF Kept
    <2> QED BY <1>1, <2>1, <2>2, QuietStep
<1>7. CASE UniqueWith(u)
    <2>1. /\ users' = (users \ {v}) \cup {u} /\ session' = [session EXCEPT ![r] = v.id]
          /\ pc' = [pc EXCEPT ![r] = "done"]
        BY <1>2, <1>5, <1>7 DEF Grant, Goto
    <2> HIDE DEF u
    <2>2. \A w \in users : w # v => w.id # v.id
        BY DEF IdsInv
    <2>3. Kept
        BY <1>3, <1>5, <2>1 DEF Kept
    <2>4. TypeOK'
        BY <1>1, <1>4, <1>5, <2>1 DEF TypeOK, Locations, Ended, Rows
    <2>5. IdsInv'
        <3>1. \A w, x \in users' : w.id = x.id => w = x
            BY <1>5, <2>1, <2>2 DEF IdsInv
        <3>2. \A w \in users' : pc'[w.id] = "done"
            BY <1>5, <2>1 DEF IdsInv, TypeOK, Rows
        <3> QED BY <3>1, <3>2 DEF IdsInv
    <2>6. ControlInv'
        BY <1>1, <2>1 DEF ControlInv, TypeOK
    <2>7. FoundInv'
        <3> SUFFICES ASSUME NEW q \in Requests, pc'[q] \in {"comparing", "linking"}
                     PROVE  \E w \in users' :
                              w.id = found[q].id /\ w.email = email[q]
                              /\ w.password = found[q].password
            BY <1>1 DEF FoundInv
        <3>1. pc[q] \in {"comparing", "linking"}
            BY <2>1 DEF TypeOK
        <3> QED BY <2>3, <3>1 DEF FoundInv, Kept
    <2>8. OneAccount'
        BY <1>5, <1>7, <2>1, <2>2 DEF OneAccount, UniqueWith
    <2>9. LinkVouched'
        BY <1>3, <1>4, <1>5, <2>1 DEF LinkVouched
    <2>10. SignupOwnsAccount'
        <3> SUFFICES ASSUME NEW q \in Requests, kind[q] = "signup", pc'[q] = "done"
                     PROVE  \E w \in users' :
                              w.id = q /\ w.email = email[q] /\ w.password = secret[q]
            BY <1>1 DEF SignupOwnsAccount, At
        <3>1. pc[q] = "done"
            BY <1>1, <2>1 DEF TypeOK
        <3> QED BY <2>3, <3>1 DEF SignupOwnsAccount, At, Kept
    <2>11. SessionsEarned'
        <3> SUFFICES ASSUME NEW q \in Requests, pc'[q] = "done"
                     PROVE  \E w \in users' :
                              /\ w.id = session'[q] /\ w.email = email[q]
                              /\ kind[q] = "login" => w.password = secret[q]
                              /\ kind[q] = "google" => w.googleId # None
            BY <1>1 DEF SessionsEarned
        <3>1. CASE q = r
            BY <1>1, <1>3, <1>4, <1>5, <2>1, <3>1 DEF TypeOK
        <3>2. CASE q # r
            <4>1. pc[q] = "done" /\ session'[q] = session[q]
                BY <2>1, <3>2 DEF TypeOK
            <4>2. PICK w \in users :
                    /\ w.id = session[q] /\ w.email = email[q]
                    /\ kind[q] = "login" => w.password = secret[q]
                    /\ kind[q] = "google" => w.googleId # None
                BY <4>1 DEF SessionsEarned
            <4> QED BY <2>3, <4>1, <4>2 DEF Kept
        <3> QED BY <3>1, <3>2
    <2> QED BY <2>3, <2>4, <2>5, <2>6, <2>7, <2>8, <2>9, <2>10, <2>11
<1> QED BY <1>6, <1>7

\* Every step preserves the invariant and keeps the accounts.
LEMMA NextInv == IndInv /\ [Next]_vars => IndInv' /\ (Kept \/ UNCHANGED vars)
<1> SUFFICES ASSUME IndInv, [Next]_vars PROVE IndInv' /\ (Kept \/ UNCHANGED vars)
    OBVIOUS
<1> USE DEF IndInv
<1>0. UNCHANGED users => Kept
    BY DEF Kept
<1>1. ASSUME NEW r \in Requests, NEW e \in Emails, NEW k \in {"signup", "login", "google"},
             NEW x \in Passwords \cup GoogleIds, Arrive(r, k, e, x)
      PROVE  IndInv' /\ Kept
    <2>1. /\ pc[r] = "new" /\ pc' = [pc EXCEPT ![r] = "start"]
          /\ kind' = [kind EXCEPT ![r] = k] /\ email' = [email EXCEPT ![r] = e]
          /\ secret' = [secret EXCEPT ![r] = x]
          /\ users' = users /\ found' = found /\ session' = session
          /\ IF k = "google" THEN <<x, e>> \in Tickets ELSE x \in Passwords
        BY <1>1 DEF Arrive, Goto
    <2>2. TypeOK'
        BY <2>1 DEF TypeOK, Locations, Ended
    <2>3. IdsInv'
        BY <2>1 DEF IdsInv, TypeOK, Rows
    <2>4. ControlInv'
        <3> SUFFICES ASSUME NEW q \in Requests, pc'[q] # "new"
                     PROVE  /\ email'[q] \in Emails
                            /\ kind'[q] \in {"signup", "login"} => secret'[q] \in Passwords
                            /\ kind'[q] = "google" => <<secret'[q], email'[q]>> \in Tickets
            BY DEF ControlInv
        <3>1. CASE q = r
            <4>1. kind'[q] = k /\ email'[q] = e /\ secret'[q] = x
                BY <2>1, <3>1 DEF TypeOK
            <4> QED BY <2>1, <4>1
        <3>2. CASE q # r
            BY <2>1, <3>2 DEF ControlInv, TypeOK
        <3> QED BY <3>1, <3>2
    <2>5. FoundInv'
        BY <2>1 DEF FoundInv, TypeOK
    <2>6. OneAccount' /\ LinkVouched'
        BY <2>1 DEF OneAccount, LinkVouched
    <2>7. SignupOwnsAccount' /\ SessionsEarned'
        BY <2>1 DEF SignupOwnsAccount, SessionsEarned, At, TypeOK
    <2> QED BY <1>0, <2>1, <2>2, <2>3, <2>4, <2>5, <2>6, <2>7
<1>2. ASSUME NEW r \in Requests, SignupFind(r) PROVE IndInv' /\ Kept
    BY <1>0, <1>2, QuietStep DEF SignupFind, At, Refuse, Goto, locals, Ended
<1>3. ASSUME NEW r \in Requests, SignupCreate(r) PROVE IndInv' /\ Kept
    <2> DEFINE u == [id |-> r, email |-> email[r], password |-> secret[r], googleId |-> None]
    <2>1. At(r, "signup", "hashing") /\ Insert(r, u) /\ UNCHANGED locals
        BY <1>3 DEF SignupCreate
    <2>2. u \in Rows
        BY <2>1 DEF ControlInv, At, Rows
    <2> QED BY <2>1, <2>2, InsertStep DEF At
<1>4. ASSUME NEW r \in Requests, LoginFind(r) PROVE IndInv' /\ Kept
    <2>1. pc[r] = "start" /\ pc[r] \notin Ended /\ users' = users
          /\ kind' = kind /\ email' = email /\ secret' = secret
        BY <1>4 DEF LoginFind, At, Ended
    <2>2. CASE Refuse(r) /\ UNCHANGED found
        BY <1>0, <2>1, <2>2, QuietStep DEF Refuse, Goto
    <2>3. ASSUME NEW u \in WithEmail(email[r]), found' = [found EXCEPT ![r] = u],
                 Goto(r, "comparing"), UNCHANGED session
          PROVE  IndInv' /\ Kept
        BY <1>0, <2>1, <2>3, RememberStep DEF WithEmail, Goto
    <2> QED BY <1>4, <2>2, <2>3 DEF LoginFind
<1>5. ASSUME NEW r \in Requests, LoginCompare(r) PROVE IndInv' /\ Kept
    <2>1. kind[r] = "login" /\ pc[r] = "comparing" /\ pc[r] \notin Ended /\ users' = users
          /\ kind' = kind /\ email' = email /\ secret' = secret /\ found' = found
        BY <1>5 DEF LoginCompare, At, locals, Ended
    <2>2. CASE secret[r] # found[r].password
        BY <1>0, <1>5, <2>1, <2>2, QuietStep DEF LoginCompare, Refuse, Goto
    <2>3. CASE secret[r] = found[r].password
        <3>1. PICK u \in users :
                u.id = found[r].id /\ u.email = email[r] /\ u.password = found[r].password
            BY <2>1 DEF FoundInv
        <3>2. Grant(r, u.id)
            BY <1>5, <2>3, <3>1 DEF LoginCompare
        <3>3. found[r] \in Rows \cup {None} /\ found' = [found EXCEPT ![r] = found[r]]
            BY <2>1 DEF TypeOK
        <3> QED BY <1>0, <2>1, <2>3, <3>1, <3>2, <3>3, GrantStep
    <2> QED BY <2>2, <2>3
<1>6. ASSUME NEW r \in Requests, GoogleFind(r) PROVE IndInv' /\ Kept
    <2>1. kind[r] = "google" /\ pc[r] = "start" /\ pc[r] \notin Ended /\ users' = users
          /\ kind' = kind /\ email' = email /\ secret' = secret
        BY <1>6 DEF GoogleFind, At, Ended
    <2>2. CASE Goto(r, "creating") /\ UNCHANGED <<found, session>>
        BY <1>0, <2>1, <2>2, QuietStep DEF Goto
    <2>3. ASSUME NEW u \in WithEmail(email[r]), found' = [found EXCEPT ![r] = u],
                 u.googleId = None, Goto(r, "linking"), UNCHANGED session
          PROVE  IndInv' /\ Kept
        BY <1>0, <2>1, <2>3, RememberStep DEF WithEmail, Goto
    <2>4. ASSUME NEW u \in WithEmail(email[r]), found' = [found EXCEPT ![r] = u],
                 u.googleId # None, Grant(r, u.id)
          PROVE  IndInv' /\ Kept
        <3>1. u \in users /\ u.email = email[r] /\ u \in Rows
            BY <2>4 DEF WithEmail, TypeOK
        <3> QED BY <1>0, <2>1, <2>4, <3>1, GrantStep
    <2> QED BY <1>6, <2>2, <2>3, <2>4 DEF GoogleFind
<1>7. ASSUME NEW r \in Requests, GoogleLink(r) PROVE IndInv' /\ Kept
    BY <1>7, LinkStep
<1>8. ASSUME NEW r \in Requests, GoogleCreate(r) PROVE IndInv' /\ Kept
    <2> DEFINE u == [id |-> r, email |-> email[r], password |-> None, googleId |-> secret[r]]
    <2>1. At(r, "google", "creating") /\ Insert(r, u) /\ UNCHANGED locals
        BY <1>8 DEF GoogleCreate
    <2>2. <<secret[r], email[r]>> \in Tickets
        BY <2>1 DEF ControlInv, At
    <2>3. secret[r] \in GoogleIds /\ email[r] \in Emails /\ secret[r] # None
        BY <2>2, TicketsAssumption, NoneAssumption
    <2>4. u \in Rows
        BY <2>3 DEF Rows
    <2> QED BY <2>1, <2>3, <2>4, InsertStep DEF At
<1>9. ASSUME NEW r \in Requests, Fail(r) PROVE IndInv' /\ Kept
    BY <1>0, <1>9, QuietStep DEF Fail, Refuse, Goto, locals, Ended
<1>10. CASE UNCHANGED vars
    BY <1>10 DEF vars, TypeOK, IdsInv, ControlInv, FoundInv, OneAccount, SignupOwnsAccount,
                 SessionsEarned, LinkVouched, At
<1> QED BY <1>1, <1>2, <1>3, <1>4, <1>5, <1>6, <1>7, <1>8, <1>9, <1>10
        DEF Next, Step, AllEnded

\* A request that has been answered is not touched again.
Settled ==
    \A q \in Requests : pc[q] = "done" =>
        /\ pc'[q] = "done" /\ kind'[q] = kind[q] /\ found'[q] = found[q]
        /\ secret'[q] = secret[q] /\ session'[q] = session[q]

\* An account keeps its identity, or is linked by a login that found it without one.
RowsKept ==
    \A u \in users : u \in users' \/ \E v \in users', q \in Requests : v.id = u.id /\ LinkedBy(q, v)'

\* Who is answered by the step has set the identity, or found one.
AnswerLinked ==
    \A q \in Requests : pc[q] # "done" /\ kind'[q] = "google" /\ pc'[q] = "done" =>
        \/ found'[q] \in Rows /\ found'[q].googleId # None
        \/ \E u \in users' : u.id = session'[q] /\ u.googleId = secret'[q]

\* These three are what a step has to do.
LEMMA RaceStep ==
    ASSUME LinkLostOnlyInRace, Settled, RowsKept, AnswerLinked
    PROVE  LinkLostOnlyInRace'
<1> SUFFICES ASSUME NEW r \in Requests, At(r, "google", "done")',
                    found'[r] \in Rows => found'[r].googleId = None
             PROVE  \E u \in users' :
                      /\ u.id = session'[r]
                      /\ u.googleId = secret'[r] \/ \E q \in Requests : LinkedBy(q, u)'
    BY DEF LinkLostOnlyInRace
<1>1. CASE pc[r] # "done"
    BY <1>1 DEF AnswerLinked, At
<1>2. CASE pc[r] = "done"
    <2>1. /\ At(r, "google", "done") /\ found[r] = found'[r]
          /\ secret'[r] = secret[r] /\ session'[r] = session[r]
        BY <1>2 DEF Settled, At
    <2>2. PICK u \in users : /\ u.id = session[r]
                             /\ u.googleId = secret[r] \/ \E q \in Requests : LinkedBy(q, u)
        BY <2>1 DEF LinkLostOnlyInRace
    <2>3. \A q \in Requests : LinkedBy(q, u) => LinkedBy(q, u)'
        BY DEF LinkedBy, At, Settled
    <2> QED BY <2>1, <2>2, <2>3 DEF RowsKept
<1> QED BY <1>1, <1>2

\* Every step keeps the links but for races.
LEMMA NextRace == IndInv /\ RaceInv /\ [Next]_vars => RaceInv'
<1> SUFFICES ASSUME IndInv, RaceInv, [Next]_vars PROVE RaceInv'
    OBVIOUS
<1>0. TypeOK /\ LinkLostOnlyInRace
    BY DEF IndInv, RaceInv
<1>1. ASSUME NEW r \in Requests, pc[r] # "done", pc' = [pc EXCEPT ![r] = pc'[r]],
             pc'[r] = "linking" => found'[r] \in Rows /\ found'[r].googleId = None,
             \A q \in Requests \ {r} :
                 /\ kind'[q] = kind[q] /\ found'[q] = found[q]
                 /\ secret'[q] = secret[q] /\ session'[q] = session[q],
             RowsKept, AnswerLinked
      PROVE  RaceInv'
    <2>1. \A q \in Requests \ {r} : pc'[q] = pc[q]
        BY <1>0, <1>1 DEF TypeOK
    <2>2. Settled
        BY <1>1, <2>1 DEF Settled
    <2>3. LinkLostOnlyInRace'
        BY <1>0, <1>1, <2>2, RaceStep
    <2> QED BY <1>1, <2>1, <2>3 DEF RaceInv
<1>2. users' = users => RowsKept
    BY DEF RowsKept
<1>3. ASSUME NEW r \in Requests, NEW e \in Emails, NEW k \in {"signup", "login", "google"},
             NEW x \in Passwords \cup GoogleIds, Arrive(r, k, e, x)
      PROVE  RaceInv'
    <2>1. pc[r] = "new" /\ pc' = [pc EXCEPT ![r] = "start"] /\ pc'[r] = "start"
        BY <1>0, <1>3 DEF Arrive, Goto, TypeOK
    <2>2. AnswerLinked
        BY <1>0, <2>1 DEF AnswerLinked, TypeOK
    <2>3. \A q \in Requests \ {r} :
                 /\ kind'[q] = kind[q] /\ found'[q] = found[q]
                 /\ secret'[q] = secret[q] /\ session'[q] = session[q]
        BY <1>0, <1>3 DEF Arrive, TypeOK
    <2>4. users' = users
        BY <1>3 DEF Arrive
    <2> QED BY <1>1, <1>2, <2>1, <2>2, <2>3, <2>4
<1>4. ASSUME NEW r \in Requests, SignupFind(r) \/ LoginFind(r) \/ LoginCompare(r) \/ Fail(r)
      PROVE  RaceInv'
    <2>1. /\ pc[r] # "done" /\ users' = users /\ kind' = kind /\ secret' = secret
          /\ \E loc \in {"failed", "hashing", "comparing", "done"} : pc' = [pc EXCEPT ![r] = loc]
          /\ \A q \in Requests \ {r} : found'[q] = found[q] /\ session'[q] = session[q]
        BY <1>0, <1>4 DEF SignupFind, LoginFind, LoginCompare, Fail, Refuse, Grant, Goto, At,
                          locals, TypeOK, Ended
    <2>2. kind[r] = "google" => pc' = [pc EXCEPT ![r] = "failed"]
        BY <1>4 DEF SignupFind, LoginFind, LoginCompare, Fail, Refuse, Goto, At
    <2>3. pc' = [pc EXCEPT ![r] = pc'[r]] /\ pc'[r] # "linking"
        BY <1>0, <2>1 DEF TypeOK
    <2>4. AnswerLinked
        BY <1>0, <2>1, <2>2 DEF AnswerLinked, TypeOK
    <2> QED BY <1>1, <1>2, <2>1, <2>3, <2>4
<1>5. ASSUME NEW r \in Requests, GoogleFind(r) PROVE RaceInv'
    <2>1. /\ kind[r] = "google" /\ pc[r] = "start" /\ users' = users
          /\ kind' = kind /\ secret' = secret
          /\ \A q \in Requests \ {r} : found'[q] = found[q] /\ session'[q] = session[q]
        BY <1>0, <1>5 DEF GoogleFind, Grant, Goto, At, TypeOK
    <2>2. \/ pc' = [pc EXCEPT ![r] = "creating"]
          \/ \E u \in users : /\ found' = [found EXCEPT ![r] = u]
                              /\ IF u.googleId = None THEN pc' = [pc EXCEPT ![r] = "linking"]
                                                      ELSE pc' = [pc EXCEPT ![r] = "done"]
        BY <1>5 DEF GoogleFind, Grant, Goto, WithEmail
    <2>3. \/ pc'[r] = "creating"
          \/ /\ found'[r] \in Rows
             /\ IF found'[r].googleId = None THEN pc'[r] = "linking" ELSE pc'[r] = "done"
        BY <1>0, <2>2 DEF TypeOK
    <2>4. pc' = [pc EXCEPT ![r] = pc'[r]]
        BY <1>0, <2>2 DEF TypeOK
    <2>5. AnswerLinked
        BY <1>0, <2>1, <2>3, <2>4 DEF AnswerLinked, TypeOK
    <2> QED BY <1>1, <1>2, <2>1, <2>3, <2>4, <2>5
<1>6. ASSUME NEW r \in Requests, GoogleLink(r) PROVE RaceInv'
    <2>1. /\ kind[r] = "google" /\ pc[r] = "linking" /\ found[r] \in Rows
          /\ found[r].googleId = None /\ UNCHANGED locals
        BY <1>6 DEF GoogleLink, At, RaceInv
    <2>2. PICK v \in users :
            /\ v.id = found[r].id
            /\ LET u == [v EXCEPT !.googleId = secret[r]]
               IN  IF UniqueWith(u) THEN users' = (users \ {v}) \cup {u} /\ Grant(r, u.id)
                                    ELSE UNCHANGED users /\ Refuse(r)
        BY <1>6 DEF GoogleLink
    <2>3. \A q \in Requests \ {r} :
                 /\ kind'[q] = kind[q] /\ found'[q] = found[q]
                 /\ secret'[q] = secret[q] /\ session'[q] = session[q]
        BY <1>0, <2>1, <2>2 DEF locals, Grant, Refuse, TypeOK
    <2>4. PICK u : u = [v EXCEPT !.googleId = secret[r]]
        OBVIOUS
    <2>5. u.id = v.id /\ u.googleId = secret[r]
        BY <1>0, <2>4 DEF TypeOK, Rows
    <2>6. CASE ~UniqueWith(u)
        <3>1. users' = users /\ pc' = [pc EXCEPT ![r] = "failed"] /\ pc'[r] = "failed"
            BY <1>0, <2>2, <2>4, <2>6 DEF Refuse, Goto, TypeOK
        <3>2. AnswerLinked
            BY <1>0, <3>1 DEF AnswerLinked, TypeOK
        <3> QED BY <1>1, <1>2, <2>1, <2>3, <3>1, <3>2
    <2>7. CASE UniqueWith(u)
        <3>1. /\ users' = (users \ {v}) \cup {u} /\ pc' = [pc EXCEPT ![r] = "done"]
              /\ session' = [session EXCEPT ![r] = u.id]
            BY <2>2, <2>4, <2>7 DEF Grant, Goto
        <3>2. pc'[r] = "done" /\ session'[r] = u.id /\ \A q \in Requests \ {r} : pc'[q] = pc[q]
            BY <1>0, <3>1 DEF TypeOK
        <3>3. LinkedBy(r, u)'
            BY <2>1, <2>2, <2>5, <3>2 DEF LinkedBy, At, locals
        <3>4. RowsKept
            BY <2>5, <3>1, <3>3 DEF RowsKept
        <3>5. AnswerLinked
            BY <2>1, <2>5, <3>1, <3>2 DEF AnswerLinked, locals
        <3> QED BY <1>1, <2>1, <2>3, <3>1, <3>2, <3>4, <3>5
    <2> QED BY <2>6, <2>7
<1>7. ASSUME NEW r \in Requests, NEW u, u.id = r, kind[r] = "google" => u.googleId = secret[r],
             pc[r] # "done", Insert(r, u), UNCHANGED locals
      PROVE  RaceInv'
    <2>1. \A q \in Requests \ {r} :
                 /\ kind'[q] = kind[q] /\ found'[q] = found[q]
                 /\ secret'[q] = secret[q] /\ session'[q] = session[q]
        BY <1>0, <1>7 DEF Insert, locals, Grant, Refuse, TypeOK
    <2>2. users \subseteq users'
        BY <1>7 DEF Insert
    <2>3. \/ pc' = [pc EXCEPT ![r] = "failed"]
          \/ /\ pc' = [pc EXCEPT ![r] = "done"] /\ u \in users'
             /\ session' = [session EXCEPT ![r] = u.id]
        BY <1>7 DEF Insert, Grant, Refuse, Goto
    <2>4. /\ pc' = [pc EXCEPT ![r] = pc'[r]] /\ pc'[r] \in Ended
          /\ \A q \in Requests \ {r} : pc'[q] = pc[q]
          /\ pc'[r] = "done" => u \in users' /\ session'[r] = u.id
        BY <1>0, <2>3 DEF TypeOK, Ended
    <2>5. AnswerLinked
        BY <1>7, <2>4 DEF AnswerLinked, locals
    <2> QED BY <1>1, <1>7, <2>1, <2>2, <2>4, <2>5 DEF RowsKept, Ended
<1>8. ASSUME NEW r \in Requests, SignupCreate(r) \/ GoogleCreate(r) PROVE RaceInv'
    <2>1. CASE SignupCreate(r)
        <3> DEFINE u == [id |-> r, email |-> email[r], password |-> secret[r], googleId |-> None]
        <3>1. /\ u.id = r /\ kind[r] = "signup" /\ pc[r] = "hashing"
              /\ Insert(r, u) /\ UNCHANGED locals
            BY <2>1 DEF SignupCreate, At
        <3> HIDE DEF u
        <3> QED BY <1>7, <3>1
    <2>2. CASE GoogleCreate(r)
        <3> DEFINE u == [id |-> r, email |-> email[r], password |-> None, googleId |-> secret[r]]
        <3>1. /\ u.id = r /\ u.googleId = secret[r] /\ pc[r] = "creating"
              /\ Insert(r, u) /\ UNCHANGED locals
            BY <2>2 DEF GoogleCreate, At
        <3> HIDE DEF u
        <3> QED BY <1>7, <3>1
    <2> QED BY <1>8, <2>1, <2>2
<1>9. CASE UNCHANGED vars
    BY <1>9 DEF vars, RaceInv, LinkLostOnlyInRace, LinkedBy, At
<1> QED BY <1>3, <1>4, <1>5, <1>6, <1>8, <1>9 DEF Next, Step, AllEnded

\* The invariant holds throughout.
THEOREM IndInvHolds == Spec => []IndInv
<1>1. IndInv /\ [Next]_vars => IndInv'
    BY NextInv
<1> QED BY <1>1, InitInv, PTL DEF Spec

\* Type correctness of the User table and of every request's locals.
THEOREM TypeCorrect == Spec => []TypeOK
<1>1. IndInv => TypeOK
    BY DEF IndInv
<1> QED BY <1>1, IndInvHolds, PTL

\* However signup and googleLogin overlap, there is one account per e-mail and
\* per Google identity.
THEOREM OneAccountTheorem == Spec => []OneAccount
<1>1. IndInv => OneAccount
    BY DEF IndInv
<1> QED BY <1>1, IndInvHolds, PTL

\* A signup that is answered with 201 owns the account.
THEOREM SignupTheorem == Spec => []SignupOwnsAccount
<1>1. IndInv => SignupOwnsAccount
    BY DEF IndInv
<1> QED BY <1>1, IndInvHolds, PTL

\* A token of login or googleLogin names the account whose password or e-mail
\* was shown.
THEOREM SessionsTheorem == Spec => []SessionsEarned
<1>1. IndInv => SessionsEarned
    BY DEF IndInv
<1> QED BY <1>1, IndInvHolds, PTL

\* googleLogin stores an identity only with an e-mail that Google vouches for,
\* also when it links an account that it read before an await.
THEOREM LinkTheorem == Spec => []LinkVouched
<1>1. IndInv => LinkVouched
    BY DEF IndInv
<1> QED
    BY <1>1, IndInvHolds, PTL

\* googleLogin replaces the identity that another login gave to an account only if
\* it looked the account up before: the stale `!user.googleId` loses no other link.
THEOREM RaceTheorem == Spec => []LinkLostOnlyInRace
<1>1. Init => RaceInv
    BY DEF Init, RaceInv, LinkLostOnlyInRace, At
<1>2. RaceInv => LinkLostOnlyInRace
    BY DEF RaceInv
<1> QED BY <1>1, <1>2, IndInvHolds, NextRace, PTL DEF Spec

\* No step of a handler removes an account, changes its e-mail or password, or
\* cuts its link to Google.
THEOREM AccountsKeptTheorem == Spec => AccountsKept
<1>1. IndInv /\ [Next]_vars =>
        [\A u \in users : \E v \in users' :
          /\ v.id = u.id /\ v.email = u.email /\ v.password = u.password
          /\ u.googleId # None => v.googleId # None]_vars
    BY NextInv DEF Kept
<1> QED BY <1>1, IndInvHolds, PTL DEF Spec, AccountsKept
=============================================================================
