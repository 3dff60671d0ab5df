------------------------------ MODULE Accounts -------------------------------
(***************************************************************************)
(* Accounts: signup, login and googleLogin on the User table.              *)
(*                                                                         *)
(* Each handler looks the e-mail up, does something slow (bcrypt, Google)  *)
(* and then acts on what it found; one action is one awaited database call *)
(* with the synchronous code up to the next.  Two requests for the same    *)
(* e-mail overlap anywhere in between.  Rows are named by the request that *)
(* inserted them, since ids are fresh UUIDs; column `provider` is written  *)
(* and never read.                                                         *)
(***************************************************************************)
EXTENDS Naturals, FiniteSets

CONSTANTS
    Requests,    \* HTTP requests; each is served once
    Emails,
    Passwords,
    GoogleIds,   \* payload.sub
    Tickets,     \* pairs <<googleId, email>> that Google vouches for
    None         \* NULL in a column, and no row

ASSUME TicketsAssumption == Tickets \subseteq GoogleIds \X Emails
ASSUME NoneAssumption ==
    None \notin Requests /\ None \notin Emails /\ None \notin Passwords /\ None \notin GoogleIds

VARIABLES
    users,       \* table User
    pc,          \* the await a request is at
    kind,        \* the route it is on
    email,       \* the e-mail in its body or ticket
    secret,      \* its password, or the googleId of its ticket
    found,       \* the row its lookup returned
    session      \* the account its token names

locals == <<kind, email, secret, found>>
vars == <<users, pc, kind, email, secret, found, session>>

Rows == [id : Requests, email : Emails, password : Passwords \cup {None},
         googleId : GoogleIds \cup {None}]
Ended == {"done", "failed"}
Locations == {"new", "start", "hashing", "comparing", "linking", "creating"} \cup Ended

TypeOK ==
    /\ users \subseteq Rows
    /\ pc \in [Requests -> Locations]
    /\ kind \in [Requests -> {"signup", "login", "google", None}]
    /\ email \in [Requests -> Emails \cup {None}]
    /\ secret \in [Requests -> Passwords \cup GoogleIds \cup {None}]
    /\ found \in [Requests -> Rows \cup {None}]
    /\ session \in [Requests -> Requests \cup {None}]

Init ==
    /\ users = {}
    /\ pc = [r \in Requests |-> "new"]
    /\ kind = [r \in Requests |-> None]
    /\ email = [r \in Requests |-> None]
    /\ secret = [r \in Requests |-> None]
    /\ found = [r \in Requests |-> None]
    /\ session = [r \in Requests |-> None]

Goto(r, loc) == pc' = [pc EXCEPT ![r] = loc]
At(r, k, loc) == kind[r] = k /\ pc[r] = loc

\* A token for account id, which ends the request.
Grant(r, id) ==
    /\ session' = [session EXCEPT ![r] = id]
    /\ Goto(r, "done")

Refuse(r) == Goto(r, "failed") /\ UNCHANGED session

\* Mutant: the where clause is lost.
WithEmailAny(e) == users

\* findUnique by e-mail.
WithEmail(e) == {u \in users : u.email = e}

-----------------------------------------------------------------------------
(* The User table                                                          *)

\* Mutant: column googleId is not unique.
UniqueEmailOnly(u) == \A v \in users : v.id # u.id => v.email # u.email

\* The unique columns, with row u inserted or updated.
UniqueWith(u) ==
    \A v \in users : v.id # u.id =>
        /\ v.email # u.email
        /\ u.googleId # None => v.googleId # u.googleId

\* prisma.user.create: rejected when a unique column is taken.
Insert(r, u) ==
    IF UniqueWith(u) THEN users' = users \cup {u} /\ Grant(r, u.id)
                     ELSE UNCHANGED users /\ Refuse(r)

-----------------------------------------------------------------------------
(* Requests                                                                *)

\* A body that passes validation, or a ticket that Google vouches for.
Arrive(r, k, e, x) ==
    /\ pc[r] = "new"
    /\ IF k = "google" THEN <<x, e>> \in Tickets ELSE x \in Passwords
    /\ Goto(r, "start")
    /\ kind' = [kind EXCEPT ![r] = k]
    /\ email' = [email EXCEPT ![r] = e]
    /\ secret' = [secret EXCEPT ![r] = x]
    /\ UNCHANGED <<users, found, session>>

\* signup: findUnique, 400 when the e-mail is known.
SignupFind(r) ==
    /\ At(r, "signup", "start")
    /\ IF WithEmail(email[r]) # {} THEN Refuse(r) ELSE Goto(r, "hashing") /\ UNCHANGED session
    /\ UNCHANGED <<users, locals>>

\* Mutant: an upsert, which takes over an account made in the meantime.
SignupCreateUpsert(r) ==
    /\ At(r, "signup", "hashing")
    /\ users' = IF WithEmail(email[r]) # {}
                THEN {IF u.email = email[r] THEN [u EXCEPT !.password = secret[r]] ELSE u : u \in users}
                ELSE users \cup {[id |-> r, email |-> email[r], password |-> secret[r], googleId |-> None]}
    /\ Grant(r, IF WithEmail(email[r]) # {} THEN (CHOOSE u \in WithEmail(email[r]) : TRUE).id ELSE r)
    /\ UNCHANGED locals

\* After bcrypt: create, and a token for the new row.
SignupCreate(r) ==
    /\ At(r, "signup", "hashing")
    /\ Insert(r, [id |-> r, email |-> email[r], password |-> secret[r], googleId |-> None])
    /\ UNCHANGED locals

\* login: 401 without a row, and for a row without a password.
LoginFind(r) ==
    /\ At(r, "login", "start")
    /\ \/ /\ \A u \in WithEmail(email[r]) : u.password = None
          /\ Refuse(r)
          /\ UNCHANGED found
       \/ \E u \in WithEmail(email[r]) :
            /\ u.password # None
            /\ found' = [found EXCEPT ![r] = u]
            /\ Goto(r, "comparing")
            /\ UNCHANGED session
    /\ UNCHANGED <<users, kind, email, secret>>

\* Mutant: the result of bcrypt.compare is not looked at.
LoginCompareAlways(r) ==
    /\ At(r, "login", "comparing")
    /\ Grant(r, found[r].id)
    /\ UNCHANGED <<users, locals>>

\* bcrypt.compare with the row that was read.
LoginCompare(r) ==
    /\ At(r, "login", "comparing")
    /\ IF secret[r] = found[r].password THEN Grant(r, found[r].id) ELSE Refuse(r)
    /\ UNCHANGED <<users, locals>>

\* Mutant: the account is linked again at every login.
GoogleFindRelinks(r) ==
    /\ At(r, "google", "start")
    /\ \/ /\ WithEmail(email[r]) = {}
          /\ Goto(r, "creating")
          /\ UNCHANGED found
       \/ \E u \in WithEmail(email[r]) :
            /\ found' = [found EXCEPT ![r] = u]
            /\ Goto(r, "linking")
    /\ UNCHANGED <<users, kind, email, secret, session>>

\* googleLogin: the e-mail decides which account it is; one that is linked is
\* let in, whichever Google identity it is linked to.
GoogleFind(r) ==
    /\ At(r, "google", "start")
    /\ \/ /\ WithEmail(email[r]) = {}
          /\ Goto(r, "creating")
          /\ UNCHANGED <<found, session>>
       \/ \E u \in WithEmail(email[r]) :
            /\ found' = [found EXCEPT ![r] = u]
            /\ IF u.googleId = None THEN Goto(r, "linking") /\ UNCHANGED session
                                    ELSE Grant(r, u.id)
    /\ UNCHANGED <<users, kind, email, secret>>

\* Mutant: linking writes back the whole row that was read, as a Google account.
GoogleLinkClearing(r) ==
    LET u == [found[r] EXCEPT !.googleId = secret[r], !.password = None]
    IN  /\ At(r, "google", "linking")
        /\ users' = {IF v.id = u.id THEN u ELSE v : v \in users}
        /\ Grant(r, u.id)
        /\ UNCHANGED locals

\* update by id: sets googleId, whatever is in it by now.
GoogleLink(r) ==
    /\ At(r, "google", "linking")
    /\ \E v \in users :
        /\ v.id = found[r].id
        /\ LET u == [v EXCEPT !.googleId = secret[r]]
           IN  IF UniqueWith(u) THEN users' = (users \ {v}) \cup {u} /\ Grant(r, u.id)
                                ELSE UNCHANGED users /\ Refuse(r)
    /\ UNCHANGED locals

\* Mutant: the columns are mixed up.
GoogleCreateMixed(r) ==
    /\ At(r, "google", "creating")
    /\ Insert(r, [id |-> r, email |-> email[r], password |-> secret[r], googleId |-> None])
    /\ UNCHANGED locals

\* No account yet: create one without a password.
GoogleCreate(r) ==
    /\ At(r, "google", "creating")
    /\ Insert(r, [id |-> r, email |-> email[r], password |-> None, googleId |-> secret[r]])
    /\ UNCHANGED locals

\* Bad input, a ticket that does not verify, a database or bcrypt error, or
\* the end of the process.
Fail(r) ==
    /\ pc[r] \notin {"new"} \cup Ended
    /\ Refuse(r)
    /\ UNCHANGED <<users, locals>>

Step(r) ==
    \/ SignupFind(r)
    \/ SignupCreate(r)
    \/ LoginFind(r)
    \/ LoginCompare(r)
    \/ GoogleFind(r)
    \/ GoogleLink(r)
    \/ GoogleCreate(r)

AllEnded == (\A r \in Requests : pc[r] \in Ended) /\ UNCHANGED vars

Next ==
    \/ \E r \in Requests, e \in Emails, k \in {"signup", "login", "google"},
          x \in Passwords \cup GoogleIds : Arrive(r, k, e, x)
    \/ \E r \in Requests : Step(r)
    \/ \E r \in Requests : Fail(r)
    \/ AllEnded

Spec == Init /\ [][Next]_vars

-----------------------------------------------------------------------------
(* Properties                                                              *)

\* However signups and Google logins overlap, there is one account per e-mail
\* and per Google identity.
OneAccount ==
    \A u, v \in users :
        u.email = v.email \/ (u.googleId # None /\ u.googleId = v.googleId) => u = v

\* Who is told 201 by signup owns the account: of two overlapping signups the
\* one that comes second is not let into the other's account, and its password
\* does not replace the other's.
SignupOwnsAccount ==
    \A r \in Requests : At(r, "signup", "done") =>
        \E u \in users : u.id = r /\ u.email = email[r] /\ u.password = secret[r]

\* A token names an existing account with the e-mail of the request that got it,
\* and a login gets one only with that account's password of now, although it
\* compared a row that it had read earlier.
SessionsEarned ==
    \A r \in Requests : pc[r] = "done" =>
        \E u \in users :
            /\ u.id = session[r] /\ u.email = email[r]
            /\ kind[r] = "login" => u.password = secret[r]
            /\ kind[r] = "google" => u.googleId # None

\* An account's Google identity is one that Google vouches for with its e-mail.
LinkVouched == \A u \in users : u.googleId # None => <<u.googleId, u.email>> \in Tickets

\* Accounts stay: their e-mail and their password never change, so that linking
\* Google to a local account keeps its password login, and a link is never cut.
AccountsKept ==
    [][\A u \in users : \E v \in users' :
          /\ v.id = u.id /\ v.email = u.email /\ v.password = u.password
          /\ u.googleId # None => v.googleId # None]_vars

\* The login q found the account u without a Google identity, and linked its own.
LinkedBy(q, u) ==
    /\ At(q, "google", "done") /\ found[q] \in Rows
    /\ found[q].id = u.id /\ found[q].googleId = None /\ secret[q] = u.googleId

\* googleLogin: "Update user with googleId if they don't have it (linking account)".
\* The Google identity that a login has given to an account, by creating or linking
\* it, is replaced by none but a login that looked the account up before it had one:
\* of two overlapping ones the second wins; a later one never does.
LinkLostOnlyInRace ==
    \A r \in Requests :
        At(r, "google", "done") /\ (found[r] \in Rows => found[r].googleId = None) =>
            \E u \in users : /\ u.id = session[r]
                             /\ u.googleId = secret[r] \/ \E q \in Requests : LinkedBy(q, u)

-----------------------------------------------------------------------------
(* The inductive invariant                                                 *)

\* Ids are those of the requests that inserted the row, once.
IdsInv ==
    /\ \A u, v \in users : u.id = v.id => u = v
    /\ \A u \in users : pc[u.id] = "done"

\* What a request carries.
ControlInv ==
    \A r \in Requests :
        /\ pc[r] # "new" => email[r] \in Emails
        /\ pc[r] # "new" /\ kind[r] \in {"signup", "login"} => secret[r] \in Passwords
        /\ pc[r] # "new" /\ kind[r] = "google" => <<secret[r], email[r]>> \in Tickets

\* The row a request has read is still there, up to its Google identity.
FoundInv ==
    \A r \in Requests : pc[r] \in {"comparing", "linking"} =>
        \E u \in users :
            u.id = found[r].id /\ u.email = email[r] /\ u.password = found[r].password

IndInv ==
    /\ TypeOK
    /\ IdsInv
    /\ ControlInv
    /\ FoundInv
    /\ OneAccount
    /\ SignupOwnsAccount
    /\ SessionsEarned
    /\ LinkVouched

\* What LinkLostOnlyInRace rests on: who links found the account without an identity.
RaceInv ==
    /\ \A r \in Requests : pc[r] = "linking" => found[r] \in Rows /\ found[r].googleId = None
    /\ LinkLostOnlyInRace
=============================================================================
