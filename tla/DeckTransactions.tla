-------------------------- MODULE DeckTransactions ---------------------------
(***************************************************************************)
(* The presentation endpoints at the level of their database statements:   *)
(* updatePresentation, deletePresentation, createShareLink, the reads      *)
(* getPresentationById, exportToPptx and getSharedPresentation, and the    *)
(* nested create that createPresentation, useTemplate and                  *)
(* convertPptToPresentation share.                                         *)
(*                                                                         *)
(* PostgreSQL runs them at READ COMMITTED.  A statement sees what was      *)
(* committed when it started, waits for rows another open transaction has  *)
(* written, and drops the rows that are gone when it goes on.  `slides`,   *)
(* `status`, `title` and `tokens` are the committed tables; what an open   *)
(* transaction has done so far is its pc and `del`.                        *)
(***************************************************************************)
EXTENDS Naturals, FiniteSets

CONSTANTS Pids, Requests, NoRequest, ClientOf, OwnerOf, DeckSize

ASSUME PidsAssumption == Pids # {}
ASSUME RequestsFinite == IsFiniteSet(Requests)
ASSUME NoRequestAssumption == NoRequest \notin Requests
ASSUME DeckSizeAssumption == DeckSize \in [Requests -> Nat]

VARIABLES
    status,      \* table Presentation: has the id a row, or had it one
    title,       \* column Presentation.title, as the request that wrote it
    slides,      \* table Slide
    tokens,      \* table ShareToken
    stamp,       \* history: the rank of a committed write among all writes
    pc,          \* the statement a request is at
    op,          \* the endpoint it is for
    target,      \* the id in its URL
    todo,        \* rows the snapshot of its deleteMany found
    del,         \* rows its open transaction has deleted
    seenTitle,   \* what a read has got so far: the title ...
    seen         \* ... and the slides

tables == <<status, title, slides, tokens, stamp>>
locals == <<op, target, todo, del, seenTitle, seen>>
vars == <<status, title, slides, tokens, stamp, pc, op, target, todo, del, seenTitle, seen>>

Reads == {"load", "export", "shared"}
Ops == {"create", "save", "delete", "share"} \cup Reads
Ended == {"done", "failed"}
Locations == {"new", "start", "found", "titled", "listed", "cleared", "filled",
              "unlinking", "unlinked", "linked", "reading"} \cup Ended
SlideRows == {s \in [pid : Pids, by : Requests, pos : Nat] : s.pos < DeckSize[s.by]}
TokenRows == [pid : Pids, by : Requests]

TypeOK ==
    /\ status \in [Pids -> {"unused", "live", "gone"}]
    /\ title \in [Pids -> Requests \cup {NoRequest}]
    /\ slides \subseteq SlideRows
    /\ tokens \subseteq TokenRows
    /\ stamp \in [Requests -> Nat]
    /\ pc \in [Requests -> Locations]
    /\ op \in [Requests -> Ops]
    /\ target \in [Requests -> Pids]
    /\ todo \in [Requests -> SUBSET SlideRows]
    /\ del \in [Requests -> SUBSET SlideRows]
    /\ seenTitle \in [Requests -> Requests \cup {NoRequest}]
    /\ seen \in [Requests -> SUBSET SlideRows]

Init ==
    /\ status = [p \in Pids |-> "unused"]
    /\ title = [p \in Pids |-> NoRequest]
    /\ slides = {}
    /\ tokens = {}
    /\ stamp = [r \in Requests |-> 0]
    /\ pc = [r \in Requests |-> "new"]
    /\ op = [r \in Requests |-> "load"]
    /\ target = [r \in Requests |-> CHOOSE p \in Pids : TRUE]
    /\ todo = [r \in Requests |-> {}]
    /\ del = [r \in Requests |-> {}]
    /\ seenTitle = [r \in Requests |-> NoRequest]
    /\ seen = [r \in Requests |-> {}]

Goto(r, loc) == pc' = [pc EXCEPT ![r] = loc]
At(r, o, loc) == op[r] = o /\ pc[r] = loc
Owner(r) == ClientOf[r] = OwnerOf[target[r]]
SlidesOf(p) == {s \in slides : s.pid = p}
TokensOf(p) == {t \in tokens : t.pid = p}

\* Mutant: the loop over the body runs once too often.
DeckOneMore(r, p) == {[pid |-> p, by |-> r, pos |-> i] : i \in 0..DeckSize[r]}

\* The rows that the slides in r's body become, by their position in the array;
\* index, layout and content are what the body says and stay abstract.
Deck(r, p) == {[pid |-> p, by |-> r, pos |-> i] : i \in 0..(DeckSize[r] - 1)}

\* The writes to the presentation table and the slides are one commit; its
\* rank is history only.
Stamped(r) == stamp' = [stamp EXCEPT ![r] = Cardinality({q \in Requests : stamp[q] > 0}) + 1]

-----------------------------------------------------------------------------
(* Locks                                                                   *)

\* An open save holds the presentation's row from its UPDATE on, an open
\* delete from its DELETE on.
Saving(r) == op[r] = "save" /\ pc[r] \in {"titled", "listed", "cleared", "filled"}
Unlinking(r) == op[r] = "delete" /\ pc[r] \in {"unlinking", "unlinked"}
HoldsRow(r) == Saving(r) \/ Unlinking(r)

\* The transactions that r's next statement waits for.  Inserting a row that
\* refers to a presentation conflicts with deleting it, not with updating its
\* title; checking that nothing refers to it reads the referring rows.
Blockers(r) ==
    {q \in Requests \ {r} :
        /\ target[q] = target[r]
        /\ \/ (At(r, "save", "found") \/ At(r, "delete", "cleared")) /\ HoldsRow(q)
           \/ At(r, "share", "found") /\ Unlinking(q)
           \/ pc[r] = "listed" /\ todo[r] \cap del[q] # {}
           \/ pc[r] = "unlinking" /\ (SlidesOf(target[r]) \ del[r]) \cap del[q] # {}}

\* Rollback, which forgets the transaction's writes and locks.
Abort(r) ==
    /\ Goto(r, "failed")
    /\ todo' = [todo EXCEPT ![r] = {}]
    /\ del' = [del EXCEPT ![r] = {}]
    /\ UNCHANGED <<tables, op, target, seenTitle, seen>>

-----------------------------------------------------------------------------
(* Requests                                                                *)

\* A request comes in.  The id of a presentation to create is a fresh UUID.
Arrive(r, o, p) ==
    /\ pc[r] = "new"
    /\ o = "create" =>
         /\ status[p] = "unused" /\ ClientOf[r] = OwnerOf[p]
         /\ \A q \in Requests : ~(At(q, "create", "start") /\ target[q] = p)
    /\ Goto(r, "start")
    /\ op' = [op EXCEPT ![r] = o]
    /\ target' = [target EXCEPT ![r] = p]
    /\ UNCHANGED <<tables, todo, del, seenTitle, seen>>

\* prisma.presentation.create with nested slides: one transaction under a fresh id.
Create(r) ==
    /\ At(r, "create", "start")
    /\ status' = [status EXCEPT ![target[r]] = "live"]
    /\ title' = [title EXCEPT ![target[r]] = r]
    /\ slides' = slides \cup Deck(r, target[r])
    /\ Stamped(r)
    /\ Goto(r, "done")
    /\ UNCHANGED <<tokens, locals>>

\* Mutant: a missing presentation is not answered.
FindNoReply(r) ==
    /\ op[r] \in {"save", "delete", "share"} /\ pc[r] = "start"
    /\ status[target[r]] = "live"
    /\ Goto(r, IF Owner(r) THEN "found" ELSE "failed")
    /\ UNCHANGED <<tables, locals>>

\* Mutant: the owner is not compared.
FindNoOwner(r) ==
    /\ op[r] \in {"save", "delete", "share"} /\ pc[r] = "start"
    /\ Goto(r, IF status[target[r]] = "live" THEN "found" ELSE "failed")
    /\ UNCHANGED <<tables, locals>>

\* The lookup before the transaction: 404 or 403.
Find(r) ==
    /\ op[r] \in {"save", "delete", "share"} /\ pc[r] = "start"
    /\ Goto(r, IF status[target[r]] = "live" /\ Owner(r) THEN "found" ELSE "failed")
    /\ UNCHANGED <<tables, locals>>

\* Mutant: the transaction does not begin with the UPDATE of the title.
SaveTitleNoLock(r) ==
    /\ At(r, "save", "found")
    /\ Goto(r, "titled")
    /\ UNCHANGED <<tables, locals>>

\* tx.presentation.update: takes the row, or rejects when it is gone.  The body
\* carries a title: for an undefined one Prisma has nothing to write.
SaveTitle(r) ==
    /\ At(r, "save", "found") /\ Blockers(r) = {}
    /\ Goto(r, IF status[target[r]] = "live" THEN "titled" ELSE "failed")
    /\ UNCHANGED <<tables, locals>>

\* tx.slide.deleteMany, first half: the statement's snapshot.
ListSlides(r) ==
    /\ At(r, "save", "titled") \/ At(r, "delete", "found")
    /\ todo' = [todo EXCEPT ![r] = SlidesOf(target[r])]
    /\ Goto(r, "listed")
    /\ UNCHANGED <<tables, op, target, del, seenTitle, seen>>

\* Mutant: deleteMany is called on `prisma` instead of `tx`.
ClearSlidesOutside(r) ==
    /\ pc[r] = "listed" /\ Blockers(r) = {}
    /\ slides' = slides \ todo[r]
    /\ todo' = [todo EXCEPT ![r] = {}]
    /\ Goto(r, "cleared")
    /\ UNCHANGED <<status, title, tokens, stamp, op, target, del, seenTitle, seen>>

\* Second half: the rows are deleted once nobody else is deleting them.
ClearSlides(r) ==
    /\ pc[r] = "listed" /\ Blockers(r) = {}
    /\ del' = [del EXCEPT ![r] = todo[r] \cap slides]
    /\ todo' = [todo EXCEPT ![r] = {}]
    /\ Goto(r, "cleared")
    /\ UNCHANGED <<tables, op, target, seenTitle, seen>>

\* tx.slide.createMany, skipped when the body has no slides.
FillSlides(r) ==
    /\ At(r, "save", "cleared")
    /\ Goto(r, "filled")
    /\ UNCHANGED <<tables, locals>>

CommitSave(r) ==
    /\ At(r, "save", "filled")
    /\ title' = [title EXCEPT ![target[r]] = r]
    /\ slides' = (slides \ del[r]) \cup Deck(r, target[r])
    /\ Stamped(r)
    /\ del' = [del EXCEPT ![r] = {}]
    /\ Goto(r, "done")
    /\ UNCHANGED <<status, tokens, op, target, todo, seenTitle, seen>>

\* tx.presentation.delete: takes the row, or rejects when it is gone ...
UnlinkPresentation(r) ==
    /\ At(r, "delete", "cleared") /\ Blockers(r) = {}
    /\ IF status[target[r]] = "live" THEN Goto(r, "unlinking") /\ UNCHANGED <<tables, locals>>
                                     ELSE Abort(r)

\* Mutant: the foreign keys of Slide and ShareToken are not enforced.
CheckReferencesNone(r) ==
    /\ pc[r] = "unlinking"
    /\ Goto(r, "unlinked")
    /\ UNCHANGED <<tables, locals>>

\* ... and the RESTRICT foreign keys of Slide and ShareToken are checked.
CheckReferences(r) ==
    /\ pc[r] = "unlinking" /\ Blockers(r) = {}
    /\ IF SlidesOf(target[r]) \subseteq del[r] /\ TokensOf(target[r]) = {}
       THEN Goto(r, "unlinked") /\ UNCHANGED <<tables, locals>>
       ELSE Abort(r)

CommitDelete(r) ==
    /\ pc[r] = "unlinked"
    /\ status' = [status EXCEPT ![target[r]] = "gone"]
    /\ slides' = slides \ del[r]
    /\ del' = [del EXCEPT ![r] = {}]
    /\ Goto(r, "done")
    /\ UNCHANGED <<title, tokens, stamp, op, target, todo, seenTitle, seen>>

\* prisma.shareToken.create: rejected by its foreign key when the row is gone.
Share(r) ==
    /\ At(r, "share", "found") /\ Blockers(r) = {}
    /\ IF status[target[r]] = "live"
       THEN /\ tokens' = tokens \cup {[pid |-> target[r], by |-> r]}
            /\ Goto(r, "done")
       ELSE tokens' = tokens /\ Goto(r, "failed")
    /\ UNCHANGED <<status, title, slides, stamp, locals>>

\* A reader with a share link needs no account: the token is looked up first, 404
\* when it is not one of this presentation, 410 when it has expired (as in Fail).
FindToken(r) ==
    /\ At(r, "shared", "start")
    /\ Goto(r, IF TokensOf(target[r]) # {} THEN "linked" ELSE "failed")
    /\ UNCHANGED <<tables, locals>>

\* findUnique with `include: slides`: one SELECT for the row ...
ReadTitle(r) ==
    /\ IF op[r] = "shared" THEN pc[r] = "linked" ELSE op[r] \in Reads /\ pc[r] = "start"
    /\ IF status[target[r]] = "live" /\ (op[r] = "load" => Owner(r))
       THEN /\ seenTitle' = [seenTitle EXCEPT ![r] = title[target[r]]]
            /\ Goto(r, "reading")
       ELSE UNCHANGED seenTitle /\ Goto(r, "failed")
    /\ UNCHANGED <<tables, op, target, todo, del, seen>>

\* ... and another for the slides.
ReadSlides(r) ==
    /\ pc[r] = "reading"
    /\ seen' = [seen EXCEPT ![r] = SlidesOf(target[r])]
    /\ Goto(r, "done")
    /\ UNCHANGED <<tables, op, target, todo, del, seenTitle>>

\* A statement fails, the transaction times out, or the server dies.
Fail(r) ==
    /\ pc[r] \notin {"new"} \cup Ended
    /\ Abort(r)

\* PostgreSQL aborts a transaction of a waiting cycle.  Only the holder of the
\* row and a holder of slides can wait for each other, so cycles have length 2.
DeadlockVictim(r) ==
    /\ \E q \in Blockers(r) : r \in Blockers(q)
    /\ Abort(r)

Step(r) ==
    \/ Create(r)
    \/ Find(r)
    \/ SaveTitle(r)
    \/ ListSlides(r)
    \/ ClearSlides(r)
    \/ FillSlides(r)
    \/ CommitSave(r)
    \/ UnlinkPresentation(r)
    \/ CheckReferences(r)
    \/ CommitDelete(r)
    \/ Share(r)
    \/ FindToken(r)
    \/ ReadTitle(r)
    \/ ReadSlides(r)
    \/ DeadlockVictim(r)

AllEnded == (\A r \in Requests : pc[r] \in Ended) /\ UNCHANGED vars

Next ==
    \/ \E r \in Requests, o \in Ops, p \in Pids : Arrive(r, o, p)
    \/ \E r \in Requests : Step(r)
    \/ \E r \in Requests : Fail(r)
    \/ AllEnded

Spec == Init /\ [][Next]_vars
FairSpec == Spec /\ \A r \in Requests : WF_vars(Step(r))

-----------------------------------------------------------------------------
(* Properties                                                              *)

\* Overlapping auto-saves, deletes and failures never mix two decks: the slides
\* of a live presentation are exactly those of one request, the one whose title
\* it shows.
WholeDecks ==
    \A p \in Pids : status[p] = "live" => SlidesOf(p) = Deck(title[p], p)

\* Nothing refers to a presentation that deletePresentation removed, and nothing
\* is stored under an id before its presentation exists.
NoOrphans ==
    \A p \in Pids : status[p] # "live" => SlidesOf(p) = {} /\ TokensOf(p) = {}

\* A read is two SELECTs, so its title may be older than its slides, but never
\* newer; and its slides are one whole deck, or none of a presentation that
\* was deleted between the two.  This last cannot happen to a reader with a share
\* link, although the link was checked in a statement of its own.
ReadsForward ==
    \A r \in Requests :
        LET p == target[r]
        IN  (op[r] \in Reads /\ pc[r] = "done") =>
              \/ seen[r] = {} /\ status[p] = "gone" /\ op[r] # "shared"
              \/ \E w \in Requests : /\ seen[r] = Deck(w, p)
                                     /\ stamp[w] >= stamp[seenTitle[r]]

\* Every request is answered, although saves and deletes of the same
\* presentation can wait for each other.
EveryRequestEnds == \A r \in Requests : pc[r] = "start" ~> pc[r] \in Ended

\* The statements of the handlers implement atomic operations on whole decks.
Store == INSTANCE DeckStore WITH
    deck <- [p \in Pids |-> SlidesOf(p)],
    links <- [p \in Pids |-> {t.by : t \in TokensOf(p)}],
    outcome <- [r \in Requests |-> IF pc[r] \in Ended THEN pc[r] ELSE "pending"]

ImplementsStore == Store!StoreSpec

-----------------------------------------------------------------------------
(* The inductive invariant                                                 *)

\* Which endpoints reach which statement, and that the owner check is behind them.
ControlInv ==
    \A r \in Requests :
        /\ pc[r] = "found" => op[r] \in {"save", "delete", "share"}
        /\ pc[r] \in {"titled", "filled"} => op[r] = "save"
        /\ pc[r] \in {"listed", "cleared"} => op[r] \in {"save", "delete"}
        /\ pc[r] \in {"unlinking", "unlinked"} => op[r] = "delete"
        /\ pc[r] = "linked" => op[r] = "shared"
        /\ pc[r] \notin {"new", "start", "linked", "reading"} \cup Ended => Owner(r)

\* A fresh id is in the hands of one request.
FreshInv ==
    \A r \in Requests :
        At(r, "create", "start") =>
            /\ status[target[r]] = "unused" /\ Owner(r)
            /\ \A q \in Requests :
                  At(q, "create", "start") /\ target[q] = target[r] => q = r

\* The row lock: it has one holder, and the row is there while it is held.
LockInv ==
    \A r \in Requests :
        HoldsRow(r) =>
            /\ status[target[r]] = "live"
            /\ \A q \in Requests : HoldsRow(q) /\ target[q] = target[r] => q = r

\* The rows an open transaction has deleted are its own.
DelInv ==
    \A r \in Requests :
        /\ \A s \in todo[r] : s.pid = target[r]
        /\ pc[r] # "listed" => todo[r] = {}
        /\ del[r] \subseteq SlidesOf(target[r])
        /\ pc[r] \notin {"cleared", "filled", "unlinking", "unlinked"} => del[r] = {}
        /\ \A q \in Requests : q # r => del[q] \cap del[r] = {}

\* Under the row lock a save has found, and then deleted, all there is; a
\* delete that passed the foreign keys leaves nothing behind.
ClearInv ==
    \A r \in Requests :
        /\ At(r, "save", "listed") => todo[r] = SlidesOf(target[r])
        /\ At(r, "save", "cleared") \/ At(r, "save", "filled") =>
              del[r] = SlidesOf(target[r])
        /\ pc[r] = "unlinked" => del[r] = SlidesOf(target[r]) /\ TokensOf(target[r]) = {}

IndInv ==
    /\ TypeOK
    /\ ControlInv
    /\ FreshInv
    /\ LockInv
    /\ DelInv
    /\ ClearInv
    /\ WholeDecks
    /\ NoOrphans

\* Writes are ranked in the order of their commits.
StampInv ==
    /\ \A q \in Requests : stamp[q] <= Cardinality({w \in Requests : stamp[w] > 0})
    /\ \A q \in Requests : stamp[q] > 0 => pc[q] = "done"
    /\ \A p \in Pids : title[p] # NoRequest => pc[title[p]] = "done"
    /\ \A p \in Pids : status[p] # "unused" => title[p] # NoRequest

\* Between its two SELECTs a read holds a title that was committed, and that
\* only a later write or the delete has replaced; a share link, once seen, stays.
ReadInv ==
    \A r \in Requests :
        LET p == target[r]
        IN  /\ pc[r] = "reading" => op[r] \in Reads
            /\ seenTitle[r] # NoRequest => pc[seenTitle[r]] = "done"
            /\ pc[r] = "reading" =>
                  /\ seenTitle[r] # NoRequest
                  /\ \/ status[p] = "gone"
                     \/ status[p] = "live" /\ stamp[title[p]] >= stamp[seenTitle[r]]
            /\ (op[r] \in Reads /\ pc[r] = "done") => seenTitle[r] # NoRequest
            /\ op[r] = "shared" /\ pc[r] \in {"linked", "reading", "done"} => TokensOf(p) # {}
=============================================================================
