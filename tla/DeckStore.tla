------------------------------ MODULE DeckStore ------------------------------
(***************************************************************************)
(* What the presentation endpoints promise: a store of whole decks.  Every *)
(* request takes effect at one instant or not at all, a save replaces the  *)
(* title and all the slides together, and only the owner changes a deck.   *)
(* How the handlers reach this with several database statements is         *)
(* DeckTransactions.                                                       *)
(***************************************************************************)
EXTENDS Naturals

CONSTANTS
    Pids,        \* presentation ids
    Requests,    \* HTTP requests; each is served once
    NoRequest,   \* the writer of a presentation that was never created
    ClientOf,    \* the user whose token a request presents
    OwnerOf,     \* column Presentation.userId
    DeckSize     \* number of slides a creating or saving request carries

VARIABLES
    status,      \* whether a presentation is unused, live or gone
    title,       \* the request whose title it shows
    deck,        \* its slides
    links,       \* its share links, by the request that made them
    outcome      \* the fate of each request

storeVars == <<status, title, deck, links, outcome>>

Owned(r, p) == ClientOf[r] = OwnerOf[p]
Pages(r, p) == {[pid |-> p, by |-> r, pos |-> i] : i \in 0..(DeckSize[r] - 1)}

StoreInit ==
    /\ status = [p \in Pids |-> "unused"]
    /\ title = [p \in Pids |-> NoRequest]
    /\ deck = [p \in Pids |-> {}]
    /\ links = [p \in Pids |-> {}]
    /\ outcome = [r \in Requests |-> "pending"]

Settle(r, how) ==
    /\ outcome[r] = "pending"
    /\ outcome' = [outcome EXCEPT ![r] = how]

Write(r, p) ==
    /\ Owned(r, p)
    /\ title' = [title EXCEPT ![p] = r]
    /\ deck' = [deck EXCEPT ![p] = Pages(r, p)]

StoreCreate(r, p) ==
    /\ status[p] = "unused"
    /\ status' = [status EXCEPT ![p] = "live"]
    /\ Write(r, p)
    /\ Settle(r, "done")
    /\ UNCHANGED links

StoreSave(r, p) ==
    /\ status[p] = "live"
    /\ Write(r, p)
    /\ Settle(r, "done")
    /\ UNCHANGED <<status, links>>

\* A presentation with share links cannot be deleted.
StoreDelete(r, p) ==
    /\ status[p] = "live" /\ Owned(r, p) /\ links[p] = {}
    /\ status' = [status EXCEPT ![p] = "gone"]
    /\ deck' = [deck EXCEPT ![p] = {}]
    /\ Settle(r, "done")
    /\ UNCHANGED <<title, links>>

StoreShare(r, p) ==
    /\ status[p] = "live" /\ Owned(r, p)
    /\ links' = [links EXCEPT ![p] = @ \cup {r}]
    /\ Settle(r, "done")
    /\ UNCHANGED <<status, title, deck>>

StoreRead(r) ==
    /\ Settle(r, "done")
    /\ UNCHANGED <<status, title, deck, links>>

\* A request that fails changes nothing.
StoreFail(r) ==
    /\ Settle(r, "failed")
    /\ UNCHANGED <<status, title, deck, links>>

StoreNext ==
    \E r \in Requests :
        \/ StoreRead(r)
        \/ StoreFail(r)
        \/ \E p \in Pids :
              StoreCreate(r, p) \/ StoreSave(r, p) \/ StoreDelete(r, p) \/ StoreShare(r, p)

StoreSpec == StoreInit /\ [][StoreNext]_storeVars
=============================================================================
