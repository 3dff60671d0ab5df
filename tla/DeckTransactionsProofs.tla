----------------------- MODULE DeckTransactionsProofs ------------------------
(***************************************************************************)
(* Proofs about DeckTransactions for any presentations and requests.       *)
(***************************************************************************)
EXTENDS DeckTransactions, FiniteSetTheorems, TLAPS

LEMMA DeckType ==
    ASSUME NEW r \in Requests, NEW p \in Pids
    PROVE  Deck(r, p) \in SUBSET SlideRows /\ \A s \in Deck(r, p) : s.pid = p
BY DeckSizeAssumption DEF Deck, SlideRows

LEMMA StampType ==
    ASSUME TypeOK, NEW r \in Requests, Stamped(r)
    PROVE  stamp' \in [Requests -> Nat]
<1>1. IsFiniteSet({q \in Requests : stamp[q] > 0})
  BY RequestsFinite, FS_Subset
<1>2. Cardinality({q \in Requests : stamp[q] > 0}) \in Nat
  BY <1>1, FS_CardinalityType
<1>3. QED
  BY <1>2 DEF TypeOK, Stamped

\* The steps of a request that leave the tables as they are.
Quiet(r) ==
    \/ Find(r) \/ SaveTitle(r) \/ ListSlides(r) \/ ClearSlides(r) \/ FillSlides(r)
    \/ UnlinkPresentation(r) \/ CheckReferences(r) \/ FindToken(r)
    \/ ReadTitle(r) \/ ReadSlides(r)
    \/ DeadlockVictim(r) \/ Fail(r) \/ (\E o \in Ops, p \in Pids : Arrive(r, o, p))

\* Every step is quiet, or one of the four that commit.
LEMMA Steps ==
    ASSUME [Next]_vars
    PROVE  \/ UNCHANGED vars
           \/ \E r \in Requests : \/ Quiet(r) \/ Create(r) \/ CommitSave(r)
                                  \/ CommitDelete(r) \/ Share(r)
BY DEF Next, Step, Quiet, AllEnded

LEMMA QuietTables ==
    ASSUME NEW r \in Requests, Quiet(r)
    PROVE  UNCHANGED tables
BY DEF Quiet, Find, SaveTitle, ListSlides, ClearSlides, FillSlides, UnlinkPresentation,
       CheckReferences, FindToken, ReadTitle, ReadSlides, DeadlockVictim, Fail, Arrive, Abort, tables

LEMMA TypeStep == TypeOK /\ [Next]_vars => TypeOK'
<1> SUFFICES ASSUME TypeOK, [Next]_vars PROVE TypeOK'
  OBVIOUS
<1>1. ASSUME NEW r \in Requests, Quiet(r) PROVE TypeOK'
  <2>1. SlidesOf(target[r]) \in SUBSET SlideRows
    BY DEF SlidesOf, TypeOK
  <2>2. QED
    BY <1>1, <2>1
       DEF TypeOK, Quiet, Find, SaveTitle, ListSlides, ClearSlides, FillSlides,
       UnlinkPresentation, CheckReferences, FindToken, ReadTitle, ReadSlides, DeadlockVictim, Fail,
       Arrive, Abort, Goto, tables, locals, Locations, Ended
<1>2. ASSUME NEW r \in Requests, Create(r) PROVE TypeOK'
  <2>1. Deck(r, target[r]) \in SUBSET SlideRows
    BY DeckType DEF TypeOK
  <2>2. stamp' \in [Requests -> Nat]
    BY <1>2, StampType DEF Create
  <2>3. QED
    BY <1>2, <2>1, <2>2 DEF TypeOK, Create, Goto, locals, Locations, Ended
<1>3. ASSUME NEW r \in Requests, CommitSave(r) PROVE TypeOK'
  <2>1. Deck(r, target[r]) \in SUBSET SlideRows
    BY DeckType DEF TypeOK
  <2>2. stamp' \in [Requests -> Nat]
    BY <1>3, StampType DEF CommitSave
  <2>3. QED
    BY <1>3, <2>1, <2>2 DEF TypeOK, CommitSave, Goto, Locations, Ended
<1>4. ASSUME NEW r \in Requests, CommitDelete(r) PROVE TypeOK'
  BY <1>4 DEF TypeOK, CommitDelete, Goto, Locations, Ended
<1>5. ASSUME NEW r \in Requests, Share(r) PROVE TypeOK'
  BY <1>5 DEF TypeOK, Share, Goto, locals, Locations, Ended, TokenRows
<1>6. CASE UNCHANGED vars
  BY <1>6 DEF TypeOK, vars
<1>7. QED
  BY <1>1, <1>2, <1>3, <1>4, <1>5, <1>6, Steps

\* Type correctness of the tables and of every request's locals.
THEOREM TypeCorrect == Spec => []TypeOK
<1>1. Init => TypeOK
  <2>1. (CHOOSE p \in Pids : TRUE) \in Pids
    BY PidsAssumption
  <2>2. QED
    BY <2>1 DEF Init, TypeOK, Ops, Reads, Locations
<1>2. QED
  BY <1>1, TypeStep, PTL DEF Spec

-----------------------------------------------------------------------------
(* Which slides a step changes                                             *)

LEMMA QuietSlides ==
    ASSUME NEW r \in Requests, Quiet(r) \/ Share(r), NEW p
    PROVE  SlidesOf(p)' = SlidesOf(p)
BY QuietTables DEF SlidesOf, Share, tables

LEMMA CreateSlides ==
    ASSUME IndInv, NEW r \in Requests, Create(r), NEW p \in Pids
    PROVE  SlidesOf(p)' = IF p = target[r] THEN Deck(r, p) ELSE SlidesOf(p)
<1>1. target[r] \in Pids
  BY DEF IndInv, TypeOK
<1>2. SlidesOf(target[r]) = {}
  BY <1>1 DEF IndInv, FreshInv, NoOrphans, Create
<1>3. \A s \in Deck(r, target[r]) : s.pid = target[r]
  BY <1>1, DeckType
<1>4. slides' = slides \cup Deck(r, target[r])
  BY DEF Create
<1>5. QED
  BY <1>2, <1>3, <1>4 DEF SlidesOf

LEMMA CommitSaveSlides ==
    ASSUME IndInv, NEW r \in Requests, CommitSave(r), NEW p \in Pids
    PROVE  SlidesOf(p)' = IF p = target[r] THEN Deck(r, p) ELSE SlidesOf(p)
<1>1. target[r] \in Pids
  BY DEF IndInv, TypeOK
<1>2. del[r] = SlidesOf(target[r])
  BY DEF IndInv, ClearInv, CommitSave
<1>3. \A s \in Deck(r, target[r]) : s.pid = target[r]
  BY <1>1, DeckType
<1>4. slides' = (slides \ del[r]) \cup Deck(r, target[r])
  BY DEF CommitSave
<1>5. QED
  BY <1>2, <1>3, <1>4 DEF SlidesOf

LEMMA CommitDeleteSlides ==
    ASSUME IndInv, NEW r \in Requests, CommitDelete(r), NEW p \in Pids
    PROVE  SlidesOf(p)' = IF p = target[r] THEN {} ELSE SlidesOf(p)
<1>1. del[r] = SlidesOf(target[r]) /\ slides' = slides \ del[r]
  BY DEF IndInv, ClearInv, CommitDelete
<1>2. QED
  BY <1>1 DEF SlidesOf

-----------------------------------------------------------------------------
(* One lemma per conjunct of the inductive invariant.                      *)

LEMMA ControlStep == IndInv /\ [Next]_vars => ControlInv'
<1> SUFFICES ASSUME IndInv, [Next]_vars PROVE ControlInv'
  OBVIOUS
<1>1. TypeOK /\ ControlInv
  BY DEF IndInv
<1>2. ASSUME NEW r \in Requests, Quiet(r) PROVE ControlInv'
  BY <1>1, <1>2 DEF ControlInv, TypeOK, Quiet, Find, SaveTitle, ListSlides, ClearSlides,
       FillSlides, UnlinkPresentation, CheckReferences, FindToken, ReadTitle, ReadSlides,
       DeadlockVictim, Fail, Arrive, Abort, Goto, At, Owner, tables, locals, Ended
<1>3. ASSUME NEW r \in Requests, Create(r) \/ CommitSave(r) \/ CommitDelete(r) \/ Share(r)
      PROVE  ControlInv'
  BY <1>1, <1>3 DEF ControlInv, TypeOK, Create, CommitSave, CommitDelete, Share, Goto,
                    At, Owner, locals, Ended
<1>4. CASE UNCHANGED vars
  BY <1>1, <1>4 DEF ControlInv, Owner, vars
<1>5. QED
  BY <1>2, <1>3, <1>4, Steps

LEMMA FreshStep == IndInv /\ [Next]_vars => FreshInv'
<1> SUFFICES ASSUME IndInv, [Next]_vars PROVE FreshInv'
  OBVIOUS
<1>1. TypeOK /\ FreshInv /\ ControlInv /\ LockInv
  BY DEF IndInv
<1>2. ASSUME NEW r \in Requests, Quiet(r) PROVE FreshInv'
  BY <1>1, <1>2 DEF FreshInv, TypeOK, Quiet, Find, SaveTitle, ListSlides, ClearSlides,
       FillSlides, UnlinkPresentation, CheckReferences, FindToken, ReadTitle, ReadSlides,
       DeadlockVictim, Fail, Arrive, Abort, Goto, At, Owner, tables, locals, Ended
<1>3. ASSUME NEW r \in Requests, Create(r) PROVE FreshInv'
  BY <1>1, <1>3 DEF FreshInv, TypeOK, Create, Goto, At, Owner, locals
<1>4. ASSUME NEW r \in Requests, CommitSave(r) \/ Share(r) PROVE FreshInv'
  BY <1>1, <1>4 DEF FreshInv, TypeOK, CommitSave, Share, Goto, At, Owner, locals
<1>5. ASSUME NEW r \in Requests, CommitDelete(r) PROVE FreshInv'
  <2>1. status[target[r]] = "live"
    BY <1>1, <1>5 DEF LockInv, ControlInv, HoldsRow, Unlinking, CommitDelete
  <2>2. QED
    BY <1>1, <1>5, <2>1 DEF FreshInv, TypeOK, CommitDelete, Goto, At, Owner
<1>6. CASE UNCHANGED vars
  BY <1>1, <1>6 DEF FreshInv, At, Owner, vars
<1>7. QED
  BY <1>2, <1>3, <1>4, <1>5, <1>6, Steps

LEMMA LockStep == IndInv /\ [Next]_vars => LockInv'
<1> SUFFICES ASSUME IndInv, [Next]_vars PROVE LockInv'
  OBVIOUS
<1>1. TypeOK /\ FreshInv /\ ControlInv /\ LockInv
  BY DEF IndInv
<1>2. ASSUME NEW r \in Requests, SaveTitle(r) \/ UnlinkPresentation(r) PROVE LockInv'
  BY <1>1, <1>2 DEF LockInv, TypeOK, SaveTitle, UnlinkPresentation, Blockers, Abort, Goto,
                    At, HoldsRow, Saving, Unlinking, tables, locals
<1>3. ASSUME NEW r \in Requests, Quiet(r), ~SaveTitle(r), ~UnlinkPresentation(r)
      PROVE  LockInv'
  BY <1>1, <1>3 DEF LockInv, TypeOK, ControlInv, Quiet, Find, ListSlides, ClearSlides,
       FillSlides, CheckReferences, FindToken, ReadTitle, ReadSlides, DeadlockVictim, Fail, Arrive,
       Abort, Goto, At, HoldsRow, Saving, Unlinking, tables, locals, Ended
<1>4. ASSUME NEW r \in Requests, Create(r) PROVE LockInv'
  BY <1>1, <1>4 DEF LockInv, FreshInv, TypeOK, Create, Goto, At, HoldsRow, Saving,
                    Unlinking, locals
<1>5. ASSUME NEW r \in Requests, CommitSave(r) \/ Share(r) PROVE LockInv'
  BY <1>1, <1>5 DEF LockInv, TypeOK, CommitSave, Share, Goto, At, HoldsRow, Saving,
                    Unlinking, locals
<1>6. ASSUME NEW r \in Requests, CommitDelete(r) PROVE LockInv'
  BY <1>1, <1>6 DEF LockInv, TypeOK, ControlInv, CommitDelete, Goto, HoldsRow, Saving,
                    Unlinking
<1>7. CASE UNCHANGED vars
  BY <1>1, <1>7 DEF LockInv, HoldsRow, Saving, Unlinking, vars
<1>8. QED
  BY <1>2, <1>3, <1>4, <1>5, <1>6, <1>7, Steps

LEMMA DelStep == IndInv /\ [Next]_vars => DelInv'
<1> SUFFICES ASSUME IndInv, [Next]_vars PROVE DelInv'
  OBVIOUS
<1>1. TypeOK /\ ControlInv /\ LockInv /\ DelInv /\ ClearInv
  BY DEF IndInv
<1>2. ASSUME NEW r \in Requests, ClearSlides(r) PROVE DelInv'
  <2>1. \A p : SlidesOf(p)' = SlidesOf(p)
    BY <1>2, QuietSlides DEF Quiet
  <2>2. del'[r] \subseteq SlidesOf(target[r])
    BY <1>1, <1>2 DEF ClearSlides, DelInv, SlidesOf, TypeOK
  <2>3. ASSUME NEW q \in Requests, q # r PROVE del'[q] \cap del'[r] = {}
    <3>1. CASE target[q] = target[r]
      BY <1>1, <1>2, <3>1, <2>3 DEF ClearSlides, Blockers, TypeOK
    <3>2. CASE target[q] # target[r]
      BY <1>1, <1>2, <2>2, <3>2, <2>3 DEF ClearSlides, DelInv, SlidesOf, TypeOK
    <3>3. QED
      BY <3>1, <3>2
  <2>4. QED
    BY <1>1, <1>2, <2>1, <2>2, <2>3 DEF ClearSlides, DelInv, Goto, TypeOK
<1>3. ASSUME NEW r \in Requests, ListSlides(r) PROVE DelInv'
  <2>1. \A p : SlidesOf(p)' = SlidesOf(p)
    BY <1>3, QuietSlides DEF Quiet
  <2>2. \A s \in SlidesOf(target[r]) : s.pid = target[r]
    BY DEF SlidesOf
  <2>3. QED
    BY <1>1, <1>3, <2>1, <2>2 DEF ListSlides, DelInv, Goto, At, TypeOK
<1>4. ASSUME NEW r \in Requests, Quiet(r), ~ClearSlides(r), ~ListSlides(r) PROVE DelInv'
  <2>1. \A p : SlidesOf(p)' = SlidesOf(p)
    BY <1>4, QuietSlides
  <2>2. QED
    BY <1>1, <1>4, <2>1 DEF DelInv, TypeOK, ControlInv, Quiet, Find, SaveTitle, FillSlides,
       UnlinkPresentation, CheckReferences, FindToken, ReadTitle, ReadSlides, DeadlockVictim, Fail,
       Arrive, Abort, Goto, At, tables, locals, Ended
<1>5. ASSUME NEW r \in Requests, Share(r) PROVE DelInv'
  <2>1. \A p : SlidesOf(p)' = SlidesOf(p)
    BY <1>5, QuietSlides
  <2>2. QED
    BY <1>1, <1>5, <2>1 DEF DelInv, TypeOK, Share, Goto, At, locals
<1>6. ASSUME NEW r \in Requests, Create(r) PROVE DelInv'
  <2>1. \A p : SlidesOf(p) \subseteq SlidesOf(p)'
    BY <1>6 DEF SlidesOf, Create
  <2>2. QED
    BY <1>1, <1>6, <2>1 DEF DelInv, TypeOK, Create, Goto, At, locals
<1>7. ASSUME NEW r \in Requests, CommitSave(r) \/ CommitDelete(r) PROVE DelInv'
  <2>1. \A q \in Requests : q # r => del'[q] = del[q] /\ target'[q] = target[q]
    BY <1>1, <1>7 DEF CommitSave, CommitDelete, TypeOK
  <2>2. ASSUME NEW q \in Requests, q # r PROVE del'[q] \subseteq SlidesOf(target[q])'
    BY <1>1, <1>7, <2>1, <2>2 DEF CommitSave, CommitDelete, DelInv, SlidesOf
  <2>3. del'[r] = {}
    BY <1>1, <1>7 DEF CommitSave, CommitDelete, TypeOK
  <2>4. QED
    BY <1>1, <1>7, <2>1, <2>2, <2>3 DEF CommitSave, CommitDelete, DelInv, TypeOK, Goto, At
<1>8. CASE UNCHANGED vars
  BY <1>1, <1>8 DEF DelInv, SlidesOf, vars
<1>9. QED
  BY <1>2, <1>3, <1>4, <1>5, <1>6, <1>7, <1>8, Steps

LEMMA ClearStep == IndInv /\ [Next]_vars => ClearInv'
<1> SUFFICES ASSUME IndInv, [Next]_vars PROVE ClearInv'
  OBVIOUS
<1>1. TypeOK /\ ControlInv /\ FreshInv /\ LockInv /\ DelInv /\ ClearInv
  BY DEF IndInv
<1>2. ASSUME NEW r \in Requests, Quiet(r) PROVE ClearInv'
  <2>1. /\ \A p : SlidesOf(p)' = SlidesOf(p)
        /\ \A p : TokensOf(p)' = TokensOf(p)
    BY <1>2, QuietSlides, QuietTables DEF TokensOf, tables
  <2>2. CASE ClearSlides(r)
    <3>1. At(r, "save", "listed") => del'[r] = SlidesOf(target[r])
      BY <1>1, <2>2 DEF ClearSlides, ClearInv, SlidesOf, TypeOK
    <3>2. QED
      BY <1>1, <2>1, <2>2, <3>1 DEF ClearSlides, ClearInv, Goto, At, TypeOK
  <2>3. CASE CheckReferences(r)
    <3>1. CASE Abort(r)
      BY <1>1, <2>1, <3>1 DEF ClearInv, Abort, Goto, At, TypeOK
    <3>2. CASE ~Abort(r)
      <4>1. SlidesOf(target[r]) = del[r] /\ TokensOf(target[r]) = {}
        BY <1>1, <2>3, <3>2 DEF CheckReferences, DelInv
      <4>2. Goto(r, "unlinked") /\ UNCHANGED locals
        BY <2>3, <3>2 DEF CheckReferences
      <4>3. op[r] = "delete"
        BY <1>1, <2>3 DEF CheckReferences, ControlInv
      <4>4. QED
        BY <1>1, <2>1, <4>1, <4>2, <4>3 DEF ClearInv, Goto, At, TypeOK, locals
    <3>3. QED
      BY <3>1, <3>2
  <2>4. CASE ~ClearSlides(r) /\ ~CheckReferences(r)
    BY <1>1, <1>2, <2>1, <2>4 DEF ClearInv, TypeOK, ControlInv, Quiet, Find, SaveTitle,
       ListSlides, FillSlides, UnlinkPresentation, FindToken, ReadTitle, ReadSlides, DeadlockVictim,
       Fail, Arrive, Abort, Goto, At, tables, locals, Ended
  <2>5. QED
    BY <2>2, <2>3, <2>4
<1>3. ASSUME NEW r \in Requests, Share(r) PROVE ClearInv'
  <2>1. \A p : SlidesOf(p)' = SlidesOf(p)
    BY <1>3, QuietSlides
  <2>2. \A p : p # target[r] => TokensOf(p)' = TokensOf(p)
    BY <1>3 DEF Share, TokensOf
  <2>3. ASSUME NEW q \in Requests, pc[q] = "unlinked" PROVE target[q] # target[r]
    BY <1>1, <1>3, <2>3 DEF Share, Blockers, Unlinking, ControlInv, At
  <2>4. QED
    BY <1>1, <1>3, <2>1, <2>2, <2>3 DEF Share, ClearInv, Goto, At, TypeOK, locals
<1>4. ASSUME NEW r \in Requests, Create(r) \/ CommitSave(r) \/ CommitDelete(r)
      PROVE  ClearInv'
  <2>1. ASSUME NEW q \in Requests, q # r, HoldsRow(q)
        PROVE  target[q] # target[r]
    BY <1>1, <1>4, <2>1 DEF Create, CommitSave, CommitDelete, LockInv, FreshInv, ControlInv,
                            HoldsRow, Saving, Unlinking, At
  <2>2. ASSUME NEW p \in Pids, p # target[r]
        PROVE  SlidesOf(p)' = SlidesOf(p) /\ TokensOf(p)' = TokensOf(p)
    BY <1>4, <2>2, CreateSlides, CommitSaveSlides, CommitDeleteSlides
       DEF Create, CommitSave, CommitDelete, TokensOf
  <2>3. ASSUME NEW q \in Requests, q # r
        PROVE  /\ pc'[q] = pc[q] /\ op'[q] = op[q] /\ target'[q] = target[q]
               /\ todo'[q] = todo[q] /\ del'[q] = del[q]
    BY <1>1, <1>4, <2>3 DEF Create, CommitSave, CommitDelete, Goto, TypeOK, locals
  <2>4. pc'[r] = "done"
    BY <1>1, <1>4 DEF Create, CommitSave, CommitDelete, Goto, TypeOK
  <2>5. ASSUME NEW q \in Requests, q # r, HoldsRow(q)
        PROVE  SlidesOf(target[q])' = SlidesOf(target[q]) /\ TokensOf(target[q])' = TokensOf(target[q])
    <3>1. target[q] \in Pids /\ target[q] # target[r] /\ target'[q] = target[q]
      BY <1>1, <2>1, <2>3, <2>5 DEF TypeOK
    <3>2. QED
      BY <2>2, <3>1
  <2>6. QED
    BY <1>1, <2>3, <2>4, <2>5 DEF ClearInv, At, HoldsRow, Saving, Unlinking, ControlInv
<1>5. CASE UNCHANGED vars
  BY <1>1, <1>5 DEF ClearInv, SlidesOf, TokensOf, At, vars
<1>6. QED
  BY <1>2, <1>3, <1>4, <1>5, Steps

\* A commit replaces the whole deck, because under the row lock the rows it
\* deleted are all the rows there are.
LEMMA WholeStep == IndInv /\ [Next]_vars => WholeDecks'
<1> SUFFICES ASSUME IndInv, [Next]_vars, NEW p \in Pids, status'[p] = "live"
             PROVE  SlidesOf(p)' = Deck(title'[p], p)
  BY DEF WholeDecks, Deck
<1>1. TypeOK /\ WholeDecks
  BY DEF IndInv
<1>2. ASSUME NEW r \in Requests, Quiet(r) PROVE SlidesOf(p)' = Deck(title'[p], p)
  BY <1>1, <1>2, QuietSlides, QuietTables DEF WholeDecks, tables
<1>3. ASSUME NEW r \in Requests, Share(r) PROVE SlidesOf(p)' = Deck(title'[p], p)
  BY <1>1, <1>3, QuietSlides DEF WholeDecks, Share
<1>4. ASSUME NEW r \in Requests, Create(r) PROVE SlidesOf(p)' = Deck(title'[p], p)
  BY <1>1, <1>4, CreateSlides DEF WholeDecks, Create, TypeOK
<1>5. ASSUME NEW r \in Requests, CommitSave(r) PROVE SlidesOf(p)' = Deck(title'[p], p)
  BY <1>1, <1>5, CommitSaveSlides DEF WholeDecks, CommitSave, TypeOK
<1>6. ASSUME NEW r \in Requests, CommitDelete(r) PROVE SlidesOf(p)' = Deck(title'[p], p)
  BY <1>1, <1>6, CommitDeleteSlides DEF WholeDecks, CommitDelete, TypeOK
<1>7. CASE UNCHANGED vars
  BY <1>1, <1>7 DEF WholeDecks, SlidesOf, vars
<1>8. QED
  BY <1>2, <1>3, <1>4, <1>5, <1>6, <1>7, Steps

LEMMA OrphanStep == IndInv /\ [Next]_vars => NoOrphans'
<1> SUFFICES ASSUME IndInv, [Next]_vars, NEW p \in Pids, status'[p] # "live"
             PROVE  SlidesOf(p)' = {} /\ TokensOf(p)' = {}
  BY DEF NoOrphans
<1> DEFINE Goal == SlidesOf(p)' = {} /\ TokensOf(p)' = {}
<1>1. TypeOK /\ NoOrphans /\ LockInv /\ ClearInv /\ ControlInv
  BY DEF IndInv
<1>2. ASSUME NEW r \in Requests, Quiet(r) PROVE Goal
  BY <1>1, <1>2, QuietSlides, QuietTables DEF NoOrphans, TokensOf, tables
<1>3. ASSUME NEW r \in Requests, Share(r) PROVE Goal
  BY <1>1, <1>3, QuietSlides DEF NoOrphans, TokensOf, Share
<1>4. ASSUME NEW r \in Requests, Create(r) PROVE Goal
  BY <1>1, <1>4, CreateSlides DEF NoOrphans, TokensOf, Create, TypeOK
<1>5. ASSUME NEW r \in Requests, CommitSave(r) PROVE Goal
  <2>1. status[target[r]] = "live"
    BY <1>1, <1>5 DEF LockInv, HoldsRow, Saving, CommitSave, At
  <2>2. QED
    BY <1>1, <1>5, <2>1, CommitSaveSlides DEF NoOrphans, TokensOf, CommitSave
<1>6. ASSUME NEW r \in Requests, CommitDelete(r) PROVE Goal
  <2>1. SlidesOf(p)' = {}
    BY <1>1, <1>6, CommitDeleteSlides DEF NoOrphans, CommitDelete, TypeOK
  <2>2. TokensOf(p)' = TokensOf(p)
    BY <1>6 DEF CommitDelete, TokensOf
  <2>3. p = target[r] \/ status[p] # "live"
    BY <1>1, <1>6 DEF CommitDelete, TypeOK
  <2>4. QED
    BY <1>1, <1>6, <2>1, <2>2, <2>3 DEF NoOrphans, ClearInv, CommitDelete
<1>7. CASE UNCHANGED vars
  BY <1>1, <1>7 DEF NoOrphans, SlidesOf, TokensOf, vars
<1>8. QED
  BY <1>2, <1>3, <1>4, <1>5, <1>6, <1>7, Steps

-----------------------------------------------------------------------------
(* The theorems.                                                           *)

\* The row lock and what it protects, as one inductive invariant.
THEOREM IndInvHolds == Spec => []IndInv
<1>1. Init => IndInv
  <2> SUFFICES ASSUME Init PROVE IndInv
    OBVIOUS
  <2>1. TypeOK
    <3>1. (CHOOSE p \in Pids : TRUE) \in Pids
      BY PidsAssumption
    <3>2. QED
      BY <3>1 DEF Init, TypeOK, Ops, Reads, Locations
  <2>2. ControlInv /\ FreshInv /\ LockInv /\ DelInv /\ ClearInv
    BY DEF Init, ControlInv, FreshInv, LockInv, DelInv, ClearInv, HoldsRow, Saving,
           Unlinking, At
  <2>3. WholeDecks /\ NoOrphans
    BY DEF Init, WholeDecks, NoOrphans, SlidesOf, TokensOf
  <2>4. QED
    BY <2>1, <2>2, <2>3 DEF IndInv
<1>2. IndInv /\ [Next]_vars => IndInv'
  <2>1. IndInv => TypeOK
    BY DEF IndInv
  <2>2. QED
    BY <2>1, TypeStep, ControlStep, FreshStep, LockStep, DelStep, ClearStep, WholeStep,
       OrphanStep DEF IndInv
<1>3. QED
  BY <1>1, <1>2, PTL DEF Spec

\* However saves, deletes and failures interleave, a live presentation shows the
\* slides of exactly one request, the one whose title it carries.
THEOREM WholeDecksTheorem == Spec => []WholeDecks
BY IndInvHolds, PTL DEF IndInv

\* No slide or share token survives, or precedes, its presentation.
THEOREM NoOrphansTheorem == Spec => []NoOrphans
BY IndInvHolds, PTL DEF IndInv

-----------------------------------------------------------------------------
(* Refinement                                                              *)

\* A request that ends, ends in the store too.
LEMMA Settles ==
    ASSUME TypeOK, NEW r \in Requests, pc[r] \notin Ended, NEW loc \in Ended, Goto(r, loc)
    PROVE  Store!Settle(r, loc)
BY DEF Store!Settle, TypeOK, Goto

\* A request that moves on does nothing to the store.
LEMMA Pends ==
    ASSUME TypeOK, NEW r \in Requests, pc[r] \notin Ended,
           NEW loc \in Locations \ Ended, Goto(r, loc)
    PROVE  UNCHANGED [q \in Requests |-> IF pc[q] \in Ended THEN pc[q] ELSE "pending"]
BY DEF TypeOK, Goto

LEMMA QuietControl ==
    ASSUME IndInv, NEW r \in Requests, Quiet(r)
    PROVE  pc[r] \notin Ended /\ \E loc \in Locations : Goto(r, loc)
<1>1. TypeOK
  BY DEF IndInv
<1>2. pc[r] \notin Ended
  BY DEF Quiet, Find, SaveTitle, ListSlides, ClearSlides, FillSlides, UnlinkPresentation,
         CheckReferences, FindToken, ReadTitle, ReadSlides, DeadlockVictim, Fail, Arrive, Blockers, At,
         Ended
<1>3. \E loc \in Locations : Goto(r, loc)
  BY DEF Quiet, Find, SaveTitle, ListSlides, ClearSlides, FillSlides, UnlinkPresentation,
         CheckReferences, FindToken, ReadTitle, ReadSlides, DeadlockVictim, Fail, Arrive, Abort,
         Locations, Ended
<1>4. QED
  BY <1>2, <1>3

LEMMA StoreStep == IndInv /\ [Next]_vars => [Store!StoreNext]_(Store!storeVars)
<1> SUFFICES ASSUME IndInv, [Next]_vars PROVE Store!StoreNext \/ UNCHANGED Store!storeVars
  OBVIOUS
<1>1. TypeOK /\ ControlInv /\ FreshInv /\ LockInv /\ ClearInv
  BY DEF IndInv
<1> DEFINE D == [p \in Pids |-> SlidesOf(p)]
           L == [p \in Pids |-> {t.by : t \in TokensOf(p)}]
<1>2. ASSUME NEW r \in Requests, Quiet(r)
      PROVE  Store!StoreNext \/ UNCHANGED Store!storeVars
  <2>1. PICK loc \in Locations : Goto(r, loc)
    BY <1>2, QuietControl
  <2>2. pc[r] \notin Ended
    BY <1>2, QuietControl
  <2>3. UNCHANGED <<status, title, D, L>>
    BY <1>2, QuietTables, QuietSlides DEF tables, TokensOf
  <2>4. CASE loc \notin Ended
    BY <1>1, <2>1, <2>2, <2>3, <2>4, Pends DEF Store!storeVars
  <2>5. CASE loc = "done"
    <3>1. Store!Settle(r, "done")
      BY <1>1, <2>1, <2>2, <2>5, Settles DEF Ended
    <3>2. QED
      BY <2>3, <3>1 DEF Store!StoreNext, Store!StoreRead
  <2>6. CASE loc = "failed"
    <3>1. Store!Settle(r, "failed")
      BY <1>1, <2>1, <2>2, <2>6, Settles DEF Ended
    <3>2. QED
      BY <2>3, <3>1 DEF Store!StoreNext, Store!StoreFail
  <2>7. QED
    BY <2>4, <2>5, <2>6 DEF Ended
<1>3. ASSUME NEW r \in Requests, Create(r) PROVE Store!StoreNext
  <2>1. Store!Settle(r, "done")
    BY <1>1, <1>3, Settles DEF Create, At, Ended
  <2>2. target[r] \in Pids /\ status[target[r]] = "unused" /\ Owner(r)
    BY <1>1, <1>3 DEF TypeOK, FreshInv, Create
  <2>3. D' = [D EXCEPT ![target[r]] = Deck(r, target[r])]
    BY <1>3, <2>2, CreateSlides
  <2>4. UNCHANGED L
    BY <1>3 DEF Create, TokensOf
  <2>5. Store!StoreCreate(r, target[r])
    BY <1>3, <2>1, <2>2, <2>3, <2>4
       DEF Store!StoreCreate, Store!Write, Store!Owned, Store!Pages, Create, Owner, Deck
  <2>6. QED
    BY <2>2, <2>5 DEF Store!StoreNext
<1>4. ASSUME NEW r \in Requests, CommitSave(r) PROVE Store!StoreNext
  <2>1. Store!Settle(r, "done")
    BY <1>1, <1>4, Settles DEF CommitSave, At, Ended
  <2>2. target[r] \in Pids /\ status[target[r]] = "live" /\ Owner(r)
    BY <1>1, <1>4 DEF TypeOK, LockInv, ControlInv, CommitSave, HoldsRow, Saving, At, Ended
  <2>3. D' = [D EXCEPT ![target[r]] = Deck(r, target[r])]
    BY <1>4, <2>2, CommitSaveSlides
  <2>4. UNCHANGED L
    BY <1>4 DEF CommitSave, TokensOf
  <2>5. Store!StoreSave(r, target[r])
    BY <1>4, <2>1, <2>2, <2>3, <2>4
       DEF Store!StoreSave, Store!Write, Store!Owned, Store!Pages, CommitSave, Owner, Deck
  <2>6. QED
    BY <2>2, <2>5 DEF Store!StoreNext
<1>5. ASSUME NEW r \in Requests, CommitDelete(r) PROVE Store!StoreNext
  <2>1. Store!Settle(r, "done")
    BY <1>1, <1>5, Settles DEF CommitDelete, Ended
  <2>2. /\ target[r] \in Pids /\ status[target[r]] = "live" /\ Owner(r)
        /\ TokensOf(target[r]) = {}
    BY <1>1, <1>5 DEF TypeOK, LockInv, ControlInv, ClearInv, CommitDelete, HoldsRow,
                      Unlinking, Ended
  <2>3. D' = [D EXCEPT ![target[r]] = {}]
    BY <1>5, <2>2, CommitDeleteSlides
  <2>4. UNCHANGED L
    BY <1>5 DEF CommitDelete, TokensOf
  <2>5. L[target[r]] = {}
    BY <2>2
  <2>6. Store!StoreDelete(r, target[r])
    BY <1>5, <2>1, <2>2, <2>3, <2>4, <2>5
       DEF Store!StoreDelete, Store!Owned, CommitDelete, Owner
  <2>7. QED
    BY <2>2, <2>6 DEF Store!StoreNext
<1>6. ASSUME NEW r \in Requests, Share(r) PROVE Store!StoreNext
  <2>1. target[r] \in Pids /\ pc[r] \notin Ended /\ Owner(r)
    BY <1>1, <1>6 DEF TypeOK, ControlInv, Share, At, Ended
  <2>2. UNCHANGED <<status, title, D>>
    BY <1>6, QuietSlides DEF Share
  <2>3. CASE status[target[r]] = "live"
    <3>1. Store!Settle(r, "done")
      <4>1. Goto(r, "done")
        BY <1>6, <2>3 DEF Share
      <4>2. QED
        BY <1>1, <2>1, <4>1, Settles DEF Ended
    <3>2. tokens' = tokens \cup {[pid |-> target[r], by |-> r]}
      BY <1>6, <2>3 DEF Share
    <3>3. L' = [L EXCEPT ![target[r]] = @ \cup {r}]
      <4>1. \A p \in Pids : {t.by : t \in TokensOf(p)}'
                            = IF p = target[r] THEN {t.by : t \in TokensOf(p)} \cup {r}
                                               ELSE {t.by : t \in TokensOf(p)}
        <5> TAKE p \in Pids
        <5> DEFINE tok == [pid |-> target[r], by |-> r]
        <5>1. tok.pid = target[r] /\ tok.by = r
          OBVIOUS
        <5> HIDE DEF tok
        <5>2. TokensOf(p)' = IF p = target[r] THEN TokensOf(p) \cup {tok} ELSE TokensOf(p)
          BY <3>2, <5>1 DEF TokensOf, tok
        <5>3. {t.by : t \in TokensOf(p)}' = {t.by : t \in TokensOf(p)'}
          OBVIOUS
        <5>4. CASE p = target[r]
          BY <5>1, <5>2, <5>3, <5>4
        <5>5. CASE p # target[r]
          BY <5>2, <5>3, <5>5
        <5>6. QED
          BY <5>4, <5>5
      <4>2. QED
        BY <2>1, <4>1
    <3>4. PICK p \in Pids : p = target[r]
      BY <2>1
    <3>5. Store!StoreShare(r, p)
      BY <2>1, <2>2, <2>3, <3>1, <3>3, <3>4 DEF Store!StoreShare, Store!Owned, Owner
    <3>6. QED
      BY <3>5 DEF Store!StoreNext
  <2>4. CASE status[target[r]] # "live"
    <3>1. Store!Settle(r, "failed") /\ tokens' = tokens
      BY <1>1, <1>6, <2>1, <2>4, Settles DEF Share, Ended
    <3>2. UNCHANGED L
      BY <3>1 DEF TokensOf
    <3>3. QED
      BY <2>2, <3>1, <3>2 DEF Store!StoreNext, Store!StoreFail
  <2>5. QED
    BY <2>3, <2>4
<1>7. CASE UNCHANGED vars
  BY <1>7 DEF vars, Store!storeVars, SlidesOf, TokensOf
<1>8. QED
  BY <1>2, <1>3, <1>4, <1>5, <1>6, <1>7, Steps

\* The handlers, with all their statements, locks, aborts and failures,
\* implement the atomic store of whole decks.
THEOREM Refinement == Spec => ImplementsStore
<1>1. Init => Store!StoreInit
  BY DEF Init, Store!StoreInit, SlidesOf, TokensOf, Ended
<1>2. QED
  BY <1>1, StoreStep, IndInvHolds, PTL DEF Spec, ImplementsStore, Store!StoreSpec

-----------------------------------------------------------------------------
(* Reads                                                                   *)

\* What a commit does to the ranks: the new one is above all the others.
LEMMA NewStamp ==
    ASSUME TypeOK, StampInv, NEW r \in Requests, pc[r] # "done", Stamped(r)
    PROVE  /\ \A q \in Requests : q # r => stamp'[q] = stamp[q] /\ stamp[q] < stamp'[r]
           /\ \A q \in Requests : stamp'[q] <= Cardinality({w \in Requests : stamp'[w] > 0})
           /\ stamp[r] = 0 /\ stamp'[r] > 0
<1> DEFINE S == {w \in Requests : stamp[w] > 0}
           T == {w \in Requests : stamp'[w] > 0}
<1>1. stamp[r] = 0
  BY DEF StampInv, TypeOK
<1>2. IsFiniteSet(S) /\ Cardinality(S) \in Nat
  BY RequestsFinite, FS_Subset, FS_CardinalityType
<1>3. stamp' = [stamp EXCEPT ![r] = Cardinality(S) + 1]
  BY DEF Stamped
<1>4. T = S \cup {r} /\ r \notin S
  <2>1. PICK n \in Nat : n = Cardinality(S)
    BY <1>2
  <2>2. stamp'[r] = n + 1 /\ \A q \in Requests : q # r => stamp'[q] = stamp[q]
    BY <1>3, <2>1 DEF TypeOK
  <2>3. stamp'[r] > 0 /\ ~(stamp[r] > 0)
    BY <1>1, <2>2
  <2>4. QED
    BY <2>2, <2>3
<1>5. Cardinality(T) = Cardinality(S) + 1
  BY <1>2, <1>4, FS_AddElement
<1>6. \A q \in Requests : stamp[q] \in Nat /\ stamp[q] <= Cardinality(S)
  BY DEF StampInv, TypeOK
<1> HIDE DEF S, T
<1>7. \A q \in Requests : stamp'[q] <= Cardinality(T)
  BY <1>2, <1>3, <1>5, <1>6 DEF TypeOK
<1>8. QED
  BY <1>1, <1>2, <1>3, <1>6, <1>7 DEF TypeOK, T

\* An answered request stays answered.
LEMMA DoneStays ==
    ASSUME IndInv, [Next]_vars, NEW q \in Requests, pc[q] = "done"
    PROVE  pc'[q] = "done" /\ op'[q] = op[q] /\ target'[q] = target[q]
           /\ seen'[q] = seen[q] /\ seenTitle'[q] = seenTitle[q]
<1>1. TypeOK
  BY DEF IndInv
<1>2. ASSUME NEW r \in Requests, Quiet(r), q # r
      PROVE  /\ pc'[q] = pc[q] /\ op'[q] = op[q] /\ target'[q] = target[q]
             /\ seen'[q] = seen[q] /\ seenTitle'[q] = seenTitle[q]
  BY <1>1, <1>2 DEF Quiet, Find, SaveTitle, ListSlides, ClearSlides, FillSlides,
       UnlinkPresentation, CheckReferences, FindToken, ReadTitle, ReadSlides, DeadlockVictim, Fail,
       Arrive, Abort, Goto, TypeOK, tables, locals
<1>3. ASSUME NEW r \in Requests, Quiet(r) PROVE q # r
  BY <1>3, QuietControl DEF Ended
<1>4. ASSUME NEW r \in Requests, Create(r) \/ CommitSave(r) \/ CommitDelete(r) \/ Share(r)
      PROVE  /\ pc'[q] = pc[q] /\ op'[q] = op[q] /\ target'[q] = target[q]
             /\ seen'[q] = seen[q] /\ seenTitle'[q] = seenTitle[q]
  BY <1>1, <1>4 DEF Create, CommitSave, CommitDelete, Share, Goto, At, TypeOK, locals
<1>5. CASE UNCHANGED vars
  BY <1>5 DEF vars
<1>6. QED
  BY <1>2, <1>3, <1>4, <1>5, Steps

LEMMA StampStep == IndInv /\ StampInv /\ [Next]_vars => StampInv'
<1> SUFFICES ASSUME IndInv, StampInv, [Next]_vars PROVE StampInv'
  OBVIOUS
<1>1. TypeOK /\ FreshInv /\ LockInv /\ ControlInv
  BY DEF IndInv
<1>2. ASSUME NEW q \in Requests, pc[q] = "done" PROVE pc'[q] = "done"
  BY <1>2, DoneStays
<1>3. ASSUME UNCHANGED tables PROVE StampInv'
  BY <1>1, <1>2, <1>3 DEF StampInv, TypeOK, tables
<1>4. ASSUME NEW r \in Requests, Create(r) \/ CommitSave(r) PROVE StampInv'
  <2>1. /\ Stamped(r) /\ pc[r] # "done" /\ pc'[r] = "done"
        /\ title' = [title EXCEPT ![target[r]] = r]
        /\ \A p \in Pids : p = target[r] \/ status'[p] = status[p]
    BY <1>1, <1>4 DEF Create, CommitSave, At, Goto, TypeOK
  <2>2. /\ \A q \in Requests : q # r => stamp'[q] = stamp[q] /\ stamp[q] < stamp'[r]
        /\ \A q \in Requests : stamp'[q] <= Cardinality({w \in Requests : stamp'[w] > 0})
    BY <1>1, <2>1, NewStamp
  <2>3. \A q \in Requests : stamp'[q] > 0 => pc'[q] = "done"
    BY <1>2, <2>1, <2>2 DEF StampInv
  <2>4. \A p \in Pids : title'[p] # NoRequest => pc'[title'[p]] = "done"
    BY <1>1, <1>2, <2>1 DEF StampInv, TypeOK
  <2>5. \A p \in Pids : status'[p] # "unused" => title'[p] # NoRequest
    BY <1>1, <2>1, NoRequestAssumption DEF StampInv, TypeOK
  <2>6. QED
    BY <2>2, <2>3, <2>4, <2>5 DEF StampInv
<1>5. ASSUME NEW r \in Requests, CommitDelete(r) PROVE StampInv'
  <2>1. status[target[r]] = "live"
    BY <1>1, <1>5 DEF LockInv, ControlInv, HoldsRow, Unlinking, CommitDelete
  <2>2. QED
    BY <1>1, <1>2, <1>5, <2>1 DEF StampInv, TypeOK, CommitDelete
<1>6. ASSUME NEW r \in Requests, Share(r) PROVE StampInv'
  BY <1>1, <1>2, <1>6 DEF StampInv, TypeOK, Share
<1>7. QED
  BY <1>3, <1>4, <1>5, <1>6, Steps, QuietTables DEF vars, tables

\* Ranks never shrink, and those of committed writes never change.
LEMMA StampsKeep ==
    ASSUME IndInv, StampInv, [Next]_vars, NEW q \in Requests
    PROVE  /\ stamp[q] \in Nat /\ stamp'[q] \in Nat /\ stamp[q] <= stamp'[q]
           /\ pc[q] = "done" => stamp'[q] = stamp[q]
<1>1. TypeOK
  BY DEF IndInv
<1>2. stamp[q] \in Nat /\ stamp'[q] \in Nat
  BY <1>1, TypeStep DEF TypeOK
<1>3. ASSUME NEW r \in Requests, Create(r) \/ CommitSave(r)
      PROVE  stamp[q] <= stamp'[q] /\ (pc[q] = "done" => stamp'[q] = stamp[q])
  <2>1. Stamped(r) /\ pc[r] # "done"
    BY <1>3 DEF Create, CommitSave, At
  <2>2. QED
    BY <1>1, <1>2, <2>1, NewStamp
<1>4. ASSUME stamp' = stamp
      PROVE  stamp[q] <= stamp'[q] /\ (pc[q] = "done" => stamp'[q] = stamp[q])
  BY <1>2, <1>4
<1>5. QED
  BY <1>2, <1>3, <1>4, Steps, QuietTables DEF vars, tables, CommitDelete, Share

\* A deleted presentation never comes back.
LEMMA GoneStays ==
    ASSUME IndInv, [Next]_vars, NEW p \in Pids, status[p] = "gone"
    PROVE  status'[p] = "gone"
<1>1. TypeOK /\ FreshInv
  BY DEF IndInv
<1>2. ASSUME NEW r \in Requests, Create(r) PROVE status'[p] = "gone"
  BY <1>1, <1>2 DEF FreshInv, Create, TypeOK
<1>3. ASSUME NEW r \in Requests, CommitDelete(r) \/ CommitSave(r) \/ Share(r)
      PROVE  status'[p] = "gone"
  BY <1>1, <1>3 DEF CommitDelete, CommitSave, Share, TypeOK
<1>4. QED
  BY <1>2, <1>3, Steps, QuietTables DEF vars, tables

\* While a presentation lives, its title only moves to later writes.
LEMMA TitlesAdvance ==
    ASSUME IndInv, StampInv, [Next]_vars, NEW p \in Pids, NEW t \in Requests, pc[t] = "done",
           status[p] = "live", stamp[title[p]] >= stamp[t]
    PROVE  \/ status'[p] = "gone"
           \/ status'[p] = "live" /\ stamp'[title'[p]] >= stamp'[t]
<1>1. TypeOK /\ FreshInv
  BY DEF IndInv
<1>2. title[p] \in Requests
  BY <1>1 DEF StampInv, TypeOK
<1>3. /\ stamp'[t] = stamp[t] /\ stamp[t] \in Nat
      /\ stamp[title[p]] <= stamp'[title[p]]
      /\ stamp[title[p]] \in Nat /\ stamp'[title[p]] \in Nat
  BY <1>2, StampsKeep
<1>4. ASSUME status'[p] = status[p], title'[p] = title[p]
      PROVE  status'[p] = "live" /\ stamp'[title'[p]] >= stamp'[t]
  BY <1>3, <1>4
<1>5. ASSUME NEW r \in Requests, CommitSave(r), p = target[r]
      PROVE  status'[p] = "live" /\ stamp'[title'[p]] >= stamp'[t]
  <2>1. status' = status /\ title'[p] = r /\ Stamped(r) /\ pc[r] # "done"
    BY <1>1, <1>5 DEF CommitSave, At, TypeOK
  <2>2. stamp[t] < stamp'[r] /\ stamp'[r] \in Nat
    BY <1>1, <2>1, NewStamp, StampsKeep
  <2>3. QED
    BY <1>3, <2>1, <2>2
<1>6. ASSUME NEW r \in Requests, CommitSave(r) \/ Create(r), p # target[r]
      PROVE  status'[p] = status[p] /\ title'[p] = title[p]
  BY <1>1, <1>6 DEF CommitSave, Create, TypeOK
<1>7. ASSUME NEW r \in Requests, Create(r) PROVE p # target[r]
  BY <1>1, <1>7 DEF FreshInv, Create
<1>8. ASSUME NEW r \in Requests, CommitDelete(r)
      PROVE  status'[p] = "gone" \/ (status'[p] = status[p] /\ title'[p] = title[p])
  BY <1>1, <1>8 DEF CommitDelete, TypeOK
<1>9. ASSUME NEW r \in Requests, Share(r) \/ Quiet(r)
      PROVE  status'[p] = status[p] /\ title'[p] = title[p]
  BY <1>9, QuietTables DEF Share, tables
<1>10. QED
  BY <1>4, <1>5, <1>6, <1>7, <1>8, <1>9, Steps DEF vars

\* How a request gets into the middle of a read.
LEMMA EntersReading ==
    ASSUME IndInv, [Next]_vars, NEW q \in Requests, pc'[q] = "reading", pc[q] # "reading"
    PROVE  ReadTitle(q)
<1>1. TypeOK
  BY DEF IndInv
<1>2. QED
  BY <1>1 DEF Next, Step, AllEnded, Create, Find, SaveTitle, ListSlides, ClearSlides,
       FillSlides, CommitSave, UnlinkPresentation, CheckReferences, CommitDelete, Share,
       FindToken, ReadTitle, ReadSlides, DeadlockVictim, Fail, Arrive, Abort, Goto, TypeOK, vars

\* Only the two SELECTs of a read touch what it has seen.
LEMMA SeenKeeps ==
    ASSUME IndInv, [Next]_vars, NEW q \in Requests, ~ReadTitle(q), ~ReadSlides(q)
    PROVE  seenTitle'[q] = seenTitle[q] /\ seen'[q] = seen[q]
<1>1. TypeOK
  BY DEF IndInv
<1>2. QED
  BY <1>1 DEF Next, Step, AllEnded, Create, Find, SaveTitle, ListSlides, ClearSlides,
       FillSlides, CommitSave, UnlinkPresentation, CheckReferences, CommitDelete, Share,
       FindToken, ReadTitle, ReadSlides, DeadlockVictim, Fail, Arrive, Abort, Goto, TypeOK, vars,
       locals

\* A read request keeps its endpoint and its id.
LEMMA ReadKeeps ==
    ASSUME IndInv, [Next]_vars, NEW q \in Requests, pc[q] # "new"
    PROVE  op'[q] = op[q] /\ target'[q] = target[q]
<1>1. TypeOK
  BY DEF IndInv
<1>2. QED
  BY <1>1 DEF Next, Step, AllEnded, Create, Find, SaveTitle, ListSlides, ClearSlides,
       FillSlides, CommitSave, UnlinkPresentation, CheckReferences, CommitDelete, Share,
       FindToken, ReadTitle, ReadSlides, DeadlockVictim, Fail, Arrive, Abort, Goto, TypeOK, vars,
       locals

\* A read is answered by its second SELECT only.
LEMMA EntersDone ==
    ASSUME IndInv, [Next]_vars, NEW q \in Requests, pc'[q] = "done", pc[q] # "done",
           op'[q] \in Reads
    PROVE  ReadSlides(q)
<1>1. TypeOK /\ ControlInv
  BY DEF IndInv
<1>2. QED
  BY <1>1 DEF Next, Step, AllEnded, Create, Find, SaveTitle, ListSlides, ClearSlides,
       FillSlides, CommitSave, UnlinkPresentation, CheckReferences, CommitDelete, Share,
       FindToken, ReadTitle, ReadSlides, DeadlockVictim, Fail, Arrive, Abort, Goto, TypeOK, vars,
       locals, At, ControlInv, Reads

\* A share link is never removed.
LEMMA TokensKeep ==
    ASSUME [Next]_vars, NEW p, TokensOf(p) # {}
    PROVE  \E t \in tokens' : t.pid = p
<1>1. tokens \subseteq tokens'
  BY Steps, QuietTables DEF vars, tables, Create, CommitSave, CommitDelete, Share
<1>2. QED
  BY <1>1 DEF TokensOf

\* A reader that has passed the lookup of its link has a link.
LEMMA LinkStep ==
    ASSUME IndInv, ReadInv, [Next]_vars, NEW q \in Requests,
           op'[q] = "shared", pc'[q] \in {"linked", "reading", "done"}
    PROVE  \E t \in tokens' : t.pid = target'[q]
<1>1. TypeOK
  BY DEF IndInv
<1>2. CASE op[q] = "shared" /\ pc[q] \in {"linked", "reading", "done"}
  <2>1. target'[q] = target[q] /\ TokensOf(target[q]) # {}
    BY <1>2, ReadKeeps DEF ReadInv
  <2>2. QED
    BY <2>1, TokensKeep
<1>3. CASE FindToken(q)
  <2>1. target'[q] = target[q] /\ TokensOf(target[q]) # {}
    BY <1>1, <1>3 DEF FindToken, Goto, TypeOK, locals
  <2>2. QED
    BY <2>1, TokensKeep
<1>4. CASE ~FindToken(q) /\ ~(op[q] = "shared" /\ pc[q] \in {"linked", "reading", "done"})
  <2>1. FALSE
    BY <1>1, <1>4 DEF Next, Step, AllEnded, Create, Find, SaveTitle, ListSlides, ClearSlides,
       FillSlides, CommitSave, UnlinkPresentation, CheckReferences, CommitDelete, Share,
       FindToken, ReadTitle, ReadSlides, DeadlockVictim, Fail, Arrive, Abort, Goto, TypeOK, vars,
       locals, At, IndInv, ControlInv, Reads
  <2>2. QED
    BY <2>1
<1>5. QED
  BY <1>2, <1>3, <1>4

LEMMA ReadStep == IndInv /\ StampInv /\ ReadInv /\ [Next]_vars => ReadInv'
<1> SUFFICES ASSUME IndInv, StampInv, ReadInv, [Next]_vars, NEW q \in Requests
             PROVE  /\ pc'[q] = "reading" => op'[q] \in Reads
                    /\ seenTitle'[q] # NoRequest => pc'[seenTitle'[q]] = "done"
                    /\ pc'[q] = "reading" =>
                         /\ seenTitle'[q] # NoRequest
                         /\ \/ status'[target'[q]] = "gone"
                            \/ /\ status'[target'[q]] = "live"
                               /\ stamp'[title'[target'[q]]] >= stamp'[seenTitle'[q]]
                    /\ (op'[q] \in Reads /\ pc'[q] = "done") =>
                         seenTitle'[q] # NoRequest
  BY LinkStep DEF ReadInv, TokensOf
<1>1. TypeOK /\ TypeOK'
  BY TypeStep DEF IndInv
<1>2. CASE ReadTitle(q)
  <2>0. CASE pc'[q] # "reading"
    <3>1. seenTitle' = seenTitle /\ pc'[q] = "failed"
      BY <1>1, <1>2, <2>0 DEF ReadTitle, Goto, TypeOK
    <3>2. seenTitle[q] # NoRequest => pc'[seenTitle[q]] = "done"
      BY <1>1, DoneStays DEF ReadInv, TypeOK
    <3>3. QED
      BY <3>1, <3>2
  <2>1. CASE pc'[q] = "reading"
    <3>1. /\ op'[q] \in Reads /\ target'[q] = target[q] /\ target[q] \in Pids
          /\ status[target[q]] = "live" /\ seenTitle'[q] = title[target[q]]
          /\ status' = status /\ title' = title /\ stamp' = stamp
      BY <1>1, <1>2, <2>1 DEF ReadTitle, Goto, TypeOK, tables, Reads
    <3>2. title[target[q]] \in Requests /\ pc[title[target[q]]] = "done"
      BY <1>1, <3>1 DEF StampInv, TypeOK
    <3>3. pc'[title[target[q]]] = "done" /\ title[target[q]] # NoRequest
      BY <3>2, DoneStays, NoRequestAssumption
    <3>4. stamp[title[target[q]]] \in Nat
      BY <1>1, <3>2 DEF TypeOK
    <3>5. QED
      BY <2>1, <3>1, <3>3, <3>4
  <2>2. QED
    BY <2>0, <2>1
<1>3. CASE ~ReadTitle(q)
  <2>1. seenTitle'[q] = seenTitle[q]
    <3>1. ReadSlides(q) => seenTitle' = seenTitle
      BY DEF ReadSlides
    <3>2. QED
      BY <1>3, <3>1, SeenKeeps
  <2>2. seenTitle[q] # NoRequest => seenTitle[q] \in Requests /\ pc[seenTitle[q]] = "done"
    BY <1>1 DEF ReadInv, TypeOK
  <2>3. seenTitle'[q] # NoRequest => pc'[seenTitle'[q]] = "done"
    BY <2>1, <2>2, DoneStays
  <2>4. ASSUME pc'[q] = "reading"
        PROVE  /\ op'[q] \in Reads /\ seenTitle'[q] # NoRequest
               /\ \/ status'[target'[q]] = "gone"
                  \/ /\ status'[target'[q]] = "live"
                     /\ stamp'[title'[target'[q]]] >= stamp'[seenTitle'[q]]
    <3>1. pc[q] = "reading"
      BY <1>3, <2>4, EntersReading
    <3>2. op'[q] = op[q] /\ target'[q] = target[q] /\ target[q] \in Pids
      BY <1>1, <3>1, ReadKeeps DEF TypeOK
    <3>3. /\ op[q] \in Reads /\ seenTitle[q] # NoRequest
          /\ \/ status[target[q]] = "gone"
             \/ status[target[q]] = "live" /\ stamp[title[target[q]]] >= stamp[seenTitle[q]]
      BY <3>1 DEF ReadInv
    <3>4. CASE status[target[q]] = "gone"
      BY <2>1, <3>2, <3>3, <3>4, GoneStays
    <3>5. CASE status[target[q]] = "live" /\ stamp[title[target[q]]] >= stamp[seenTitle[q]]
      BY <2>1, <2>2, <3>2, <3>3, <3>5, TitlesAdvance
    <3>6. QED
      BY <3>3, <3>4, <3>5
  <2>5. ASSUME op'[q] \in Reads, pc'[q] = "done"
        PROVE  seenTitle'[q] # NoRequest
    <3>1. CASE pc[q] = "done"
      BY <2>1, <2>5, <3>1, DoneStays DEF ReadInv
    <3>2. CASE pc[q] # "done"
      <4>1. pc[q] = "reading"
        BY <2>5, <3>2, EntersDone DEF ReadSlides
      <4>2. QED
        BY <2>1, <4>1 DEF ReadInv
    <3>3. QED
      BY <3>1, <3>2
  <2>6. QED
    BY <2>3, <2>4, <2>5
<1>4. QED
  BY <1>2, <1>3

LEMMA ForwardStep ==
    IndInv /\ StampInv /\ ReadInv /\ ReadsForward /\ [Next]_vars => ReadsForward'
<1> SUFFICES ASSUME IndInv, StampInv, ReadInv, ReadsForward, [Next]_vars,
                    NEW q \in Requests, op'[q] \in Reads, pc'[q] = "done"
             PROVE  \/ seen'[q] = {} /\ status'[target'[q]] = "gone" /\ op'[q] # "shared"
                    \/ \E w \in Requests : /\ seen'[q] = Deck(w, target'[q])
                                           /\ stamp'[w] >= stamp'[seenTitle'[q]]
  BY DEF ReadsForward, Deck
<1>1. TypeOK
  BY DEF IndInv
<1>2. seenTitle[q] # NoRequest => seenTitle[q] \in Requests /\ pc[seenTitle[q]] = "done"
  BY <1>1 DEF ReadInv, TypeOK
<1>3. CASE pc[q] = "done"
  <2>1. /\ op'[q] = op[q] /\ target'[q] = target[q] /\ seen'[q] = seen[q]
        /\ seenTitle'[q] = seenTitle[q] /\ target[q] \in Pids
    BY <1>1, <1>3, DoneStays DEF TypeOK
  <2>2. seenTitle[q] \in Requests /\ pc[seenTitle[q]] = "done"
    BY <1>2, <1>3, <2>1 DEF ReadInv
  <2>3. CASE seen[q] = {} /\ status[target[q]] = "gone" /\ op[q] # "shared"
    BY <2>1, <2>3, GoneStays
  <2>4. ASSUME NEW w \in Requests, seen[q] = Deck(w, target[q]),
               stamp[w] >= stamp[seenTitle[q]]
        PROVE  seen'[q] = Deck(w, target'[q]) /\ stamp'[w] >= stamp'[seenTitle'[q]]
    <3>1. stamp'[seenTitle[q]] = stamp[seenTitle[q]] /\ stamp[seenTitle[q]] \in Nat
      BY <2>2, StampsKeep
    <3>2. stamp[w] \in Nat /\ stamp'[w] \in Nat /\ stamp[w] <= stamp'[w]
      BY StampsKeep
    <3>3. QED
      BY <2>1, <2>4, <3>1, <3>2
  <2>5. QED
    BY <1>3, <2>1, <2>3, <2>4 DEF ReadsForward
<1>4. CASE pc[q] # "done"
  <2>1. ReadSlides(q)
    BY <1>4, EntersDone
  <2>2. /\ pc[q] = "reading" /\ seen'[q] = SlidesOf(target[q]) /\ target'[q] = target[q]
        /\ seenTitle'[q] = seenTitle[q] /\ status' = status /\ stamp' = stamp
        /\ target[q] \in Pids
    BY <1>1, <2>1 DEF ReadSlides, TypeOK, tables
  <2>3. \/ status[target[q]] = "gone"
        \/ status[target[q]] = "live" /\ stamp[title[target[q]]] >= stamp[seenTitle[q]]
    BY <2>2 DEF ReadInv
  <2>4. CASE status[target[q]] = "gone"
    <3>1. SlidesOf(target[q]) = {} /\ TokensOf(target[q]) = {}
      BY <2>2, <2>4 DEF IndInv, NoOrphans
    <3>2. op[q] # "shared" /\ op'[q] = op[q]
      BY <2>2, <3>1, ReadKeeps DEF ReadInv
    <3>3. QED
      BY <2>2, <2>4, <3>1, <3>2
  <2>5. CASE status[target[q]] = "live" /\ stamp[title[target[q]]] >= stamp[seenTitle[q]]
    <3>1. title[target[q]] \in Requests
      BY <1>1, <2>2, <2>5 DEF StampInv, TypeOK
    <3>2. SlidesOf(target[q]) = Deck(title[target[q]], target[q])
      BY <2>2, <2>5 DEF IndInv, WholeDecks
    <3>3. QED
      BY <2>2, <2>5, <3>1, <3>2
  <2>6. QED
    BY <2>3, <2>4, <2>5
<1>5. QED
  BY <1>3, <1>4

\* A read that runs concurrently with saves and a delete returns one whole deck,
\* never older than the title it comes with; with a share link it always does.
THEOREM ReadsForwardTheorem == Spec => []ReadsForward
<1>1. Init => StampInv /\ ReadInv /\ ReadsForward
  <2> SUFFICES ASSUME Init PROVE StampInv /\ ReadInv /\ ReadsForward
    OBVIOUS
  <2>1. {w \in Requests : stamp[w] > 0} = {}
    BY DEF Init
  <2>2. Cardinality({w \in Requests : stamp[w] > 0}) = 0
    BY <2>1, FS_EmptySet
  <2>3. StampInv
    BY <2>2 DEF Init, StampInv
  <2>4. ReadInv /\ ReadsForward
    BY DEF Init, ReadInv, ReadsForward
  <2>5. QED
    BY <2>3, <2>4
<1>2. IndInv /\ StampInv /\ ReadInv /\ ReadsForward /\ [Next]_vars
        => (StampInv /\ ReadInv /\ ReadsForward)'
  BY StampStep, ReadStep, ForwardStep
<1>3. QED
  BY <1>1, <1>2, IndInvHolds, PTL DEF Spec
=============================================================================
