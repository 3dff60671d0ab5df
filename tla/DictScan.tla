------------------------------- MODULE DictScan ------------------------------
(***************************************************************************)
(* The hash table of Redis (redis-stable/src/dict.c) and a client that     *)
(* walks it with SCAN.  The table grows and shrinks, and moves its entries *)
(* from the old to the new table a bucket at a time, in the steps that     *)
(* other commands pay for; the cursor of the walk is all that is kept      *)
(* between two of its calls.                                               *)
(*                                                                         *)
(* A table is the set of its keys with its size: the bucket of a key       *)
(* follows from its hash, and the order within a bucket does not matter.   *)
(* A word, a hash or a cursor, is the set of its bits that are one.        *)
(***************************************************************************)
EXTENDS Integers, FiniteSets, FiniteSetsExt

CONSTANTS
    Keys,
    Hash,           \* the hash of each key
    W,              \* the width of hashes and cursors, at least that of the largest table
    InitialExp,     \* DICT_HT_INITIAL_EXP
    MinFill,        \* HASHTABLE_MIN_FILL
    ForceRatio,     \* dict_force_resize_ratio
    EmptyVisits     \* empty buckets visited by a step of rehashing

\* 1 << e
Pow2[e \in 0..W] == IF e = 0 THEN 1 ELSE 2 * Pow2[e - 1]

Bits == 0..(W - 1)
Words == SUBSET Bits
Zero == {}

ASSUME WidthAssumption == W \in Nat /\ InitialExp \in 0..W
ASSUME KeysAssumption == IsFiniteSet(Keys) /\ Cardinality(Keys) < Pow2[W]
ASSUME HashAssumption == Hash \in [Keys -> Words]
ASSUME RatiosAssumption == {MinFill, ForceRatio, EmptyVisits} \subseteq Nat \ {0}

VARIABLES
    d,              \* the dict: its tables t0 and t1, their size exponents, rehashidx
    can_resize,     \* dict_can_resize: "avoid" while a child process is saving
    cursor,         \* the cursor of the walk
    walk,           \* history: "none", "going" or "done"
    owed            \* history: keys there since the start of the walk, not yet returned

vars == <<d, can_resize, cursor, walk, owed>>

-----------------------------------------------------------------------------
(* The tables                                                              *)

DICTHT_SIZE(e) == IF e = -1 THEN 0 ELSE Pow2[e]

\* w & DICTHT_SIZE_MASK(e): the number in the lowest e bits of w.
Masked[e \in 0..W] ==
    IF e = 0 THEN [w \in Words |-> 0]
    ELSE [w \in Words |-> Masked[e - 1][w] + (IF e - 1 \in w THEN Pow2[e - 1] ELSE 0)]

BucketOf(k, e) == Masked[e][Hash[k]]
Bucket(t, e, i) == {k \in t : BucketOf(k, e) = i}
dictIsRehashing(c) == c.rehashidx # -1
dictKeys(c) == c.t0 \cup c.t1
EmptyDict == [t0 |-> {}, t1 |-> {}, e0 |-> -1, e1 |-> -1, rehashidx |-> -1]

\* rehashEntriesInBucketAtIndex
rehashEntriesInBucketAtIndex(c, i) ==
    [c EXCEPT !.t0 = @ \ Bucket(c.t0, c.e0, i), !.t1 = @ \cup Bucket(c.t0, c.e0, i)]

\* dictCheckRehashingCompleted: with nothing left in the old table the new one takes its place.
CheckCompleted(c) ==
    IF c.t0 # {} THEN c ELSE [EmptyDict EXCEPT !.t0 = c.t1, !.e0 = c.e1]

\* The guard of dictRehash and _dictBucketRehash: during a save only a table that
\* is far off its size is rehashed.
MayRehash(c) ==
    LET s0 == DICTHT_SIZE(c.e0)
        s1 == DICTHT_SIZE(c.e1)
    IN  /\ dictIsRehashing(c)
        /\ can_resize = "avoid" => ~\/ s1 > s0 /\ s1 < ForceRatio * s0
                                    \/ s1 < s0 /\ s0 < MinFill * ForceRatio * s1

\* Mutant: rehashidx goes one bucket too far.
dictRehashSkips(c) ==
    IF ~MayRehash(c) THEN c
    ELSE IF {k \in c.t0 : BucketOf(k, c.e0) >= c.rehashidx} = {} THEN CheckCompleted(c)
    ELSE LET i == Min({BucketOf(k, c.e0) : k \in {x \in c.t0 : BucketOf(x, c.e0) >= c.rehashidx}})
         IN  CheckCompleted([rehashEntriesInBucketAtIndex(c, i) EXCEPT !.rehashidx = i + 2])

\* dictRehash(d, 1): skip empty buckets, up to a limit, and move the next bucket.
dictRehash(c) ==
    IF ~MayRehash(c) THEN c
    ELSE IF c.t0 = {} THEN CheckCompleted(c)
    ELSE LET i == Min({BucketOf(k, c.e0) : k \in {x \in c.t0 : BucketOf(x, c.e0) >= c.rehashidx}})
         IN  IF i - c.rehashidx >= EmptyVisits
             THEN [c EXCEPT !.rehashidx = @ + EmptyVisits]
             ELSE CheckCompleted([rehashEntriesInBucketAtIndex(c, i) EXCEPT !.rehashidx = i + 1])

\* _dictBucketRehash
dictBucketRehash(c, i) ==
    IF MayRehash(c) THEN CheckCompleted(rehashEntriesInBucketAtIndex(c, i)) ELSE c

\* _dictRehashStepIfNeeded: the bucket at hand, when it is not empty and not
\* moved yet, and otherwise the next one.
RehashStepIfNeeded(c, k) ==
    LET i == BucketOf(k, c.e0)
    IN  IF ~dictIsRehashing(c) THEN c
        ELSE IF i >= c.rehashidx /\ Bucket(c.t0, c.e0, i) # {}
        THEN dictBucketRehash(c, i)
        ELSE dictRehash(c)

\* Mutant: the size is taken for its exponent.
NextExpSize(size) == IF size <= Pow2[InitialExp] THEN InitialExp ELSE size

\* _dictNextExp
NextExp(size) == IF size <= Pow2[InitialExp] THEN InitialExp ELSE Min({e \in 0..W : Pow2[e] >= size})

\* _dictResize: an empty table is replaced at once.
Resize(c, size) ==
    IF NextExp(size) = c.e0 THEN c
    ELSE IF c.t0 = {} THEN [c EXCEPT !.e0 = NextExp(size)]
    ELSE [c EXCEPT !.e1 = NextExp(size), !.rehashidx = 0]

\* A table with `used` keys for `fill` buckets is to be resized: now, or during a
\* save when it is ForceRatio times over.
Due(used, fill) == IF can_resize = "avoid" THEN used >= ForceRatio * fill ELSE used >= fill

\* dictExpandIfNeeded; `allowed` is the type's resizeAllowed and no pauseAutoResize.
ExpandIfNeeded(c, allowed) ==
    IF dictIsRehashing(c) THEN c
    ELSE IF c.e0 = -1 THEN Resize(c, Pow2[InitialExp])
    ELSE IF allowed /\ Due(Cardinality(c.t0), DICTHT_SIZE(c.e0))
            /\ DICTHT_SIZE(c.e0) < Cardinality(c.t0) + 1
    THEN Resize(c, Cardinality(c.t0) + 1) ELSE c

\* dictShrinkIfNeeded, not below the initial size.
ShrinkIfNeeded(c, allowed) ==
    IF /\ ~dictIsRehashing(c) /\ DICTHT_SIZE(c.e0) > Pow2[InitialExp]
       /\ allowed /\ Due(DICTHT_SIZE(c.e0), Cardinality(c.t0) * MinFill)
       /\ DICTHT_SIZE(c.e0) > Cardinality(c.t0)
    THEN Resize(c, Cardinality(c.t0)) ELSE c

\* dictFindLinkInternal: the old table is not looked at below rehashidx.
Finds(c, k) ==
    \/ k \in c.t0 /\ ~(BucketOf(k, c.e0) < c.rehashidx)
    \/ k \in c.t1 /\ dictIsRehashing(c)

-----------------------------------------------------------------------------
(* The walk                                                                *)

\* v = rev(v); v++; v = rev(v): one is added at the highest bit, and the carry goes
\* down: past the ones at the top, to the first zero, or out of the lowest bit.
RevIncrement ==
    [w \in Words |-> LET zeros == Bits \ w
                     IN  IF zeros = {} THEN Zero ELSE {i \in w : i < Max(zeros)} \cup {Max(zeros)}]

\* Mutant: the cursor counts up from its lowest bit.
AdvancePlain(v, e) ==
    LET zeros == (0..(e - 1)) \ v
    IN  IF zeros = {} THEN Zero ELSE {i \in v : i < e /\ i > Min(zeros)} \cup {Min(zeros)}

\* Mutant: the bits above the mask are cleared instead of set.
AdvanceCleared(v, e) == RevIncrement[{i \in v : i < e}]

\* v |= ~mask of a table of size 2^e, so that the carry gets to the bits of the mask.
Advance(v, e) == RevIncrement[v \cup (e..(W - 1))]

\* dictScan during rehashing: the bucket of the smaller table, with its expansions
\* in the larger one until the bits by which the masks differ are zero again.
ScanBoth(small, se, large, le, v) ==
    LET expansions[u \in Words] ==
            LET here == Bucket(large, le, Masked[le][u])
                next == Advance(u, le)
            IN  IF next \cap (se..(le - 1)) = {} THEN [found |-> here, cursor |-> next]
                ELSE [expansions[next] EXCEPT !.found = @ \cup here]
    IN  [expansions[v] EXCEPT !.found = @ \cup Bucket(small, se, Masked[se][v])]

\* dictScan: the keys returned, and the next cursor.
dictScan(c, v) ==
    IF dictKeys(c) = {} THEN [found |-> {}, cursor |-> Zero]
    ELSE IF ~dictIsRehashing(c)
    THEN [found |-> Bucket(c.t0, c.e0, Masked[c.e0][v]), cursor |-> Advance(v, c.e0)]
    ELSE IF c.e0 > c.e1 THEN ScanBoth(c.t1, c.e1, c.t0, c.e0, v)
    ELSE ScanBoth(c.t0, c.e0, c.t1, c.e1, v)

-----------------------------------------------------------------------------
(* Commands and cron                                                       *)

Init ==
    /\ d = EmptyDict
    /\ can_resize = "enable"
    /\ cursor = Zero /\ walk = "none" /\ owed = {}

\* dictFindLinkForInsert and dictInsertKeyAtLink: into the new table while rehashing.
Add(k, allowed) ==
    LET c == ExpandIfNeeded(RehashStepIfNeeded(d, k), allowed)
    IN  /\ k \notin dictKeys(d)
        /\ d' = IF dictIsRehashing(c) THEN [c EXCEPT !.t1 = @ \cup {k}] ELSE [c EXCEPT !.t0 = @ \cup {k}]
        /\ UNCHANGED <<can_resize, cursor, walk, owed>>

\* dictGenericDelete
Delete(k, allowed) ==
    LET c == RehashStepIfNeeded(d, k)
    IN  /\ k \in dictKeys(d) /\ Finds(c, k)
        /\ d' = ShrinkIfNeeded([c EXCEPT !.t0 = @ \ {k}, !.t1 = @ \ {k}], allowed)
        /\ owed' = owed \ {k}
        /\ UNCHANGED <<can_resize, cursor, walk>>

\* A lookup only pays for a step.
Find(k) ==
    /\ dictIsRehashing(d) /\ dictKeys(d) # {}
    /\ d' = RehashStepIfNeeded(d, k)
    /\ UNCHANGED <<can_resize, cursor, walk, owed>>

\* dictRehashMicroseconds, step by step.
RehashStep ==
    /\ dictIsRehashing(d)
    /\ d' = dictRehash(d)
    /\ UNCHANGED <<can_resize, cursor, walk, owed>>

\* kvstoreTryResizeDicts: expanding is tried where shrinking is not due, but not at
\* the initial size, where dictShrinkIfNeeded has nothing more to do.
TryResize(allowed) ==
    /\ ~dictIsRehashing(d) /\ DICTHT_SIZE(d.e0) > Pow2[InitialExp]
    /\ d' = IF Due(DICTHT_SIZE(d.e0), Cardinality(d.t0) * MinFill) THEN ShrinkIfNeeded(d, allowed)
            ELSE ExpandIfNeeded(d, allowed)
    /\ UNCHANGED <<can_resize, cursor, walk, owed>>

\* dictEmpty
Flush ==
    /\ d' = EmptyDict
    /\ owed' = {}
    /\ UNCHANGED <<can_resize, cursor, walk>>

\* updateDictResizePolicy when a child process starts or ends.
ResizePolicy ==
    /\ can_resize' = IF can_resize = "enable" THEN "avoid" ELSE "enable"
    /\ UNCHANGED <<d, cursor, walk, owed>>

\* SCAN 0
ScanFirst ==
    LET answer == dictScan(d, Zero)
    IN  /\ walk # "going"
        /\ cursor' = answer.cursor
        /\ owed' = dictKeys(d) \ answer.found
        /\ walk' = IF cursor' = Zero THEN "done" ELSE "going"
        /\ UNCHANGED <<d, can_resize>>

\* SCAN with the cursor of the last answer.
ScanNext ==
    LET answer == dictScan(d, cursor)
    IN  /\ walk = "going"
        /\ cursor' = answer.cursor
        /\ owed' = owed \ answer.found
        /\ walk' = IF cursor' = Zero THEN "done" ELSE "going"
        /\ UNCHANGED <<d, can_resize>>

Next ==
    \/ \E k \in Keys, allowed \in BOOLEAN : Add(k, allowed) \/ Delete(k, allowed)
    \/ \E k \in Keys : Find(k)
    \/ RehashStep
    \/ \E allowed \in BOOLEAN : TryResize(allowed)
    \/ Flush \/ ResizePolicy \/ ScanFirst \/ ScanNext

Spec == Init /\ [][Next]_vars

\* The client goes on with its walk.
FairSpec == Spec /\ WF_vars(ScanNext)

-----------------------------------------------------------------------------
(* Properties                                                              *)

Exps == -1..W
Dicts == [t0 : SUBSET Keys, t1 : SUBSET Keys, e0 : Exps, e1 : Exps, rehashidx : -1..Pow2[W]]

TypeOK ==
    /\ d \in Dicts
    /\ can_resize \in {"enable", "avoid"}
    /\ cursor \in Words
    /\ walk \in {"none", "going", "done"}
    /\ owed \subseteq Keys

\* No step of rehashing, resize or change of policy hides a key: a key is in one of
\* the tables, and where a lookup looks; and rehashing has not passed a key of the
\* old table, so the assertion of dictRehash holds.
AllFound ==
    /\ d.t0 \cap d.t1 = {}
    /\ \A k \in dictKeys(d) : Finds(d, k)
    /\ dictIsRehashing(d) => d.e1 \notin {-1, d.e0} /\ d.rehashidx <= DICTHT_SIZE(d.e0)

\* What SCAN guarantees: a key that is there from the start to the end of the walk
\* has been returned, however the table was resized and rehashed in between.
FullWalk == walk = "done" => owed = {}

\* The walk ends, whatever the other clients do.
WalkEnds == walk = "going" ~> walk = "done"

-----------------------------------------------------------------------------
(* The inductive invariant                                                 *)

\* The second table is there while rehashing, which has not passed a key of the first.
DictOK(c) ==
    /\ c \in Dicts
    /\ c.t0 \cap c.t1 = {}
    /\ c.e0 = -1 => c.t0 = {} /\ c.rehashidx = -1
    /\ c.rehashidx = -1 => c.t1 = {} /\ c.e1 = -1
    /\ c.rehashidx # -1 => /\ c.e1 \notin {-1, c.e0}
                           /\ c.rehashidx <= Pow2[c.e0]
                           /\ \A k \in c.t0 : BucketOf(k, c.e0) >= c.rehashidx

\* h is v or comes after it in the order of the walk, in which the lowest bit counts most.
Ahead(h, v) ==
    h = v \/ \E i \in h \ v : \A j \in Bits : j < i => (j \in h <=> j \in v)

\* What is still owed is ahead of the cursor, whatever the size of the table.
WalkInv ==
    /\ owed \subseteq dictKeys(d)
    /\ walk = "going" => cursor # Zero /\ \A k \in owed : Ahead(Hash[k], cursor)
    /\ walk # "going" => owed = {}

IndInv == TypeOK /\ DictOK(d) /\ WalkInv
=============================================================================
