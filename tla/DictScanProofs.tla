--------------------------- MODULE DictScanProofs ----------------------------
(***************************************************************************)
(* Proofs about DictScan, for any finite set of keys, any hashes, any      *)
(* width that has room for the keys and any thresholds.                    *)
(***************************************************************************)
EXTENDS DictScan, FiniteSetTheorems, WellFoundedInduction, TLAPS

-----------------------------------------------------------------------------
(* Numbers and recursive functions                                         *)

\* A nonempty set of natural numbers has a least element ...
LEMMA LeastExists ==
    ASSUME NEW K \in SUBSET Nat, K # {}
    PROVE  \E k \in K : \A j \in K : k <= j
<1> DEFINE R == OpToRel(<, Nat)
<1>1. IsWellFoundedOn(R, Nat)
    BY NatLessThanWellFounded, Zenon
<1>2. PICK x \in K : \A y \in K : ~ (<<y, x>> \in R)
    <2> HIDE DEF R
    <2> QED BY <1>1, WFMin
<1>3. \A y \in K : ~ (y < x)
    BY <1>2 DEF OpToRel
<1> QED BY <1>3

\* ... which Min returns.
LEMMA MinWorks ==
    ASSUME NEW K \in SUBSET Nat, K # {}
    PROVE  Min(K) \in K /\ \A j \in K : Min(K) <= j
<1>1. \E k \in K : \A j \in K : k <= j
    BY LeastExists
<1> QED BY <1>1 DEF Min

\* The greatest of a nonempty set of bits.
LEMMA MaxWorks ==
    ASSUME NEW K \in SUBSET Bits, K # {}
    PROVE  Max(K) \in K /\ \A j \in K : j <= Max(K)
<1> DEFINE M == {W - k : k \in K}
<1>0. K \subseteq Nat /\ W \in Nat /\ \A k \in K : k < W
    BY WidthAssumption DEF Bits
<1>1. M \in SUBSET Nat /\ M # {}
    <2>1. \A k \in K : W - k \in Nat
        BY <1>0
    <2> QED BY <2>1
<1>2. PICK m \in M : \A j \in M : m <= j
    <2> HIDE DEF M
    <2> QED BY <1>1, LeastExists
<1>3. PICK k \in K : m = W - k
    BY <1>2
<1>4. \A j \in K : W - k <= W - j
    BY <1>2, <1>3
<1>5. \A j \in K : k >= j
    BY <1>0, <1>4
<1>6. \E x \in K : \A y \in K : x >= y
    BY <1>5
<1>7. Max(K) \in K /\ \A y \in K : Max(K) >= y
    BY <1>6 DEF Max
<1> QED BY <1>0, <1>7

\* Induction up to a bound, for a set of numbers.
LEMMA UpTo ==
    ASSUME NEW n \in Nat, NEW K, 0 \in K, \A i \in 1..n : i - 1 \in K => i \in K
    PROVE  \A i \in 0..n : i \in K
<1> DEFINE B == {i \in 0..n : i \notin K}
<1>1. SUFFICES ASSUME B # {} PROVE FALSE
    OBVIOUS
<1>2. PICK b \in B : \A j \in B : b <= j
    <2>1. B \in SUBSET Nat
        OBVIOUS
    <2> HIDE DEF B
    <2> QED BY <1>1, <2>1, LeastExists
<1>3. b \in 1..n /\ b - 1 \in 0..n
    BY <1>2
<1>4. b - 1 \in K
    BY <1>2, <1>3
<1> QED BY <1>2, <1>3, <1>4

\* f has the value a at 0, and F gives its value at each number from the one before.
Recurs(f, n, S, a, F) ==
    /\ f \in [0..n -> S]
    /\ f[0] = a
    /\ \A i \in 1..n : f[i] = F[i][f[i - 1]]

\* Such a function exists.
LEMMA Recursion ==
    ASSUME NEW n \in Nat, NEW S, NEW a \in S, NEW F \in [1..n -> [S -> S]]
    PROVE  \E f : Recurs(f, n, S, a, F)
<1> DEFINE Upto(f, k) == f[0] = a /\ \A i \in 1..k : f[i] = F[i][f[i - 1]]
           K == {k \in 0..n : \E f \in [0..n -> S] : Upto(f, k)}
<1>1. 0 \in K
    <2> DEFINE f == [i \in 0..n |-> a]
    <2>1. f \in [0..n -> S] /\ Upto(f, 0)
        OBVIOUS
    <2> HIDE DEF f, Upto
    <2> QED BY <2>1
<1>2. ASSUME NEW k \in 1..n, k - 1 \in K PROVE k \in K
    <2>1. PICK g \in [0..n -> S] : Upto(g, k - 1)
        BY <1>2
    <2> DEFINE f == [g EXCEPT ![k] = F[k][g[k - 1]]]
    <2>2. g[k - 1] \in S /\ F[k][g[k - 1]] \in S
        OBVIOUS
    <2>3. f \in [0..n -> S] /\ f[k] = F[k][g[k - 1]] /\ \A i \in 0..n : i # k => f[i] = g[i]
        BY <2>2
    <2>4. f[0] = a
        BY <2>1, <2>3
    <2>5. ASSUME NEW i \in 1..k PROVE f[i] = F[i][f[i - 1]]
        <3>1. f[i - 1] = g[i - 1]
            BY <2>3
        <3>2. CASE i = k
            BY <2>3, <3>1, <3>2
        <3>3. CASE i # k
            <4>1. i \in 1..(k - 1) /\ f[i] = g[i]
                BY <2>3, <3>3
            <4>2. g[i] = F[i][g[i - 1]]
                BY <2>1, <4>1
            <4> QED BY <3>1, <4>1, <4>2
        <3> QED BY <3>2, <3>3
    <2> HIDE DEF f
    <2> QED BY <2>3, <2>4, <2>5
<1>3. n \in K
    <2>1. \A i \in 0..n : i \in K
        <3> HIDE DEF K
        <3> QED BY <1>1, <1>2, UpTo
    <2>2. n \in 0..n
        OBVIOUS
    <2> HIDE DEF K
    <2> QED BY <2>1, <2>2
<1>4. PICK f \in [0..n -> S] : Upto(f, n)
    BY <1>3
<1> QED BY <1>4 DEF Recurs

\* The powers of two.
LEMMA Pow2Def ==
    /\ Pow2[0] = 1
    /\ \A e \in 1..W : Pow2[e] = 2 * Pow2[e - 1]
<1> DEFINE Step(g) == [e \in 0..W |-> IF e = 0 THEN 1 ELSE 2 * g[e - 1]]
           F == [i \in 1..W |-> [x \in Nat |-> 2 * x]]
<1>0. W \in Nat
    BY WidthAssumption
<1>1. PICK f : Recurs(f, W, Nat, 1, F)
    <2>1. F \in [1..W -> [Nat -> Nat]]
        OBVIOUS
    <2> HIDE DEF F
    <2> QED BY <1>0, <2>1, Recursion
<1>2. f = Step(f)
    <2>1. f \in [0..W -> Nat] /\ f[0] = 1 /\ \A i \in 1..W : f[i] = F[i][f[i - 1]]
        <3> HIDE DEF F
        <3> QED BY <1>1 DEF Recurs
    <2>2. ASSUME NEW i \in 1..W PROVE f[i] = 2 * f[i - 1]
        <3>1. f[i - 1] \in Nat
            BY <1>0, <2>1
        <3> QED BY <2>1, <3>1
    <2> HIDE DEF F
    <2> QED BY <1>0, <2>1, <2>2
<1>3. Pow2 = Step(Pow2)
    <2>1. \E g : g = Step(g)
        BY <1>2
    <2>2. Pow2 = CHOOSE g : g = Step(g)
        BY DEF Pow2
    <2> HIDE DEF Step
    <2> QED BY <2>1, <2>2
<1> QED BY <1>0, <1>3

LEMMA Pow2Type == \A e \in 0..W : Pow2[e] \in Nat \ {0}
<1> DEFINE K == {e \in 0..W : Pow2[e] \in Nat \ {0}}
<1>0. W \in Nat
    BY WidthAssumption
<1>1. 0 \in K
    BY <1>0, Pow2Def
<1>2. ASSUME NEW i \in 1..W, i - 1 \in K PROVE i \in K
    BY <1>0, <1>2, Pow2Def
<1>3. \A i \in 0..W : i \in K
    <2> HIDE DEF K
    <2> QED BY <1>0, <1>1, <1>2, UpTo
<1> QED BY <1>3

LEMMA Pow2Bound == \A e \in 0..W : Pow2[e] <= Pow2[W]
<1> DEFINE K == {n \in 0..W : Pow2[W - n] <= Pow2[W]}
<1>0. W \in Nat
    BY WidthAssumption
<1>1. 0 \in K
    BY <1>0, Pow2Type
<1>2. ASSUME NEW i \in 1..W, i - 1 \in K PROVE i \in K
    <2>1. (W - i) + 1 \in 1..W /\ ((W - i) + 1) - 1 = W - i /\ W - (i - 1) = (W - i) + 1
          /\ W - i \in 0..W
        BY <1>0
    <2>2. Pow2[(W - i) + 1] = 2 * Pow2[W - i]
        BY <2>1, Pow2Def
    <2>3. Pow2[W - i] \in Nat /\ Pow2[W] \in Nat
        BY <1>0, <2>1, Pow2Type
    <2>4. Pow2[(W - i) + 1] <= Pow2[W]
        BY <1>2, <2>1
    <2>5. Pow2[W - i] <= Pow2[W]
        BY <2>2, <2>3, <2>4
    <2> QED BY <1>2, <2>5
<1>3. \A i \in 0..W : i \in K
    <2> HIDE DEF K
    <2> QED BY <1>0, <1>1, <1>2, UpTo
<1>4. ASSUME NEW e \in 0..W PROVE Pow2[e] <= Pow2[W]
    <2>1. W - e \in 0..W /\ W - (W - e) = e
        BY <1>0
    <2>2. W - e \in K
        BY <1>3, <2>1
    <2> QED BY <2>1, <2>2
<1> QED BY <1>4

-----------------------------------------------------------------------------
(* Words                                                                   *)

\* The number in the lowest bits, bit by bit.
LEMMA MaskedDef ==
    /\ \A w \in Words : Masked[0][w] = 0
    /\ \A e \in 1..W, w \in Words :
          Masked[e][w] = Masked[e - 1][w] + (IF e - 1 \in w THEN Pow2[e - 1] ELSE 0)
<1> DEFINE Bit(e, w) == IF e - 1 \in w THEN Pow2[e - 1] ELSE 0
           Step(g) == [e \in 0..W |-> IF e = 0 THEN [w \in Words |-> 0]
                                      ELSE [w \in Words |-> g[e - 1][w] + Bit(e, w)]]
           S == [Words -> Nat]
           F == [e \in 1..W |-> [x \in S |-> [w \in Words |-> x[w] + Bit(e, w)]]]
           a == [w \in Words |-> 0]
<1>0. W \in Nat
    BY WidthAssumption
<1>1. ASSUME NEW e \in 1..W, NEW w PROVE Bit(e, w) \in Nat
    <2>1. e - 1 \in 0..W
        BY <1>0
    <2> QED BY <2>1, Pow2Type
<1>2. PICK f : Recurs(f, W, S, a, F)
    <2>1. a \in S
        OBVIOUS
    <2>2. ASSUME NEW e \in 1..W, NEW x \in S PROVE [w \in Words |-> x[w] + Bit(e, w)] \in S
        <3>1. ASSUME NEW w \in Words PROVE x[w] + Bit(e, w) \in Nat
            <4>1. x[w] \in Nat
                OBVIOUS
            <4>2. Bit(e, w) \in Nat
                BY <1>1
            <4> HIDE DEF Bit
            <4> QED BY <4>1, <4>2
        <3> HIDE DEF Bit
        <3> QED BY <3>1
    <2>3. F \in [1..W -> [S -> S]]
        <3> HIDE DEF S, Bit
        <3> QED BY <2>2
    <2> HIDE DEF F, S, a
    <2> QED BY <1>0, <2>1, <2>3, Recursion
<1>3. f = Step(f)
    <2>1. f \in [0..W -> S] /\ f[0] = a /\ \A i \in 1..W : f[i] = F[i][f[i - 1]]
        <3> HIDE DEF F, S, a
        <3> QED BY <1>2 DEF Recurs
    <2>2. ASSUME NEW i \in 1..W PROVE f[i] = [w \in Words |-> f[i - 1][w] + Bit(i, w)]
        <3>1. f[i - 1] \in S
            <4> HIDE DEF S
            <4> QED BY <1>0, <2>1
        <3>2. F[i][f[i - 1]] = [w \in Words |-> f[i - 1][w] + Bit(i, w)]
            <4> HIDE DEF S, Bit
            <4> QED BY <3>1
        <3> HIDE DEF F, Bit
        <3> QED BY <2>1, <3>2
    <2>3. ASSUME NEW i \in 0..W PROVE f[i] = Step(f)[i]
        <3>1. CASE i = 0
            <4> HIDE DEF F, Bit, S
            <4> QED BY <1>0, <2>1, <3>1
        <3>2. CASE i # 0
            <4>1. i \in 1..W
                BY <1>0, <3>2
            <4> HIDE DEF F, Bit, S
            <4> QED BY <2>2, <3>2, <4>1
        <3> QED BY <3>1, <3>2
    <2> HIDE DEF F, Bit, S
    <2> QED BY <2>1, <2>3
<1>4. Masked = Step(Masked)
    <2>1. \E g : g = Step(g)
        BY <1>3
    <2>2. Masked = CHOOSE g : g = Step(g)
        BY DEF Masked
    <2> HIDE DEF Step
    <2> QED BY <2>1, <2>2
<1>5. ASSUME NEW e \in 1..W, NEW w \in Words PROVE Masked[e][w] = Masked[e - 1][w] + Bit(e, w)
    <2>1. Masked[e] = Step(Masked)[e]
        <3> HIDE DEF Step
        <3> QED BY <1>4
    <2>2. Step(Masked)[e] = [x \in Words |-> Masked[e - 1][x] + Bit(e, x)]
        <3> HIDE DEF Bit
        <3> QED BY <1>0
    <2> HIDE DEF Step, Bit
    <2> QED BY <2>1, <2>2
<1>6. ASSUME NEW w \in Words PROVE Masked[0][w] = 0
    <2>1. Masked[0] = Step(Masked)[0]
        <3> HIDE DEF Step
        <3> QED BY <1>4
    <2>2. Step(Masked)[0] = [x \in Words |-> 0]
        <3> HIDE DEF Bit
        <3> QED BY <1>0
    <2> HIDE DEF Step
    <2> QED BY <2>1, <2>2
<1> QED BY <1>5, <1>6

\* A bucket index is an index of the table.
LEMMA MaskedType ==
    ASSUME NEW w \in Words
    PROVE  \A e \in 0..W : Masked[e][w] \in Nat /\ Masked[e][w] < Pow2[e]
<1> DEFINE K == {e \in 0..W : Masked[e][w] \in Nat /\ Masked[e][w] < Pow2[e]}
<1>0. W \in Nat
    BY WidthAssumption
<1>1. 0 \in K
    BY <1>0, MaskedDef, Pow2Def
<1>2. ASSUME NEW i \in 1..W, i - 1 \in K PROVE i \in K
    <2>1. Masked[i - 1][w] \in Nat /\ Masked[i - 1][w] < Pow2[i - 1] /\ Pow2[i - 1] \in Nat
          /\ Pow2[i] = 2 * Pow2[i - 1]
        BY <1>0, <1>2, Pow2Def, Pow2Type
    <2>2. Masked[i][w] = Masked[i - 1][w] + (IF i - 1 \in w THEN Pow2[i - 1] ELSE 0)
        BY MaskedDef
    <2>3. CASE i - 1 \in w
        BY <1>2, <2>1, <2>2, <2>3
    <2>4. CASE i - 1 \notin w
        BY <1>2, <2>1, <2>2, <2>4
    <2> QED BY <2>3, <2>4
<1>3. \A i \in 0..W : i \in K
    <2> HIDE DEF K
    <2> QED BY <1>0, <1>1, <1>2, UpTo
<1> QED BY <1>3

\* Two words that agree in their lowest e bits.
SameLow(w, x, e) == \A j \in Bits : j < e => (j \in w <=> j \in x)

\* They are in one bucket of a table of size 2^e, and no others are.
LEMMA MaskedSame ==
    ASSUME NEW w \in Words, NEW x \in Words
    PROVE  \A e \in 0..W : Masked[e][w] = Masked[e][x] <=> SameLow(w, x, e)
<1> DEFINE K == {e \in 0..W : Masked[e][w] = Masked[e][x] <=> SameLow(w, x, e)}
<1>0. W \in Nat
    BY WidthAssumption
<1>1. 0 \in K
    BY <1>0, MaskedDef DEF SameLow, Bits
<1>2. ASSUME NEW i \in 1..W, i - 1 \in K PROVE i \in K
    <2> DEFINE p == Pow2[i - 1]
               mw == Masked[i - 1][w]
               mx == Masked[i - 1][x]
    <2>1. /\ mw \in Nat /\ mw < p /\ mx \in Nat /\ mx < p /\ p \in Nat \ {0}
          /\ mw = mx <=> SameLow(w, x, i - 1)
        BY <1>0, <1>2, MaskedType, Pow2Type
    <2>2. /\ Masked[i][w] = mw + (IF i - 1 \in w THEN p ELSE 0)
          /\ Masked[i][x] = mx + (IF i - 1 \in x THEN p ELSE 0)
        BY MaskedDef
    <2>3. SameLow(w, x, i) <=> SameLow(w, x, i - 1) /\ (i - 1 \in w <=> i - 1 \in x)
        <3>1. i - 1 \in Bits /\ i - 1 < i
            BY <1>0 DEF Bits
        <3>2. \A j \in Bits : j < i <=> j < i - 1 \/ j = i - 1
            BY <1>0 DEF Bits
        <3> QED BY <3>1, <3>2 DEF SameLow
    <2> HIDE DEF p, mw, mx
    <2>4. Masked[i][w] = Masked[i][x] <=> mw = mx /\ (i - 1 \in w <=> i - 1 \in x)
        BY <2>1, <2>2
    <2>5. Masked[i][w] = Masked[i][x] <=> SameLow(w, x, i)
        BY <2>1, <2>3, <2>4
    <2> QED BY <1>2, <2>5
<1>3. \A i \in 0..W : i \in K
    <2> HIDE DEF K
    <2> QED BY <1>0, <1>1, <1>2, UpTo
<1> QED BY <1>3

-----------------------------------------------------------------------------
(* The order of the walk                                                   *)

\* The carry stops at the highest zero of the mask, or runs through it.
LEMMA AdvanceCases ==
    ASSUME NEW v \in Words, NEW e \in 0..W
    PROVE  \/ /\ Advance(v, e) = Zero
              /\ \A i \in Bits : i < e => i \in v
           \/ \E j \in Bits : /\ j < e /\ j \notin v
                              /\ \A i \in Bits : j < i /\ i < e => i \in v
                              /\ Advance(v, e) = {i \in v : i < j} \cup {j}
<1> DEFINE w == v \cup (e..(W - 1))
           zeros == Bits \ w
<1>0. W \in Nat /\ e \in Nat /\ e <= W /\ Bits \subseteq Nat /\ v \subseteq Bits
    BY WidthAssumption DEF Bits, Words
<1>1. w \in Words
    BY <1>0 DEF Words, Bits
<1>2. Advance(v, e) = IF zeros = {} THEN Zero ELSE {i \in w : i < Max(zeros)} \cup {Max(zeros)}
    BY <1>1 DEF Advance, RevIncrement
<1>3. \A i \in Bits : i \in zeros <=> i < e /\ i \notin v
    BY <1>0 DEF Bits
<1>4. CASE zeros = {}
    BY <1>2, <1>3, <1>4
<1>5. CASE zeros # {}
    <2> DEFINE j == Max(zeros)
    <2>1. j \in zeros /\ \A i \in zeros : i <= j
        <3>1. zeros \in SUBSET Bits
            OBVIOUS
        <3> HIDE DEF zeros
        <3> QED BY <1>5, <3>1, MaxWorks
    <2> HIDE DEF j
    <2>2. j \in Bits /\ j < e /\ j \notin v
        BY <1>3, <2>1
    <2>3. ASSUME NEW i \in Bits, j < i, i < e PROVE i \in v
        <3>1. ~(i <= j)
            BY <1>0, <2>2, <2>3
        <3> QED BY <1>3, <2>1, <2>3, <3>1
    <2>4. Advance(v, e) = {i \in w : i < j} \cup {j}
        <3> HIDE DEF w
        <3> QED BY <1>2, <1>5 DEF j
    <2>5. {i \in w : i < j} = {i \in v : i < j}
        BY <1>0, <2>2
    <2> QED BY <2>2, <2>3, <2>4, <2>5
<1> QED BY <1>4, <1>5

LEMMA AdvanceType ==
    ASSUME NEW v \in Words, NEW e \in 0..W
    PROVE  Advance(v, e) \in Words
BY AdvanceCases DEF Words, Zero

\* Only the bits of the mask matter.
LEMMA AdvanceSame ==
    ASSUME NEW v \in Words, NEW x \in Words, NEW e \in 0..W, SameLow(v, x, e)
    PROVE  Advance(v, e) = Advance(x, e)
<1>0. W \in Nat /\ e \in Nat /\ v \subseteq Bits /\ x \subseteq Bits
    BY WidthAssumption DEF Words
<1>1. ASSUME NEW i \in Bits, i \notin e..(W - 1) PROVE i \in v <=> i \in x
    <2>1. i < e
        BY <1>0, <1>1 DEF Bits
    <2> QED BY <2>1 DEF SameLow
<1>2. v \cup (e..(W - 1)) = x \cup (e..(W - 1))
    BY <1>0, <1>1
<1> QED BY <1>2 DEF Advance

\* Where two words first differ, one of them is ahead.
LEMMA FirstDifference ==
    ASSUME NEW h \in Words, NEW v \in Words, h # v
    PROVE  \E i \in Bits : /\ ~(i \in h <=> i \in v)
                           /\ \A j \in Bits : j < i => (j \in h <=> j \in v)
<1> DEFINE D == {i \in Bits : ~(i \in h <=> i \in v)}
<1>1. D \in SUBSET Nat /\ D # {}
    <2>1. h \subseteq Bits /\ v \subseteq Bits /\ Bits \subseteq Nat
        BY WidthAssumption DEF Words, Bits
    <2>2. PICK i : ~(i \in h <=> i \in v)
        OBVIOUS
    <2>3. i \in D
        BY <2>1, <2>2
    <2> QED BY <2>1, <2>3
<1>2. PICK i \in D : \A j \in D : i <= j
    <2> HIDE DEF D
    <2> QED BY <1>1, LeastExists
<1>3. ASSUME NEW j \in Bits, j < i PROVE j \in h <=> j \in v
    BY <1>2, <1>3 DEF Bits
<1> QED BY <1>2, <1>3

\* Every word is ahead of the cursor of a new walk.
LEMMA AheadOfZero == ASSUME NEW h \in Words PROVE Ahead(h, Zero)
<1>1. Zero \in Words
    BY DEF Zero, Words
<1>2. CASE h = Zero
    BY <1>2 DEF Ahead
<1>3. CASE h # Zero
    BY <1>1, <1>3, FirstDifference DEF Zero, Ahead
<1> QED BY <1>2, <1>3

\* Advancing the cursor passes only the words of its own bucket.
LEMMA AheadAdvance ==
    ASSUME NEW h \in Words, NEW v \in Words, NEW e \in 0..W, Ahead(h, v), ~SameLow(h, v, e)
    PROVE  Advance(v, e) # Zero /\ Ahead(h, Advance(v, e))
<1> DEFINE a == Advance(v, e)
<1>0. W \in Nat /\ e \in Nat /\ Bits \subseteq Nat /\ v \subseteq Bits /\ h \subseteq Bits
    BY WidthAssumption DEF Bits, Words
<1>1. PICK i \in h \ v : \A j \in Bits : j < i => (j \in h <=> j \in v)
    BY DEF Ahead, SameLow
<1>2. i \in Bits /\ i < e
    BY <1>0, <1>1 DEF SameLow
<1>3. PICK j \in Bits : /\ j < e /\ j \notin v
                        /\ \A x \in Bits : j < x /\ x < e => x \in v
                        /\ a = {x \in v : x < j} \cup {j}
    BY <1>1, <1>2, AdvanceCases
<1>4. i <= j
    BY <1>0, <1>1, <1>2, <1>3
<1>5. \A x \in Bits : /\ x < j => (x \in a <=> x \in v)
                      /\ x > j => x \notin a
    BY <1>0, <1>3
<1>6. CASE i < j
    <2>1. i \in h \ a
        BY <1>1, <1>2, <1>5, <1>6
    <2>2. \A x \in Bits : x < i => (x \in h <=> x \in a)
        BY <1>0, <1>1, <1>2, <1>5, <1>6
    <2> HIDE DEF a
    <2> QED BY <1>3, <2>1, <2>2 DEF Ahead, Zero, a
<1>7. CASE i = j
    <2>1. j \in a /\ j \in h
        BY <1>1, <1>3, <1>7
    <2>2. CASE h = a
        BY <2>1, <2>2 DEF Ahead, Zero
    <2>3. CASE h # a
        <3>1. a \in Words
            BY AdvanceType
        <3>2. PICK m \in Bits : /\ ~(m \in h <=> m \in a)
                                /\ \A x \in Bits : x < m => (x \in h <=> x \in a)
            <4> HIDE DEF a
            <4> QED BY <2>3, <3>1, FirstDifference
        <3>3. m > j
            <4>1. m # j
                BY <2>1, <3>2
            <4>2. ~(m < j)
                BY <1>1, <1>5, <1>7, <3>2
            <4> QED BY <1>0, <4>1, <4>2
        <3>4. m \in h \ a
            BY <1>5, <3>2, <3>3
        <3> QED BY <2>1, <3>2, <3>4 DEF Ahead, Zero
    <2> QED BY <2>2, <2>3
<1> QED BY <1>0, <1>2, <1>4, <1>6, <1>7

\* The order is transitive, and the cursor itself falls behind.
LEMMA AheadOnward ==
    ASSUME NEW v \in Words, NEW e \in 0..W, Advance(v, e) # Zero
    PROVE  /\ ~Ahead(v, Advance(v, e))
           /\ \A h \in Words : Ahead(h, Advance(v, e)) => Ahead(h, v)
<1> DEFINE a == Advance(v, e)
<1>0. W \in Nat /\ e \in Nat /\ Bits \subseteq Nat /\ v \subseteq Bits
    BY WidthAssumption DEF Bits, Words
<1>1. PICK j \in Bits : /\ j < e /\ j \notin v
                        /\ a = {x \in v : x < j} \cup {j}
    BY AdvanceCases
<1>2. \A x \in Bits : x < j => (x \in a <=> x \in v)
    BY <1>0, <1>1
<1>3. j \in a /\ a \subseteq Bits
    BY <1>0, <1>1
<1> HIDE DEF a
<1>4. ~Ahead(v, a)
    <2>1. SUFFICES ASSUME Ahead(v, a) PROVE FALSE
        OBVIOUS
    <2>2. PICK i \in v \ a : \A x \in Bits : x < i => (x \in v <=> x \in a)
        BY <1>1, <1>3, <2>1 DEF Ahead
    <2>3. i \in Bits /\ ~(i < j) /\ ~(j < i) /\ i # j
        BY <1>0, <1>1, <1>2, <1>3, <2>2
    <2> QED BY <1>0, <1>1, <2>3
<1>5. ASSUME NEW h \in Words, Ahead(h, a) PROVE Ahead(h, v)
    <2>0. h \subseteq Bits
        BY DEF Words
    <2>1. CASE h = a
        BY <1>1, <1>2, <1>3, <2>1 DEF Ahead
    <2>2. CASE h # a
        <3>1. PICK i \in h \ a : \A x \in Bits : x < i => (x \in h <=> x \in a)
            BY <1>5, <2>2 DEF Ahead
        <3>2. CASE i < j
            <4>1. i \notin v /\ \A x \in Bits : x < i => (x \in h <=> x \in v)
                BY <1>0, <1>1, <1>2, <2>0, <3>1, <3>2
            <4> QED BY <3>1, <4>1 DEF Ahead
        <3>3. CASE ~(i < j)
            <4>1. i # j /\ i \in Bits
                BY <1>3, <2>0, <3>1
            <4>2. j < i
                BY <1>0, <1>1, <3>3, <4>1
            <4>3. j \in h /\ \A x \in Bits : x < j => (x \in h <=> x \in v)
                BY <1>0, <1>1, <1>2, <1>3, <3>1, <4>1, <4>2
            <4> QED BY <1>1, <4>3 DEF Ahead
        <3> QED BY <3>2, <3>3
    <2> QED BY <2>1, <2>2
<1> QED BY <1>4, <1>5 DEF a

\* The words that a walk has still to pass.
Rest(u) == {h \in Words : Ahead(h, u)}

LEMMA WordsFinite == IsFiniteSet(Words)
<1>1. 0 \in Int /\ W - 1 \in Int
    BY WidthAssumption
<1>2. IsFiniteSet(Bits)
    BY <1>1, FS_Interval DEF Bits
<1> QED BY <1>2, FS_SUBSET DEF Words

\* They get fewer with every advance, until the cursor is zero again.
LEMMA RestShrinks ==
    ASSUME NEW u \in Words
    PROVE  /\ Cardinality(Rest(u)) \in Nat
           /\ \A e \in 0..W : Advance(u, e) # Zero =>
                Cardinality(Rest(Advance(u, e))) < Cardinality(Rest(u))
<1>1. IsFiniteSet(Words)
    BY WordsFinite
<1>2. IsFiniteSet(Rest(u)) /\ Cardinality(Rest(u)) \in Nat
    BY <1>1, FS_Subset, FS_CardinalityType DEF Rest
<1>3. ASSUME NEW e \in 0..W, Advance(u, e) # Zero
      PROVE  Cardinality(Rest(Advance(u, e))) < Cardinality(Rest(u))
    <2> DEFINE T == Rest(Advance(u, e))
    <2>1. T \in SUBSET Rest(u)
        BY <1>3, AheadOnward DEF Rest
    <2>2. u \in Rest(u) /\ u \notin T
        BY <1>3, AheadOnward DEF Rest, Ahead
    <2> HIDE DEF T
    <2>3. IsFiniteSet(T) /\ Cardinality(T) <= Cardinality(Rest(u)) /\ Cardinality(T) # Cardinality(Rest(u))
        BY <1>2, <2>1, <2>2, FS_Subset
    <2>4. Cardinality(T) \in Nat
        BY <2>3, FS_CardinalityType
    <2> QED BY <1>2, <2>3, <2>4 DEF T
<1> QED BY <1>2, <1>3

\* A turn of the loop over the expansions: it ends where the smaller table alone
\* would have gone, and otherwise stays with the bucket of the smaller table.
LEMMA ExpansionTurn ==
    ASSUME NEW u \in Words, NEW s \in 0..W, NEW l \in 0..W, s < l
    PROVE  LET next == Advance(u, l)
           IN  /\ next \cap (s..(l - 1)) = {} => next = Advance(u, s)
               /\ next \cap (s..(l - 1)) # {} => next # Zero /\ SameLow(next, u, s)
<1> DEFINE a == Advance(u, l)
           b == Advance(u, s)
<1>0. W \in Nat /\ s \in Nat /\ l \in Nat /\ Bits \subseteq Nat /\ u \subseteq Bits
    BY WidthAssumption DEF Bits, Words
<1>1. ASSUME a = Zero, \A i \in Bits : i < l => i \in u
      PROVE  a \cap (s..(l - 1)) = {} /\ a = b
    <2>1. \A i \in Bits : i < s => i \in u
        BY <1>0, <1>1
    <2>2. b = Zero
        BY <1>0, <2>1, AdvanceCases
    <2> QED BY <1>1, <2>2 DEF Zero
<1>2. ASSUME NEW j \in Bits, j < l, j \notin u, \A i \in Bits : j < i /\ i < l => i \in u,
             a = {i \in u : i < j} \cup {j}
      PROVE  /\ a \cap (s..(l - 1)) = {} => a = b
             /\ a \cap (s..(l - 1)) # {} => a # Zero /\ SameLow(a, u, s)
    <2>1. CASE j < s
        <3>1. a \cap (s..(l - 1)) = {}
            BY <1>0, <1>2, <2>1
        <3>2. PICK k \in Bits : /\ k < s /\ k \notin u
                                /\ \A i \in Bits : k < i /\ i < s => i \in u
                                /\ b = {i \in u : i < k} \cup {k}
            BY <1>2, <2>1, AdvanceCases
        <3>3. ~(j < k) /\ ~(k < j)
            BY <1>0, <1>2, <2>1, <3>2
        <3>4. k = j
            BY <1>0, <1>2, <3>2, <3>3
        <3> QED BY <1>2, <3>1, <3>2, <3>4
    <2>2. CASE ~(j < s)
        <3>1. j \in a \cap (s..(l - 1))
            BY <1>0, <1>2, <2>2
        <3>2. SameLow(a, u, s)
            BY <1>0, <1>2, <2>2 DEF SameLow
        <3> QED BY <3>1, <3>2 DEF Zero
    <2> QED BY <2>1, <2>2
<1>3. \/ a = Zero /\ \A i \in Bits : i < l => i \in u
      \/ \E j \in Bits : /\ j < l /\ j \notin u
                         /\ \A i \in Bits : j < i /\ i < l => i \in u
                         /\ a = {i \in u : i < j} \cup {j}
    BY AdvanceCases
<1>4. /\ a \cap (s..(l - 1)) = {} => a = b
      /\ a \cap (s..(l - 1)) # {} => a # Zero /\ SameLow(a, u, s)
    <2> HIDE DEF a, b
    <2> QED BY <1>1, <1>2, <1>3 DEF Zero
<1> QED BY <1>4

\* The answer of the loop that begins at u, given those that begin further on.
Turn(g, u, large, s, l) ==
    LET here == Bucket(large, l, Masked[l][u])
        next == Advance(u, l)
    IN  IF next \cap (s..(l - 1)) = {} THEN [found |-> here, cursor |-> next]
        ELSE [g[next] EXCEPT !.found = @ \cup here]

\* The loop ends, so its recursive definition has a solution.
LEMMA LoopEnds ==
    ASSUME NEW large, NEW s \in 0..W, NEW l \in 0..W, s < l
    PROVE  \E g : g = [u \in Words |-> Turn(g, u, large, s, l)]
<1> DEFINE n == Cardinality(Words)
           Small(u, k) == Cardinality(Rest(u)) <= k
           Upto(g, k) == \A u \in Words : Small(u, k) => g[u] = Turn(g, u, large, s, l)
           K == {k \in 0..n : \E g : g = [u \in Words |-> g[u]] /\ Upto(g, k)}
<1>0. IsFiniteSet(Words) /\ n \in Nat
    BY WordsFinite, FS_CardinalityType
<1>1. 0 \in K
    <2> DEFINE g == [u \in Words |-> Zero]
    <2>1. ASSUME NEW u \in Words PROVE ~Small(u, 0)
        <3>1. u \in Rest(u) /\ Rest(u) \in SUBSET Words
            BY DEF Rest, Ahead
        <3>2. IsFiniteSet(Rest(u)) /\ Cardinality(Rest(u)) # 0
            BY <1>0, <3>1, FS_Subset, FS_EmptySet
        <3>3. Cardinality(Rest(u)) \in Nat
            BY RestShrinks
        <3> QED BY <3>2, <3>3
    <2>2. Upto(g, 0)
        <3> HIDE DEF Small, g
        <3> QED BY <2>1
    <2>3. g = [u \in Words |-> g[u]]
        OBVIOUS
    <2> HIDE DEF g, Upto
    <2> QED BY <1>0, <2>2, <2>3
<1>2. ASSUME NEW k \in 1..n, k - 1 \in K PROVE k \in K
    <2>1. PICK g : g = [u \in Words |-> g[u]] /\ Upto(g, k - 1)
        BY <1>2
    <2> DEFINE f == [u \in Words |-> IF Small(u, k - 1) THEN g[u] ELSE Turn(g, u, large, s, l)]
    <2>2. ASSUME NEW u \in Words PROVE f[u] = Turn(g, u, large, s, l)
        <3> HIDE DEF Small
        <3> QED BY <2>1
    <2>3. ASSUME NEW u \in Words, Small(u, k) PROVE Turn(f, u, large, s, l) = Turn(g, u, large, s, l)
        <3> DEFINE next == Advance(u, l)
        <3>1. CASE next \cap (s..(l - 1)) = {}
            BY <3>1 DEF Turn
        <3>2. CASE next \cap (s..(l - 1)) # {}
            <4>1. next \in Words /\ next # Zero
                BY <3>2, AdvanceType, ExpansionTurn
            <4>2. Small(next, k - 1)
                <5>1. /\ Cardinality(Rest(next)) \in Nat /\ Cardinality(Rest(u)) \in Nat
                      /\ Cardinality(Rest(next)) < Cardinality(Rest(u))
                    BY <4>1, RestShrinks
                <5> HIDE DEF next
                <5> QED BY <1>0, <2>3, <5>1
            <4>3. f[next] = g[next]
                <5> HIDE DEF Small, next
                <5> QED BY <4>1, <4>2
            <4> HIDE DEF f
            <4> QED BY <4>3 DEF Turn
        <3> QED BY <3>1, <3>2
    <2>4. Upto(f, k)
        <3> HIDE DEF f, Small
        <3> QED BY <2>2, <2>3
    <2>5. f = [u \in Words |-> f[u]]
        OBVIOUS
    <2> HIDE DEF f, Upto
    <2> QED BY <1>2, <2>4, <2>5
<1>3. n \in K
    <2>1. \A i \in 0..n : i \in K
        <3> HIDE DEF K, n
        <3> QED BY <1>0, <1>1, <1>2, UpTo
    <2>2. n \in 0..n
        BY <1>0
    <2> HIDE DEF K, n
    <2> QED BY <2>1, <2>2
<1>4. PICK g : g = [u \in Words |-> g[u]] /\ Upto(g, n)
    <2> HIDE DEF Upto
    <2> QED BY <1>3
<1>5. ASSUME NEW u \in Words PROVE Small(u, n)
    BY <1>0, FS_Subset DEF Rest
<1>6. \A u \in Words : g[u] = Turn(g, u, large, s, l)
    <2> HIDE DEF Small, n
    <2> QED BY <1>4, <1>5
<1>7. [u \in Words |-> g[u]] = [u \in Words |-> Turn(g, u, large, s, l)]
    BY <1>6
<1>8. g = [u \in Words |-> Turn(g, u, large, s, l)]
    <2> HIDE DEF Upto
    <2> QED BY <1>4, <1>7
<1> QED BY <1>8

-----------------------------------------------------------------------------
(* One call of dictScan                                                    *)

Answers == [found : SUBSET Keys, cursor : Words]

\* A key of the table t is returned, or still ahead of the next cursor.
Covers(ans, t, v) ==
    \A k \in t : Ahead(Hash[k], v) /\ k \notin ans.found =>
                     ans.cursor # Zero /\ Ahead(Hash[k], ans.cursor)

\* One bucket: the keys ahead of the cursor that are not in it are ahead of the next.
LEMMA BucketCovers ==
    ASSUME NEW t \in SUBSET Keys, NEW e \in 0..W, NEW v \in Words, NEW k \in t,
           Ahead(Hash[k], v), k \notin Bucket(t, e, Masked[e][v])
    PROVE  Advance(v, e) # Zero /\ Ahead(Hash[k], Advance(v, e))
<1>1. Hash[k] \in Words
    BY HashAssumption
<1>2. Masked[e][Hash[k]] # Masked[e][v]
    BY DEF Bucket, BucketOf
<1>3. ~SameLow(Hash[k], v, e)
    BY <1>1, <1>2, MaskedSame
<1> QED BY <1>1, <1>3, AheadAdvance

\* The loop over the expansions, from any cursor.
LEMMA LoopWorks ==
    ASSUME NEW large \in SUBSET Keys, NEW s \in 0..W, NEW l \in 0..W, s < l,
           NEW g, g = [u \in Words |-> Turn(g, u, large, s, l)]
    PROVE  \A u \in Words : /\ g[u] \in Answers
                            /\ g[u].cursor = Advance(u, s)
                            /\ Covers(g[u], large, u)
<1> DEFINE P(u) == g[u] \in Answers /\ g[u].cursor = Advance(u, s) /\ Covers(g[u], large, u)
           B == {u \in Words : ~P(u)}
           R == {Cardinality(Rest(u)) : u \in B}
<1>1. SUFFICES ASSUME B # {} PROVE FALSE
    OBVIOUS
<1>2. R \in SUBSET Nat /\ R # {}
    <2> HIDE DEF P
    <2> QED BY <1>1, RestShrinks
<1>3. PICK r \in R : \A x \in R : r <= x
    <2> HIDE DEF R
    <2> QED BY <1>2, LeastExists
<1>4. PICK u \in B : r = Cardinality(Rest(u))
    <2> HIDE DEF B
    <2> QED BY <1>3
<1>5. u \in Words /\ ~P(u)
    <2> HIDE DEF P
    <2> QED BY <1>4
<1> DEFINE next == Advance(u, l)
           here == Bucket(large, l, Masked[l][u])
<1>6. next \in Words /\ here \in SUBSET Keys /\ g[u] = Turn(g, u, large, s, l)
    <2>1. next \in Words
        BY <1>5, AdvanceType
    <2>2. here \in SUBSET Keys
        BY DEF Bucket
    <2>3. g[u] = Turn(g, u, large, s, l)
        BY <1>5
    <2> QED BY <2>1, <2>2, <2>3
<1>7. CASE next \cap (s..(l - 1)) = {}
    <2>1. g[u] = [found |-> here, cursor |-> next]
        BY <1>6, <1>7 DEF Turn
    <2>2. next = Advance(u, s)
        BY <1>5, <1>7, ExpansionTurn
    <2>3. Covers(g[u], large, u)
        BY <1>5, <2>1, BucketCovers DEF Covers
    <2>4. g[u] \in Answers /\ g[u].cursor = Advance(u, s)
        <3> HIDE DEF next, here
        <3> QED BY <1>6, <2>1, <2>2 DEF Answers
    <2> QED BY <1>5, <2>3, <2>4
<1>8. CASE next \cap (s..(l - 1)) # {}
    <2>1. next # Zero /\ SameLow(next, u, s)
        BY <1>5, <1>8, ExpansionTurn
    <2>2. P(next)
        <3>1. /\ Cardinality(Rest(next)) < r /\ Cardinality(Rest(next)) \in Nat /\ r \in Nat
            BY <1>4, <1>5, <1>6, <2>1, RestShrinks
        <3>2. Cardinality(Rest(next)) \notin R
            <4> HIDE DEF R, next
            <4> QED BY <1>3, <3>1
        <3> HIDE DEF P, next
        <3> QED BY <1>6, <3>2
    <2> DEFINE f == g[next].found
               c == g[next].cursor
    <2>3. g[next] \in Answers /\ g[next] = [found |-> f, cursor |-> c]
        BY <2>2 DEF Answers
    <2>4. g[u] = [found |-> f \cup here, cursor |-> c]
        <3>1. g[u] = [g[next] EXCEPT !.found = @ \cup here]
            BY <1>6, <1>8 DEF Turn
        <3> HIDE DEF next, here, f, c
        <3> QED BY <2>3, <3>1 DEF Answers
    <2>5. g[u] \in Answers
        <3>1. f \in SUBSET Keys /\ c \in Words
            <4> HIDE DEF next
            <4> QED BY <2>3 DEF Answers
        <3> HIDE DEF next, here, f, c
        <3> QED BY <1>6, <2>4, <3>1 DEF Answers
    <2>6. g[u].cursor = Advance(u, s)
        <3>1. c = Advance(next, s)
            BY <2>2
        <3>2. Advance(next, s) = Advance(u, s)
            BY <1>5, <1>6, <2>1, AdvanceSame
        <3> HIDE DEF next, here, f, c
        <3> QED BY <2>4, <3>1, <3>2
    <2>7. Covers(g[u], large, u)
        <3>1. SUFFICES ASSUME NEW k \in large, Ahead(Hash[k], u), k \notin f, k \notin here
                       PROVE  c # Zero /\ Ahead(Hash[k], c)
            <4> HIDE DEF next, here, f, c
            <4> QED BY <2>4 DEF Covers
        <3>2. Ahead(Hash[k], next)
            BY <1>5, <3>1, BucketCovers
        <3> HIDE DEF next
        <3> QED BY <2>2, <3>1, <3>2 DEF Covers
    <2> QED BY <1>5, <2>5, <2>6, <2>7
<1> QED BY <1>7, <1>8

\* Both tables while rehashing.
LEMMA ScanBothWorks ==
    ASSUME NEW small \in SUBSET Keys, NEW large \in SUBSET Keys,
           NEW s \in 0..W, NEW l \in 0..W, s < l, NEW v \in Words
    PROVE  LET ans == ScanBoth(small, s, large, l, v)
           IN  ans \in Answers /\ Covers(ans, small \cup large, v)
<1> DEFINE Eq(g) == g = [u \in Words |-> Turn(g, u, large, s, l)]
           g == CHOOSE x : Eq(x)
           here == Bucket(small, s, Masked[s][v])
           ans == ScanBoth(small, s, large, l, v)
<1>1. ans = [g[v] EXCEPT !.found = @ \cup here]
    BY DEF ScanBoth, Turn
<1>2. Eq(g)
    <2>1. \E x : Eq(x)
        BY LoopEnds
    <2> HIDE DEF Eq
    <2> QED BY <2>1
<1>3. g[v] \in Answers /\ g[v].cursor = Advance(v, s) /\ Covers(g[v], large, v)
    <2> HIDE DEF g
    <2> QED BY <1>2, LoopWorks
<1>4. here \in SUBSET Keys
    BY DEF Bucket
<1>5. ans \in Answers /\ ans.found = g[v].found \cup here /\ ans.cursor = g[v].cursor
    <2> HIDE DEF g, here, ans
    <2> QED BY <1>1, <1>3, <1>4 DEF Answers
<1>6. ASSUME NEW k \in small \cup large, Ahead(Hash[k], v), k \notin ans.found
      PROVE  ans.cursor # Zero /\ Ahead(Hash[k], ans.cursor)
    <2>1. k \notin g[v].found /\ k \notin here
        <3> HIDE DEF g, here, ans
        <3> QED BY <1>5, <1>6
    <2>2. CASE k \in large
        <3> HIDE DEF g, here, ans
        <3> QED BY <1>3, <1>5, <1>6, <2>1, <2>2 DEF Covers
    <2>3. CASE k \in small
        <3>1. Advance(v, s) # Zero /\ Ahead(Hash[k], Advance(v, s))
            <4> HIDE DEF g, ans
            <4> QED BY <1>6, <2>1, <2>3, BucketCovers
        <3> HIDE DEF g, here, ans
        <3> QED BY <1>3, <1>5, <3>1
    <2> QED BY <2>2, <2>3
<1>7. Covers(ans, small \cup large, v)
    <2> HIDE DEF ans
    <2> QED BY <1>6 DEF Covers
<1> QED BY <1>5, <1>7

\* Any dict, rehashing or not.
LEMMA ScanWorks ==
    ASSUME NEW c, DictOK(c), NEW v \in Words
    PROVE  dictScan(c, v) \in Answers /\ Covers(dictScan(c, v), dictKeys(c), v)
<1>0. /\ c.t0 \in SUBSET Keys /\ c.t1 \in SUBSET Keys /\ c.e0 \in -1..W /\ c.e1 \in -1..W
      /\ W \in Nat /\ Zero \in Words /\ dictKeys(c) \subseteq Keys
    BY WidthAssumption DEF DictOK, Dicts, Exps, Zero, Words, dictKeys
<1>1. CASE dictKeys(c) = {}
    BY <1>0, <1>1 DEF dictScan, Answers, Covers
<1>2. CASE dictKeys(c) # {} /\ ~dictIsRehashing(c)
    <2>1. c.t1 = {} /\ c.e0 \in 0..W
        BY <1>0, <1>2 DEF DictOK, dictIsRehashing, dictKeys
    <2> DEFINE here == Bucket(c.t0, c.e0, Masked[c.e0][v])
               next == Advance(v, c.e0)
    <2>2. dictScan(c, v) = [found |-> here, cursor |-> next]
        BY <1>2 DEF dictScan
    <2>3. here \in SUBSET Keys /\ next \in Words
        BY <1>0, <2>1, AdvanceType DEF Bucket
    <2>4. ASSUME NEW k \in dictKeys(c), Ahead(Hash[k], v), k \notin here
          PROVE  next # Zero /\ Ahead(Hash[k], next)
        <3>1. k \in c.t0
            BY <2>1 DEF dictKeys
        <3> QED BY <1>0, <2>1, <2>4, <3>1, BucketCovers
    <2> HIDE DEF here, next
    <2> QED BY <2>2, <2>3, <2>4 DEF Answers, Covers
<1>3. CASE dictKeys(c) # {} /\ dictIsRehashing(c)
    <2>1. c.e0 \in 0..W /\ c.e1 \in 0..W /\ c.e0 # c.e1
        BY <1>0, <1>3 DEF DictOK, dictIsRehashing
    <2>2. CASE c.e0 > c.e1
        <3>1. dictScan(c, v) = ScanBoth(c.t1, c.e1, c.t0, c.e0, v)
            BY <1>3, <2>2 DEF dictScan
        <3>2. c.e1 < c.e0
            BY <1>0, <2>2
        <3>3. dictKeys(c) = c.t1 \cup c.t0
            BY DEF dictKeys
        <3> QED BY <1>0, <2>1, <3>1, <3>2, <3>3, ScanBothWorks
    <2>3. CASE ~(c.e0 > c.e1)
        <3>1. dictScan(c, v) = ScanBoth(c.t0, c.e0, c.t1, c.e1, v)
            BY <1>3, <2>3 DEF dictScan
        <3>2. c.e0 < c.e1
            BY <1>0, <2>1, <2>3
        <3> QED BY <1>0, <2>1, <3>1, <3>2, ScanBothWorks DEF dictKeys
    <2> QED BY <2>2, <2>3
<1> QED BY <1>1, <1>2, <1>3

-----------------------------------------------------------------------------
(* Rehashing and resizing                                                  *)

LEMMA BucketOfType ==
    ASSUME NEW k \in Keys, NEW e \in 0..W
    PROVE  BucketOf(k, e) \in Nat /\ BucketOf(k, e) < Pow2[e]
BY HashAssumption, MaskedType DEF BucketOf

\* The fields of a dict, while rehashing and otherwise.
LEMMA DictFields ==
    ASSUME NEW c, DictOK(c)
    PROVE  /\ c = [t0 |-> c.t0, t1 |-> c.t1, e0 |-> c.e0, e1 |-> c.e1, rehashidx |-> c.rehashidx]
           /\ c.t0 \in SUBSET Keys /\ c.t1 \in SUBSET Keys
           /\ dictIsRehashing(c) => /\ c.e0 \in 0..W /\ c.e1 \in 0..W /\ c.e0 # c.e1
                                    /\ c.rehashidx \in Nat /\ c.rehashidx <= Pow2[c.e0]
           /\ ~dictIsRehashing(c) => c.t1 = {} /\ c.e1 = -1 /\ c.rehashidx = -1
           /\ c.t0 # {} => c.e0 \in 0..W
<1>1. W \in Nat /\ Pow2[W] \in Nat
    BY WidthAssumption, Pow2Type
<1>2. c \in Dicts
    BY DEF DictOK
<1>3. c = [t0 |-> c.t0, t1 |-> c.t1, e0 |-> c.e0, e1 |-> c.e1, rehashidx |-> c.rehashidx]
    BY <1>2 DEF Dicts
<1>4. /\ c.t0 \in SUBSET Keys /\ c.t1 \in SUBSET Keys
      /\ c.e0 \in -1..W /\ c.e1 \in -1..W /\ c.rehashidx \in -1..Pow2[W]
    BY <1>2 DEF Dicts, Exps
<1> QED BY <1>1, <1>3, <1>4 DEF DictOK, dictIsRehashing

\* A dict that is rehashing, put together.
LEMMA RehashingOK ==
    ASSUME NEW a \in SUBSET Keys, NEW b \in SUBSET Keys, NEW e \in 0..W, NEW f \in 0..W,
           NEW r \in Nat, a \cap b = {}, e # f, r <= Pow2[e], \A k \in a : BucketOf(k, e) >= r
    PROVE  DictOK([t0 |-> a, t1 |-> b, e0 |-> e, e1 |-> f, rehashidx |-> r])
<1>1. W \in Nat /\ Pow2[W] \in Nat /\ Pow2[e] \in Nat /\ Pow2[e] <= Pow2[W]
    BY WidthAssumption, Pow2Type, Pow2Bound
<1>2. e # -1 /\ f # -1 /\ r # -1 /\ e \in -1..W /\ f \in -1..W /\ r \in -1..Pow2[W]
    BY <1>1
<1> QED BY <1>2 DEF DictOK, Dicts, Exps

\* A dict with one table, put together.
LEMMA PlainOK ==
    ASSUME NEW a \in SUBSET Keys, NEW e \in -1..W, e = -1 => a = {}
    PROVE  DictOK([t0 |-> a, t1 |-> {}, e0 |-> e, e1 |-> -1, rehashidx |-> -1])
<1>1. W \in Nat /\ Pow2[W] \in Nat
    BY WidthAssumption, Pow2Type
<1>2. -1 \in -1..W /\ -1 \in -1..Pow2[W]
    BY <1>1
<1> QED BY <1>2 DEF DictOK, Dicts, Exps

\* dictCheckRehashingCompleted keeps the keys.
LEMMA CompletedOK ==
    ASSUME NEW c, DictOK(c), dictIsRehashing(c)
    PROVE  DictOK(CheckCompleted(c)) /\ dictKeys(CheckCompleted(c)) = dictKeys(c)
<1>1. CASE c.t0 # {}
    BY <1>1 DEF CheckCompleted
<1>2. CASE c.t0 = {}
    <2>1. CheckCompleted(c) = [t0 |-> c.t1, t1 |-> {}, e0 |-> c.e1, e1 |-> -1, rehashidx |-> -1]
        BY <1>2 DEF CheckCompleted, EmptyDict
    <2>2. c.e1 \in -1..W /\ c.e1 # -1 /\ c.t1 \in SUBSET Keys
        BY DictFields, WidthAssumption
    <2>3. DictOK(CheckCompleted(c))
        BY <2>1, <2>2, PlainOK
    <2> QED BY <1>2, <2>1, <2>3 DEF dictKeys
<1> QED BY <1>1, <1>2

\* A record with two fields replaced, field by field.
LEMMA NewTables ==
    ASSUME NEW c, c = [t0 |-> c.t0, t1 |-> c.t1, e0 |-> c.e0, e1 |-> c.e1, rehashidx |-> c.rehashidx],
           NEW y, NEW z
    PROVE  [c EXCEPT !.t0 = y, !.t1 = z] =
               [t0 |-> y, t1 |-> z, e0 |-> c.e0, e1 |-> c.e1, rehashidx |-> c.rehashidx]
<1> DEFINE m == [c EXCEPT !.t0 = y]
<1>1. m = [t0 |-> y, t1 |-> c.t1, e0 |-> c.e0, e1 |-> c.e1, rehashidx |-> c.rehashidx]
    OBVIOUS
<1>2. [c EXCEPT !.t0 = y, !.t1 = z] = [m EXCEPT !.t1 = z]
    BY Zenon
<1> HIDE DEF m
<1>3. [m EXCEPT !.t1 = z] = [t0 |-> y, t1 |-> z, e0 |-> c.e0, e1 |-> c.e1, rehashidx |-> c.rehashidx]
    BY <1>1
<1> QED BY <1>2, <1>3

LEMMA NewRehash ==
    ASSUME NEW c, c = [t0 |-> c.t0, t1 |-> c.t1, e0 |-> c.e0, e1 |-> c.e1, rehashidx |-> c.rehashidx],
           NEW y, NEW z
    PROVE  [c EXCEPT !.e1 = y, !.rehashidx = z] =
               [t0 |-> c.t0, t1 |-> c.t1, e0 |-> c.e0, e1 |-> y, rehashidx |-> z]
<1> DEFINE m == [c EXCEPT !.e1 = y]
<1>1. m = [t0 |-> c.t0, t1 |-> c.t1, e0 |-> c.e0, e1 |-> y, rehashidx |-> c.rehashidx]
    OBVIOUS
<1>2. [c EXCEPT !.e1 = y, !.rehashidx = z] = [m EXCEPT !.rehashidx = z]
    BY Zenon
<1> HIDE DEF m
<1>3. [m EXCEPT !.rehashidx = z] = [t0 |-> c.t0, t1 |-> c.t1, e0 |-> c.e0, e1 |-> y, rehashidx |-> z]
    BY <1>1
<1> QED BY <1>2, <1>3

\* What rehashEntriesInBucketAtIndex returns.
LEMMA MovedFields ==
    ASSUME NEW c, DictOK(c), NEW i
    PROVE  rehashEntriesInBucketAtIndex(c, i) =
               [t0 |-> c.t0 \ Bucket(c.t0, c.e0, i), t1 |-> c.t1 \cup Bucket(c.t0, c.e0, i),
                e0 |-> c.e0, e1 |-> c.e1, rehashidx |-> c.rehashidx]
<1>1. c = [t0 |-> c.t0, t1 |-> c.t1, e0 |-> c.e0, e1 |-> c.e1, rehashidx |-> c.rehashidx]
    BY DictFields
<1>2. ASSUME NEW x
      PROVE  [c EXCEPT !.t0 = @ \ x, !.t1 = @ \cup x] =
                 [t0 |-> c.t0 \ x, t1 |-> c.t1 \cup x, e0 |-> c.e0, e1 |-> c.e1, rehashidx |-> c.rehashidx]
    <2>1. [c EXCEPT !.t0 = c.t0 \ x, !.t1 = c.t1 \cup x] =
              [t0 |-> c.t0 \ x, t1 |-> c.t1 \cup x, e0 |-> c.e0, e1 |-> c.e1, rehashidx |-> c.rehashidx]
        BY <1>1, NewTables
    <2>2. [c EXCEPT !.t0 = c.t0 \ x, !.t1 = c.t1 \cup x] = [c EXCEPT !.t0 = @ \ x, !.t1 = @ \cup x]
        OBVIOUS
    <2> QED BY <2>1, <2>2
<1> QED BY <1>2 DEF rehashEntriesInBucketAtIndex

\* Moving the keys of a bucket, when what stays is not behind rehashidx.
LEMMA MovedOK ==
    ASSUME NEW c, DictOK(c), dictIsRehashing(c), NEW i, NEW r \in Nat, r <= Pow2[c.e0],
           \A k \in c.t0 : BucketOf(k, c.e0) # i => BucketOf(k, c.e0) >= r,
           NEW m, m = [t0 |-> c.t0 \ Bucket(c.t0, c.e0, i), t1 |-> c.t1 \cup Bucket(c.t0, c.e0, i),
                       e0 |-> c.e0, e1 |-> c.e1, rehashidx |-> r]
    PROVE  DictOK(CheckCompleted(m)) /\ dictKeys(CheckCompleted(m)) = dictKeys(c)
<1> DEFINE b == Bucket(c.t0, c.e0, i)
<1>1. b \subseteq c.t0 /\ \A k \in c.t0 \ b : BucketOf(k, c.e0) # i
    BY DEF Bucket
<1>2. c.t0 \cap c.t1 = {}
    BY DEF DictOK
<1> HIDE DEF b
<1>3. m = [t0 |-> c.t0 \ b, t1 |-> c.t1 \cup b, e0 |-> c.e0, e1 |-> c.e1, rehashidx |-> r]
    BY DEF b
<1>4. DictOK(m)
    <2>1. c.t0 \ b \in SUBSET Keys /\ c.t1 \cup b \in SUBSET Keys /\ (c.t0 \ b) \cap (c.t1 \cup b) = {}
        BY <1>1, <1>2, DictFields
    <2>2. \A k \in c.t0 \ b : BucketOf(k, c.e0) >= r
        BY <1>1
    <2> QED BY <1>3, <2>1, <2>2, DictFields, RehashingOK
<1>5. dictIsRehashing(m) /\ dictKeys(m) = dictKeys(c)
    BY <1>1, <1>3 DEF dictIsRehashing, dictKeys
<1> QED BY <1>4, <1>5, CompletedOK

\* dictRehash: the assertion that rehashidx stays in the table, and no key is lost.
LEMMA RehashOK ==
    ASSUME NEW c, DictOK(c)
    PROVE  DictOK(dictRehash(c)) /\ dictKeys(dictRehash(c)) = dictKeys(c)
<1>1. CASE ~MayRehash(c)
    BY <1>1 DEF dictRehash
<1>2. CASE MayRehash(c) /\ c.t0 = {}
    <2>1. dictRehash(c) = CheckCompleted(c) /\ dictIsRehashing(c)
        BY <1>2 DEF dictRehash, MayRehash
    <2> QED BY <2>1, CompletedOK
<1>3. CASE MayRehash(c) /\ c.t0 # {}
    <2>0. dictIsRehashing(c)
        BY <1>3 DEF MayRehash
    <2> DEFINE S == {BucketOf(k, c.e0) : k \in {x \in c.t0 : BucketOf(x, c.e0) >= c.rehashidx}}
               i == Min(S)
    <2>1. /\ c.e0 \in 0..W /\ c.e1 \in 0..W /\ c.e0 # c.e1
          /\ c.rehashidx \in Nat /\ c.rehashidx <= Pow2[c.e0] /\ Pow2[c.e0] \in Nat
          /\ c.t0 \in SUBSET Keys /\ c.t1 \in SUBSET Keys /\ c.t0 \cap c.t1 = {}
        BY <2>0, DictFields, Pow2Type DEF DictOK
    <2>2. \A k \in c.t0 : /\ BucketOf(k, c.e0) \in Nat /\ BucketOf(k, c.e0) < Pow2[c.e0]
                          /\ BucketOf(k, c.e0) >= c.rehashidx
        BY <2>0, <2>1, BucketOfType DEF DictOK, dictIsRehashing
    <2>3. S \in SUBSET Nat /\ S # {}
        BY <1>3, <2>2
    <2>4. i \in S /\ \A j \in S : i <= j
        <3> HIDE DEF S
        <3> QED BY <2>3, MinWorks
    <2>5. /\ i \in Nat /\ i < Pow2[c.e0] /\ i >= c.rehashidx
          /\ \A k \in c.t0 : i <= BucketOf(k, c.e0)
        <3> HIDE DEF i
        <3> QED BY <2>2, <2>4
    <2>6. dictRehash(c) = IF i - c.rehashidx >= EmptyVisits
                          THEN [c EXCEPT !.rehashidx = @ + EmptyVisits]
                          ELSE CheckCompleted([rehashEntriesInBucketAtIndex(c, i) EXCEPT !.rehashidx = i + 1])
        BY <1>3 DEF dictRehash
    <2> HIDE DEF i, S
    <2>7. CASE i - c.rehashidx >= EmptyVisits
        <3>1. dictRehash(c) = [t0 |-> c.t0, t1 |-> c.t1, e0 |-> c.e0, e1 |-> c.e1,
                               rehashidx |-> c.rehashidx + EmptyVisits]
            BY <2>6, <2>7, DictFields
        <3>2. /\ c.rehashidx + EmptyVisits \in Nat /\ c.rehashidx + EmptyVisits <= i
            BY <2>1, <2>5, <2>7, RatiosAssumption
        <3>3. \A k \in c.t0 : BucketOf(k, c.e0) >= c.rehashidx + EmptyVisits
            BY <2>2, <2>5, <3>2
        <3>4. c.rehashidx + EmptyVisits <= Pow2[c.e0]
            BY <2>1, <2>5, <3>2
        <3>5. DictOK(dictRehash(c))
            BY <2>1, <3>1, <3>2, <3>3, <3>4, RehashingOK
        <3> QED BY <3>1, <3>5 DEF dictKeys
    <2>8. CASE ~(i - c.rehashidx >= EmptyVisits)
        <3> DEFINE b == Bucket(c.t0, c.e0, i)
                   m == [t0 |-> c.t0 \ b, t1 |-> c.t1 \cup b, e0 |-> c.e0, e1 |-> c.e1,
                         rehashidx |-> i + 1]
        <3>1. [rehashEntriesInBucketAtIndex(c, i) EXCEPT !.rehashidx = i + 1] = m
            <4>1. rehashEntriesInBucketAtIndex(c, i) =
                    [t0 |-> c.t0 \ b, t1 |-> c.t1 \cup b, e0 |-> c.e0, e1 |-> c.e1, rehashidx |-> c.rehashidx]
                BY MovedFields
            <4> HIDE DEF b
            <4> QED BY <4>1
        <3>2. i + 1 \in Nat /\ i + 1 <= Pow2[c.e0]
            BY <2>1, <2>5
        <3>3. \A k \in c.t0 : BucketOf(k, c.e0) # i => BucketOf(k, c.e0) >= i + 1
            BY <2>2, <2>5
        <3>4. DictOK(CheckCompleted(m)) /\ dictKeys(CheckCompleted(m)) = dictKeys(c)
            <4>1. m = [t0 |-> c.t0 \ Bucket(c.t0, c.e0, i), t1 |-> c.t1 \cup Bucket(c.t0, c.e0, i),
                       e0 |-> c.e0, e1 |-> c.e1, rehashidx |-> i + 1]
                OBVIOUS
            <4> DEFINE r == i + 1
            <4>2. /\ r \in Nat /\ r <= Pow2[c.e0]
                  /\ \A k \in c.t0 : BucketOf(k, c.e0) # i => BucketOf(k, c.e0) >= r
                  /\ m = [t0 |-> c.t0 \ Bucket(c.t0, c.e0, i), t1 |-> c.t1 \cup Bucket(c.t0, c.e0, i),
                          e0 |-> c.e0, e1 |-> c.e1, rehashidx |-> r]
                BY <3>2, <3>3, <4>1
            <4> HIDE DEF m, b, r
            <4> QED BY <2>0, <4>2, MovedOK
        <3> QED BY <2>6, <2>8, <3>1, <3>4
    <2> QED BY <2>7, <2>8
<1> QED BY <1>1, <1>2, <1>3

\* _dictRehashStepIfNeeded
LEMMA StepOK ==
    ASSUME NEW c, DictOK(c), NEW k \in Keys
    PROVE  DictOK(RehashStepIfNeeded(c, k)) /\ dictKeys(RehashStepIfNeeded(c, k)) = dictKeys(c)
<1> DEFINE i == BucketOf(k, c.e0)
<1>1. CASE ~dictIsRehashing(c)
    BY <1>1 DEF RehashStepIfNeeded
<1>2. CASE dictIsRehashing(c) /\ ~(i >= c.rehashidx /\ Bucket(c.t0, c.e0, i) # {})
    <2>1. RehashStepIfNeeded(c, k) = dictRehash(c)
        BY <1>2 DEF RehashStepIfNeeded
    <2> QED BY <2>1, RehashOK
<1>3. CASE dictIsRehashing(c) /\ i >= c.rehashidx /\ Bucket(c.t0, c.e0, i) # {}
    <2>1. RehashStepIfNeeded(c, k) =
            IF MayRehash(c) THEN CheckCompleted(rehashEntriesInBucketAtIndex(c, i)) ELSE c
        BY <1>3 DEF RehashStepIfNeeded, dictBucketRehash
    <2> DEFINE b == Bucket(c.t0, c.e0, i)
               m == [t0 |-> c.t0 \ b, t1 |-> c.t1 \cup b, e0 |-> c.e0, e1 |-> c.e1,
                     rehashidx |-> c.rehashidx]
    <2>2. rehashEntriesInBucketAtIndex(c, i) = m
        <3> HIDE DEF i
        <3> QED BY MovedFields
    <2>3. c.rehashidx \in Nat /\ c.rehashidx <= Pow2[c.e0]
          /\ \A x \in c.t0 : BucketOf(x, c.e0) >= c.rehashidx
        BY <1>3, DictFields DEF DictOK, dictIsRehashing
    <2>4. DictOK(CheckCompleted(m)) /\ dictKeys(CheckCompleted(m)) = dictKeys(c)
        <3>1. m = [t0 |-> c.t0 \ Bucket(c.t0, c.e0, i), t1 |-> c.t1 \cup Bucket(c.t0, c.e0, i),
                   e0 |-> c.e0, e1 |-> c.e1, rehashidx |-> c.rehashidx]
            OBVIOUS
        <3> HIDE DEF i, m, b
        <3> QED BY <1>3, <2>3, <3>1, MovedOK
    <2> QED BY <2>1, <2>2, <2>4
<1> QED BY <1>1, <1>2, <1>3

\* _dictNextExp finds an exponent, for any number of keys there can be.
LEMMA NextExpOK ==
    ASSUME NEW size \in Nat, size <= Pow2[W]
    PROVE  NextExp(size) \in 0..W
<1> DEFINE S == {e \in 0..W : Pow2[e] >= size}
<1>0. W \in Nat /\ InitialExp \in 0..W /\ Pow2[W] \in Nat
    BY WidthAssumption, Pow2Type
<1>1. S \in SUBSET Nat /\ S # {} /\ S \subseteq 0..W
    BY <1>0
<1>2. Min(S) \in S
    <2> HIDE DEF S
    <2> QED BY <1>1, MinWorks
<1>3. Min(S) \in 0..W
    <2> HIDE DEF S
    <2> QED BY <1>1, <1>2
<1> HIDE DEF S
<1>4. NextExp(size) = IF size <= Pow2[InitialExp] THEN InitialExp ELSE Min(S)
    BY DEF NextExp, S
<1> QED BY <1>0, <1>3, <1>4

\* _dictResize, to any size there can be, gives a table and keeps the keys.
LEMMA ResizeOK ==
    ASSUME NEW c, DictOK(c), ~dictIsRehashing(c), NEW size \in Nat, size <= Pow2[W]
    PROVE  /\ DictOK(Resize(c, size)) /\ dictKeys(Resize(c, size)) = dictKeys(c)
           /\ Resize(c, size).e0 # -1
<1> DEFINE x == NextExp(size)
<1>0. x \in 0..W /\ x \in -1..W /\ x # -1
    BY NextExpOK, WidthAssumption
<1>1. /\ c = [t0 |-> c.t0, t1 |-> {}, e0 |-> c.e0, e1 |-> -1, rehashidx |-> -1]
      /\ c.t0 \in SUBSET Keys /\ c.t1 = {} /\ c.e1 = -1 /\ c.rehashidx = -1
      /\ c.t0 # {} => c.e0 \in 0..W
    BY DictFields
<1> HIDE DEF x
<1>2. CASE x = c.e0
    BY <1>0, <1>2 DEF Resize, x
<1>3. CASE x # c.e0 /\ c.t0 = {}
    <2>1. Resize(c, size) = [c EXCEPT !.e0 = x]
        BY <1>3 DEF Resize, x
    <2>2. Resize(c, size) = [t0 |-> {}, t1 |-> {}, e0 |-> x, e1 |-> -1, rehashidx |-> -1]
        BY <1>1, <1>3, <2>1
    <2>3. DictOK(Resize(c, size))
        BY <1>0, <2>2, PlainOK
    <2> QED BY <1>0, <1>1, <1>3, <2>2, <2>3 DEF dictKeys
<1>4. CASE x # c.e0 /\ c.t0 # {}
    <2>1. Resize(c, size) = [c EXCEPT !.e1 = x, !.rehashidx = 0]
        BY <1>4 DEF Resize, x
    <2>2. Resize(c, size) = [t0 |-> c.t0, t1 |-> {}, e0 |-> c.e0, e1 |-> x, rehashidx |-> 0]
        <3>1. c = [t0 |-> c.t0, t1 |-> c.t1, e0 |-> c.e0, e1 |-> c.e1, rehashidx |-> c.rehashidx]
            BY DictFields
        <3> QED BY <1>1, <2>1, <3>1, NewRehash
    <2>3. c.e0 \in 0..W /\ Pow2[c.e0] \in Nat
        BY <1>1, <1>4, Pow2Type
    <2>4. \A k \in c.t0 : BucketOf(k, c.e0) >= 0
        BY <1>1, <2>3, BucketOfType
    <2>5. DictOK(Resize(c, size))
        BY <1>0, <1>1, <1>4, <2>2, <2>3, <2>4, RehashingOK
    <2> QED BY <1>1, <2>2, <2>3, <2>5, WidthAssumption DEF dictKeys
<1> QED BY <1>2, <1>3, <1>4

\* The number of keys of a table.
LEMMA KeysCount ==
    ASSUME NEW t \in SUBSET Keys
    PROVE  Cardinality(t) \in Nat /\ Cardinality(t) + 1 <= Pow2[W]
<1>1. IsFiniteSet(Keys) /\ Cardinality(Keys) < Pow2[W] /\ Pow2[W] \in Nat
    BY KeysAssumption, Pow2Type, WidthAssumption
<1>2. IsFiniteSet(t) /\ Cardinality(t) <= Cardinality(Keys)
    BY <1>1, FS_Subset
<1>3. Cardinality(t) \in Nat /\ Cardinality(Keys) \in Nat
    BY <1>1, <1>2, FS_CardinalityType
<1> QED BY <1>1, <1>2, <1>3

\* dictExpandIfNeeded leaves a table to insert into.
LEMMA ExpandOK ==
    ASSUME NEW c, DictOK(c), NEW allowed \in BOOLEAN
    PROVE  /\ DictOK(ExpandIfNeeded(c, allowed)) /\ dictKeys(ExpandIfNeeded(c, allowed)) = dictKeys(c)
           /\ ExpandIfNeeded(c, allowed).e0 # -1
<1>0. /\ c.t0 \in SUBSET Keys /\ Cardinality(c.t0) \in Nat /\ Cardinality(c.t0) + 1 <= Pow2[W]
      /\ Pow2[InitialExp] \in Nat /\ Pow2[InitialExp] <= Pow2[W]
    BY DictFields, KeysCount, Pow2Type, Pow2Bound, WidthAssumption
<1>1. CASE dictIsRehashing(c)
    <2>1. c.e0 # -1
        BY <1>1 DEF DictOK, dictIsRehashing
    <2> QED BY <1>1, <2>1 DEF ExpandIfNeeded
<1>2. CASE ~dictIsRehashing(c) /\ c.e0 = -1
    <2>1. ExpandIfNeeded(c, allowed) = Resize(c, Pow2[InitialExp])
        BY <1>2 DEF ExpandIfNeeded
    <2> QED BY <1>0, <1>2, <2>1, ResizeOK
<1>3. CASE ~dictIsRehashing(c) /\ c.e0 # -1
    <2>1. ExpandIfNeeded(c, allowed) \in {c, Resize(c, Cardinality(c.t0) + 1)}
        BY <1>3 DEF ExpandIfNeeded
    <2>2. Cardinality(c.t0) + 1 \in Nat
        BY <1>0
    <2> QED BY <1>0, <1>3, <2>1, <2>2, ResizeOK
<1> QED BY <1>1, <1>2, <1>3

\* dictShrinkIfNeeded
LEMMA ShrinkOK ==
    ASSUME NEW c, DictOK(c), NEW allowed \in BOOLEAN
    PROVE  DictOK(ShrinkIfNeeded(c, allowed)) /\ dictKeys(ShrinkIfNeeded(c, allowed)) = dictKeys(c)
<1>0. /\ c.t0 \in SUBSET Keys /\ Cardinality(c.t0) \in Nat /\ Cardinality(c.t0) <= Pow2[W]
    BY DictFields, KeysCount, Pow2Type, WidthAssumption
<1>1. CASE dictIsRehashing(c)
    BY <1>1 DEF ShrinkIfNeeded
<1>2. CASE ~dictIsRehashing(c)
    <2>1. ShrinkIfNeeded(c, allowed) \in {c, Resize(c, Cardinality(c.t0))}
        BY DEF ShrinkIfNeeded
    <2> QED BY <1>0, <1>2, <2>1, ResizeOK
<1> QED BY <1>1, <1>2

-----------------------------------------------------------------------------
(* The steps                                                               *)

\* The commands and the cron: they leave the walk alone, and what they take from
\* the table is no longer owed.
LEMMA CommandKeeps ==
    ASSUME IndInv, DictOK(d'), can_resize' \in {"enable", "avoid"}, UNCHANGED <<cursor, walk>>,
           owed' \subseteq owed, owed' \subseteq dictKeys(d')
    PROVE  IndInv'
<1>1. TypeOK'
    BY DEF IndInv, TypeOK, DictOK
<1>2. WalkInv'
    BY DEF IndInv, WalkInv
<1> QED BY <1>1, <1>2 DEF IndInv

LEMMA AddKeeps ==
    ASSUME IndInv, NEW k \in Keys, NEW allowed \in BOOLEAN, Add(k, allowed)
    PROVE  IndInv'
<1> DEFINE s == RehashStepIfNeeded(d, k)
           c == ExpandIfNeeded(s, allowed)
<1>1. DictOK(s) /\ dictKeys(s) = dictKeys(d)
    BY StepOK DEF IndInv
<1>2. DictOK(c) /\ dictKeys(c) = dictKeys(d) /\ c.e0 # -1
    <2> HIDE DEF s
    <2> QED BY <1>1, ExpandOK
<1>3. k \notin dictKeys(d) /\ UNCHANGED <<can_resize, cursor, walk, owed>>
    BY DEF Add
<1>4. d' = IF dictIsRehashing(c) THEN [c EXCEPT !.t1 = @ \cup {k}] ELSE [c EXCEPT !.t0 = @ \cup {k}]
    BY DEF Add
<1> HIDE DEF c
<1>5. /\ c = [t0 |-> c.t0, t1 |-> c.t1, e0 |-> c.e0, e1 |-> c.e1, rehashidx |-> c.rehashidx]
      /\ c.t0 \in SUBSET Keys /\ c.t1 \in SUBSET Keys /\ c.e0 \in -1..W
      /\ c.t0 \cap c.t1 = {} /\ k \notin c.t0 /\ k \notin c.t1
    BY <1>2, <1>3, DictFields DEF DictOK, Dicts, Exps, dictKeys
<1>6. CASE dictIsRehashing(c)
    <2>1. d' = [t0 |-> c.t0, t1 |-> c.t1 \cup {k}, e0 |-> c.e0, e1 |-> c.e1, rehashidx |-> c.rehashidx]
        BY <1>4, <1>5, <1>6
    <2>2. /\ c.e0 \in 0..W /\ c.e1 \in 0..W /\ c.e0 # c.e1 /\ c.rehashidx \in Nat /\ c.rehashidx <= Pow2[c.e0]
          /\ \A x \in c.t0 : BucketOf(x, c.e0) >= c.rehashidx
        BY <1>2, <1>6, DictFields DEF DictOK, dictIsRehashing
    <2>3. c.t1 \cup {k} \in SUBSET Keys /\ c.t0 \cap (c.t1 \cup {k}) = {}
        BY <1>5
    <2>4. DictOK(d')
        BY <1>5, <2>1, <2>2, <2>3, RehashingOK
    <2>5. dictKeys(d') = dictKeys(c) \cup {k}
        BY <2>1 DEF dictKeys
    <2> QED BY <1>2, <1>3, <2>4, <2>5, CommandKeeps DEF IndInv, WalkInv, TypeOK
<1>7. CASE ~dictIsRehashing(c)
    <2>1. c.t1 = {} /\ c.e1 = -1 /\ c.rehashidx = -1
        BY <1>2, <1>7, DictFields
    <2>2. d' = [t0 |-> c.t0 \cup {k}, t1 |-> {}, e0 |-> c.e0, e1 |-> -1, rehashidx |-> -1]
        BY <1>4, <1>5, <1>7, <2>1
    <2>3. DictOK(d')
        BY <1>2, <1>5, <2>2, PlainOK
    <2>4. dictKeys(d') = dictKeys(c) \cup {k}
        BY <2>1, <2>2 DEF dictKeys
    <2> QED BY <1>2, <1>3, <2>3, <2>4, CommandKeeps DEF IndInv, WalkInv, TypeOK
<1> QED BY <1>6, <1>7

LEMMA DeleteKeeps ==
    ASSUME IndInv, NEW k \in Keys, NEW allowed \in BOOLEAN, Delete(k, allowed)
    PROVE  IndInv'
<1> DEFINE c == RehashStepIfNeeded(d, k)
           m == [c EXCEPT !.t0 = @ \ {k}, !.t1 = @ \ {k}]
<1>1. DictOK(c) /\ dictKeys(c) = dictKeys(d)
    BY StepOK DEF IndInv
<1>2. d' = ShrinkIfNeeded(m, allowed) /\ owed' = owed \ {k} /\ UNCHANGED <<can_resize, cursor, walk>>
    BY DEF Delete
<1> HIDE DEF c
<1>3. m = [t0 |-> c.t0 \ {k}, t1 |-> c.t1 \ {k}, e0 |-> c.e0, e1 |-> c.e1, rehashidx |-> c.rehashidx]
    <2>1. c = [t0 |-> c.t0, t1 |-> c.t1, e0 |-> c.e0, e1 |-> c.e1, rehashidx |-> c.rehashidx]
        BY <1>1, DictFields
    <2>2. [c EXCEPT !.t0 = c.t0 \ {k}, !.t1 = c.t1 \ {k}] =
              [t0 |-> c.t0 \ {k}, t1 |-> c.t1 \ {k}, e0 |-> c.e0, e1 |-> c.e1, rehashidx |-> c.rehashidx]
        BY <2>1, NewTables
    <2>3. m = [c EXCEPT !.t0 = c.t0 \ {k}, !.t1 = c.t1 \ {k}]
        OBVIOUS
    <2> QED BY <2>2, <2>3
<1> HIDE DEF m
<1>4. DictOK(m)
    <2>1. /\ c.t0 \ {k} \in SUBSET Keys /\ c.t1 \ {k} \in SUBSET Keys
          /\ (c.t0 \ {k}) \cap (c.t1 \ {k}) = {}
          /\ c.e0 \in -1..W /\ (c.e0 = -1 => c.t0 \ {k} = {})
        BY <1>1 DEF DictOK, Dicts, Exps
    <2>2. CASE dictIsRehashing(c)
        <3>1. /\ c.e0 \in 0..W /\ c.e1 \in 0..W /\ c.e0 # c.e1
              /\ c.rehashidx \in Nat /\ c.rehashidx <= Pow2[c.e0]
              /\ \A x \in c.t0 \ {k} : BucketOf(x, c.e0) >= c.rehashidx
            BY <1>1, <2>2, DictFields DEF DictOK, dictIsRehashing
        <3> QED BY <1>3, <2>1, <3>1, RehashingOK
    <2>3. CASE ~dictIsRehashing(c)
        <3>1. c.t1 \ {k} = {} /\ c.e1 = -1 /\ c.rehashidx = -1
            BY <1>1, <2>3, DictFields
        <3>2. m = [t0 |-> c.t0 \ {k}, t1 |-> {}, e0 |-> c.e0, e1 |-> -1, rehashidx |-> -1]
            BY <1>3, <3>1
        <3> QED BY <2>1, <3>2, PlainOK
    <2> QED BY <2>2, <2>3
<1>5. dictKeys(m) = dictKeys(d) \ {k}
    BY <1>1, <1>3 DEF dictKeys
<1>6. DictOK(d') /\ dictKeys(d') = dictKeys(d) \ {k}
    BY <1>2, <1>4, <1>5, ShrinkOK
<1> QED BY <1>2, <1>6, CommandKeeps DEF IndInv, WalkInv, TypeOK

\* SCAN: what is owed after the answer is ahead of the new cursor, and nothing is
\* owed when that is zero.
LEMMA ScanKeeps ==
    ASSUME IndInv, ScanFirst \/ ScanNext
    PROVE  IndInv'
<1>0. /\ DictOK(d) /\ cursor \in Words /\ Zero \in Words /\ owed \subseteq Keys
      /\ dictKeys(d) \subseteq Keys /\ owed \subseteq dictKeys(d) /\ UNCHANGED <<d, can_resize>>
    BY DictFields DEF IndInv, TypeOK, WalkInv, dictKeys, Zero, Words, ScanFirst, ScanNext
<1> DEFINE answer(v) == dictScan(d, v)
<1>1. PICK v \in Words, o \in SUBSET dictKeys(d) :
          /\ cursor' = answer(v).cursor
          /\ owed' = o \ answer(v).found
          /\ walk' = IF cursor' = Zero THEN "done" ELSE "going"
          /\ \A k \in o : Ahead(Hash[k], v)
    <2>1. CASE ScanFirst
        <3>1. \A k \in dictKeys(d) : Ahead(Hash[k], Zero)
            BY <1>0, AheadOfZero, HashAssumption
        <3>2. /\ cursor' = answer(Zero).cursor
              /\ owed' = dictKeys(d) \ answer(Zero).found
              /\ walk' = IF cursor' = Zero THEN "done" ELSE "going"
            BY <2>1 DEF ScanFirst
        <3> HIDE DEF answer
        <3> QED BY <1>0, <3>1, <3>2
    <2>2. CASE ScanNext
        <3>1. \A k \in owed : Ahead(Hash[k], cursor)
            BY <2>2 DEF IndInv, WalkInv, ScanNext
        <3>2. /\ cursor' = answer(cursor).cursor
              /\ owed' = owed \ answer(cursor).found
              /\ walk' = IF cursor' = Zero THEN "done" ELSE "going"
            BY <2>2 DEF ScanNext
        <3> HIDE DEF answer
        <3> QED BY <1>0, <3>1, <3>2
    <2> QED BY <2>1, <2>2
<1>2. answer(v) \in Answers /\ Covers(answer(v), dictKeys(d), v)
    BY <1>0, ScanWorks
<1> HIDE DEF answer
<1>3. cursor' \in Words /\ owed' \subseteq o
    BY <1>1, <1>2 DEF Answers
<1>4. \A k \in owed' : cursor' # Zero /\ Ahead(Hash[k], cursor')
    BY <1>1, <1>2 DEF Covers
<1>5. TypeOK'
    BY <1>0, <1>1, <1>3 DEF IndInv, TypeOK
<1>6. DictOK(d')
    BY <1>0
<1>7. WalkInv'
    <2>1. dictKeys(d') = dictKeys(d)
        BY <1>0
    <2> QED BY <1>1, <1>3, <1>4, <2>1 DEF WalkInv
<1> QED BY <1>5, <1>6, <1>7 DEF IndInv

LEMMA InitInd == Init => IndInv
<1> SUFFICES ASSUME Init PROVE IndInv
    OBVIOUS
<1>1. -1 \in -1..W
    BY WidthAssumption
<1>2. DictOK(d)
    BY <1>1, PlainOK DEF Init, EmptyDict
<1> QED BY <1>2 DEF Init, IndInv, TypeOK, DictOK, WalkInv, Words, Zero

LEMMA NextInd == IndInv /\ [Next]_vars => IndInv'
<1> SUFFICES ASSUME IndInv, [Next]_vars PROVE IndInv'
    OBVIOUS
<1>0. DictOK(d) /\ owed \subseteq dictKeys(d) /\ can_resize \in {"enable", "avoid"}
    BY DEF IndInv, WalkInv, TypeOK
<1>1. ASSUME NEW k \in Keys, NEW allowed \in BOOLEAN, Add(k, allowed) PROVE IndInv'
    BY <1>1, AddKeeps
<1>2. ASSUME NEW k \in Keys, NEW allowed \in BOOLEAN, Delete(k, allowed) PROVE IndInv'
    BY <1>2, DeleteKeeps
<1>3. ASSUME NEW k \in Keys, Find(k) PROVE IndInv'
    <2>1. d' = RehashStepIfNeeded(d, k) /\ UNCHANGED <<can_resize, cursor, walk, owed>>
        BY <1>3 DEF Find
    <2>2. DictOK(d') /\ dictKeys(d') = dictKeys(d)
        BY <1>0, <2>1, StepOK
    <2> QED BY <1>0, <2>1, <2>2, CommandKeeps
<1>4. CASE RehashStep
    <2>1. d' = dictRehash(d) /\ UNCHANGED <<can_resize, cursor, walk, owed>>
        BY <1>4 DEF RehashStep
    <2>2. DictOK(d') /\ dictKeys(d') = dictKeys(d)
        BY <1>0, <2>1, RehashOK
    <2> QED BY <1>0, <2>1, <2>2, CommandKeeps
<1>5. ASSUME NEW allowed \in BOOLEAN, TryResize(allowed) PROVE IndInv'
    <2>1. /\ d' \in {ShrinkIfNeeded(d, allowed), ExpandIfNeeded(d, allowed)}
          /\ UNCHANGED <<can_resize, cursor, walk, owed>>
        BY <1>5 DEF TryResize
    <2>2. DictOK(d') /\ dictKeys(d') = dictKeys(d)
        BY <1>0, <2>1, ShrinkOK, ExpandOK
    <2> QED BY <1>0, <2>1, <2>2, CommandKeeps
<1>6. CASE Flush
    <2>1. d' = EmptyDict /\ owed' = {} /\ UNCHANGED <<can_resize, cursor, walk>>
        BY <1>6 DEF Flush
    <2>2. -1 \in -1..W
        BY WidthAssumption
    <2>3. DictOK(d')
        BY <2>1, <2>2, PlainOK DEF EmptyDict
    <2> QED BY <1>0, <2>1, <2>3, CommandKeeps
<1>7. CASE ResizePolicy
    <2>1. can_resize' \in {"enable", "avoid"} /\ UNCHANGED <<d, cursor, walk, owed>>
        BY <1>7 DEF ResizePolicy
    <2> QED BY <1>0, <2>1, CommandKeeps
<1>8. CASE ScanFirst \/ ScanNext
    BY <1>8, ScanKeeps
<1>9. CASE UNCHANGED vars
    BY <1>0, <1>9, CommandKeeps DEF vars
<1> QED BY <1>1, <1>2, <1>3, <1>4, <1>5, <1>6, <1>7, <1>8, <1>9 DEF Next

-----------------------------------------------------------------------------
(* The theorems                                                            *)

THEOREM IndInvHolds == Spec => []IndInv
BY InitInd, NextInd, PTL DEF Spec

\* The tables, the exponents and rehashidx stay within their ranges, and the cursor
\* a word, through every command of dict.c.
THEOREM TypeCorrect == Spec => []TypeOK
<1>1. IndInv => TypeOK
    BY DEF IndInv
<1> QED BY <1>1, IndInvHolds, PTL

\* A lookup finds every key, however far the rehashing is, and the assertion of
\* dictRehash on rehashidx holds.
THEOREM AllFoundTheorem == Spec => []AllFound
<1>1. ASSUME IndInv PROVE AllFound
    <2>1. DictOK(d)
        BY <1>1 DEF IndInv
    <2>2. d.t0 \cap d.t1 = {}
        BY <2>1 DEF DictOK
    <2>3. ASSUME NEW k \in dictKeys(d) PROVE Finds(d, k)
        <3>1. CASE dictIsRehashing(d)
            <4>1. \A x \in d.t0 : BucketOf(x, d.e0) \in Nat /\ BucketOf(x, d.e0) >= d.rehashidx
                BY <2>1, <3>1, DictFields, BucketOfType DEF DictOK, dictIsRehashing
            <4>2. d.rehashidx \in Nat
                BY <2>1, <3>1, DictFields
            <4> QED BY <3>1, <4>1, <4>2 DEF Finds, dictKeys
        <3>2. CASE ~dictIsRehashing(d)
            <4>1. k \in d.t0 /\ d.rehashidx = -1 /\ d.e0 \in 0..W /\ k \in Keys
                BY <2>1, <3>2, DictFields DEF dictKeys
            <4>2. BucketOf(k, d.e0) \in Nat
                BY <4>1, BucketOfType
            <4> QED BY <4>1, <4>2 DEF Finds
        <3> QED BY <3>1, <3>2
    <2>4. ASSUME dictIsRehashing(d) PROVE d.e1 \notin {-1, d.e0} /\ d.rehashidx <= DICTHT_SIZE(d.e0)
        BY <2>1, <2>4 DEF DictOK, dictIsRehashing, DICTHT_SIZE
    <2> QED BY <2>2, <2>3, <2>4 DEF AllFound
<1> QED BY <1>1, IndInvHolds, PTL

\* A walk with SCAN that has come to its end has returned every key that was there
\* from its start, through any resizing and rehashing in between.
THEOREM FullWalkTheorem == Spec => []FullWalk
<1>1. IndInv => FullWalk
    BY DEF IndInv, WalkInv, FullWalk
<1> QED BY <1>1, IndInvHolds, PTL
=============================================================================
