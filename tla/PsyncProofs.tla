---------------------------- MODULE PsyncProofs ------------------------------
(***************************************************************************)
(* Proofs about Psync, for any set of nodes, any size of the backlog and   *)
(* any bounds.                                                             *)
(***************************************************************************)
EXTENDS Psync, SequenceTheorems, TLAPS

-----------------------------------------------------------------------------
(* Links                                                                   *)

\* The fields of a link in each of its phases.
LEMMA LinkFields ==
    ASSUME NEW l \in Links
    PROVE  /\ l.phase \in {"down", "asked", "wait", "full", "continue", "online"}
           /\ l.phase = "down" => l = Down
           /\ l.phase = "asked" => l.id \in Ids \cup {NoId} /\ l.from \in Nat \cup {-1}
           /\ l.phase \in {"wait", "full", "continue", "online"} => l.closed \in BOOLEAN
           /\ l.phase \in {"full", "continue", "online"} => l.id \in Ids /\ l.queue \in Datasets
           /\ l.phase = "full" => l.data \in Datasets /\ l.offset \in Nat
           /\ l.phase = "wait" => l = [phase |-> "wait", closed |-> l.closed]
           /\ l.phase = "full" => l = [phase |-> "full", closed |-> l.closed, data |-> l.data, id |-> l.id,
                                       offset |-> l.offset, queue |-> l.queue]
           /\ l.phase \in {"continue", "online"} =>
                l = [phase |-> l.phase, closed |-> l.closed, id |-> l.id, queue |-> l.queue]
<1>1. CASE l = Down
    BY <1>1 DEF Down
<1>2. CASE l \in [phase : {"asked"}, id : Ids \cup {NoId}, from : Nat \cup {-1}]
    BY <1>2
<1>3. CASE l \in [phase : {"wait"}, closed : BOOLEAN]
    BY <1>3
<1>4. CASE l \in [phase : {"full"}, closed : BOOLEAN, data : Datasets, id : Ids, offset : Nat, queue : Datasets]
    BY <1>4
<1>5. CASE l \in [phase : {"continue", "online"}, closed : BOOLEAN, id : Ids, queue : Datasets]
    BY <1>5
<1> QED BY <1>1, <1>2, <1>3, <1>4, <1>5 DEF Links

\* Two links that differ only in whether the master has closed them.
SameLink(k, l) ==
    /\ k.phase = l.phase
    /\ l.phase = "asked" => k.id = l.id /\ k.from = l.from
    /\ l.phase \in {"full", "continue", "online"} => k.id = l.id /\ k.queue = l.queue
    /\ l.phase = "full" => k.data = l.data /\ k.offset = l.offset

\* Closing a link changes nothing else about it.
LEMMA ClosedLink ==
    ASSUME NEW l \in Links, l.phase \in {"wait", "full", "continue", "online"},
           NEW c, c = [l EXCEPT !.closed = TRUE]
    PROVE  c \in Links /\ SameLink(c, l) /\ c.closed = TRUE
<1> DEFINE b == TRUE
<1>0. b \in BOOLEAN /\ b = TRUE
    OBVIOUS
<1>4. c = [l EXCEPT !.closed = b]
    OBVIOUS
<1> HIDE DEF b
<1>1. CASE l.phase = "wait"
    <2>1. l = [phase |-> l.phase, closed |-> l.closed]
        BY <1>1, LinkFields
    <2>2. c = [phase |-> l.phase, closed |-> b]
        BY <1>4, <2>1
    <2> QED BY <1>0, <1>1, <2>2 DEF Links, SameLink
<1>2. CASE l.phase = "full"
    <2>1. l = [phase |-> l.phase, closed |-> l.closed, data |-> l.data, id |-> l.id, offset |-> l.offset, queue |-> l.queue]
        BY <1>2, LinkFields
    <2>2. c = [phase |-> l.phase, closed |-> b, data |-> l.data, id |-> l.id, offset |-> l.offset, queue |-> l.queue]
        BY <1>4, <2>1
    <2>3. l.data \in Datasets /\ l.offset \in Nat /\ l.id \in Ids /\ l.queue \in Datasets
        BY <1>2, LinkFields
    <2> QED BY <1>0, <1>2, <2>2, <2>3 DEF Links, SameLink
<1>3. CASE l.phase \in {"continue", "online"}
    <2>1. l = [phase |-> l.phase, closed |-> l.closed, id |-> l.id, queue |-> l.queue]
        BY <1>3, LinkFields
    <2>2. c = [phase |-> l.phase, closed |-> b, id |-> l.id, queue |-> l.queue]
        BY <1>4, <2>1
    <2>3. l.id \in Ids /\ l.queue \in Datasets
        BY <1>3, LinkFields
    <2> QED BY <1>0, <1>3, <2>2, <2>3 DEF Links, SameLink
<1> QED BY <1>1, <1>2, <1>3

\* A write is added to what is on its way.
LEMMA FedLink ==
    ASSUME NEW l \in Links, l.phase \in {"full", "continue", "online"}, NEW w \in 1..MaxWrites,
           NEW f, f = [l EXCEPT !.queue = Append(@, w)]
    PROVE  /\ f \in Links /\ f.phase = l.phase /\ f.closed = l.closed /\ f.id = l.id
           /\ f.queue = Append(l.queue, w)
           /\ l.phase = "full" => f.data = l.data /\ f.offset = l.offset
<1> DEFINE q == Append(l.queue, w)
<1>0. l.closed \in BOOLEAN /\ l.id \in Ids /\ l.queue \in Datasets
    BY LinkFields
<1>1. q \in Datasets
    BY <1>0 DEF Datasets
<1>2. f = [l EXCEPT !.queue = q]
    OBVIOUS
<1> HIDE DEF q
<1>3. CASE l.phase = "full"
    <2>1. f = [phase |-> "full", closed |-> l.closed, data |-> l.data, id |-> l.id, offset |-> l.offset, queue |-> q]
        BY <1>2, <1>3, LinkFields
    <2>2. l.data \in Datasets /\ l.offset \in Nat
        BY <1>3, LinkFields
    <2> QED BY <1>0, <1>1, <1>3, <2>1, <2>2 DEF Links, q
<1>4. CASE l.phase \in {"continue", "online"}
    <2>1. f = [phase |-> l.phase, closed |-> l.closed, id |-> l.id, queue |-> q]
        BY <1>2, <1>4, LinkFields
    <2> QED BY <1>0, <1>1, <1>4, <2>1 DEF Links, q
<1> QED BY <1>3, <1>4

-----------------------------------------------------------------------------
(* Datasets                                                                *)

\* A part of a sequence: its length and its elements.
LEMMA PartOf ==
    ASSUME NEW S, NEW s \in Seq(S), NEW m \in Nat \ {0}, NEW e \in Nat, m <= e + 1, e <= Len(s)
    PROVE  /\ SubSeq(s, m, e) \in Seq(S) /\ Len(SubSeq(s, m, e)) = e - m + 1
           /\ \A i \in 1..(e - m + 1) : SubSeq(s, m, e)[i] = s[m + i - 1]
<1>1. Len(s) \in Nat /\ m \in Int /\ e \in Int
    OBVIOUS
<1>2. ASSUME NEW i \in m..e PROVE s[i] \in S
    <2>1. i \in 1..Len(s)
        BY <1>1
    <2> QED BY <2>1, ElementOfSeq
<1>3. /\ SubSeq(s, m, e) \in Seq(S)
      /\ Len(SubSeq(s, m, e)) = IF m <= e THEN e - m + 1 ELSE 0
      /\ \A i \in 1..(e - m + 1) : SubSeq(s, m, e)[i] = s[m + i - 1]
    BY <1>1, <1>2, SubSeqProperties
<1> QED BY <1>1, <1>3

\* A beginning of a dataset: its length and its elements.
LEMMA PrefixOf ==
    ASSUME NEW s \in Datasets, NEW e \in Nat, e <= Len(s)
    PROVE  /\ SubSeq(s, 1, e) \in Datasets /\ Len(SubSeq(s, 1, e)) = e
           /\ \A i \in 1..e : SubSeq(s, 1, e)[i] = s[i]
<1>1. /\ SubSeq(s, 1, e) \in Datasets /\ Len(SubSeq(s, 1, e)) = e - 1 + 1
      /\ \A i \in 1..(e - 1 + 1) : SubSeq(s, 1, e)[i] = s[1 + i - 1]
    <2>1. 1 \in Nat \ {0} /\ 1 <= e + 1
        OBVIOUS
    <2> DEFINE D == 1..MaxWrites
    <2>2. s \in Seq(D) /\ Datasets = Seq(D)
        BY DEF Datasets
    <2> HIDE DEF D
    <2> QED BY <2>1, <2>2, PartOf
<1> QED BY <1>1

-----------------------------------------------------------------------------
(* Claims                                                                  *)

\* What a claim is made of.
IsClaim(x) == x.id \in Ids /\ x.offset \in Int /\ x.data \in Datasets

\* x is about a beginning of what y is about.
Below(x, y) ==
    /\ x.id = y.id
    /\ x.offset - Len(x.data) = y.offset - Len(y.data)
    /\ Len(x.data) <= Len(y.data)
    /\ \A i \in 1..Len(x.data) : x.data[i] = y.data[i]

\* The claim of each kind, read off the state.
LEMMA ClaimOf ==
    ASSUME NEW n
    PROVE  /\ Claim("own", n) = [id |-> replid[n], offset |-> offset[n], data |-> data[n]]
           /\ Claim("second", n) = [id |-> replid2[n].id, offset |-> replid2[n].upto - 1,
                 data |-> SubSeq(data[n], 1, Len(data[n]) - (offset[n] + 1 - replid2[n].upto))]
           /\ Claim("file", n) = rdb[n]
           /\ link[n].phase = "full" =>
                Claim("stream", n) = [id |-> link[n].id, offset |-> link[n].offset + Len(link[n].queue),
                                      data |-> link[n].data \o link[n].queue]
           /\ link[n].phase # "full" =>
                Claim("stream", n) = [id |-> link[n].id, offset |-> offset[n] + Len(link[n].queue),
                                      data |-> data[n] \o link[n].queue]
BY DEF Claim

\* When each kind of claim is made.
LEMMA MadeOf ==
    ASSUME NEW n
    PROVE  /\ Made("own", n) <=> KnowsOffset(n) \/ backlog[n].exists
           /\ Made("second", n) <=> backlog[n].exists /\ replid2[n] # NoId2
           /\ Made("file", n) <=> rdb[n].id # NoId
           /\ Made("stream", n) <=> Streaming(n)
BY DEF Made

\* Every claim has an ID, an offset and a dataset.
LEMMA ClaimType ==
    ASSUME TypeOK, NEW n \in Nodes, BacklogOK(n), NEW k \in Kinds, Made(k, n)
    PROVE  IsClaim(Claim(k, n))
<1>1. CASE k = "own"
    <2>1. replid[n] \in Ids /\ offset[n] \in Nat /\ data[n] \in Datasets
        BY DEF TypeOK
    <2>2. Claim(k, n) = [id |-> replid[n], offset |-> offset[n], data |-> data[n]]
        BY <1>1, ClaimOf
    <2> QED BY <2>1, <2>2 DEF IsClaim
<1>2. CASE k = "second"
    <2>1. replid2[n] \in [id : Ids, upto : Nat] /\ data[n] \in Datasets /\ offset[n] \in Nat
        BY <1>2, MadeOf DEF TypeOK
    <2> DEFINE e == Len(data[n]) - (offset[n] + 1 - replid2[n].upto)
    <2>2. e \in Nat /\ e <= Len(data[n])
        BY <1>2, <2>1, MadeOf DEF BacklogOK, Datasets
    <2> HIDE DEF e
    <2>3. SubSeq(data[n], 1, e) \in Datasets
        BY <2>1, <2>2, PrefixOf
    <2>4. Claim(k, n) = [id |-> replid2[n].id, offset |-> replid2[n].upto - 1, data |-> SubSeq(data[n], 1, e)]
        BY <1>2, ClaimOf DEF e
    <2> QED BY <2>1, <2>3, <2>4 DEF IsClaim
<1>3. CASE k = "file"
    <2>1. rdb[n] \in [data : Datasets, id : Ids \cup {NoId}, offset : Nat]
        BY DEF TypeOK
    <2>2. Claim(k, n) = rdb[n] /\ rdb[n].id # NoId
        BY <1>3, ClaimOf, MadeOf
    <2> QED BY <2>1, <2>2 DEF IsClaim
<1>4. CASE k = "stream"
    <2>1. link[n] \in Links /\ Streaming(n) /\ data[n] \in Datasets /\ offset[n] \in Nat
        BY <1>4, MadeOf DEF TypeOK
    <2>2. link[n].id \in Ids /\ link[n].queue \in Datasets
        BY <2>1, LinkFields DEF Streaming
    <2>3. CASE link[n].phase = "full"
        <3>1. link[n].data \in Datasets /\ link[n].offset \in Nat
            BY <2>1, <2>3, LinkFields
        <3>2. link[n].data \o link[n].queue \in Datasets /\ link[n].offset + Len(link[n].queue) \in Int
            BY <2>2, <3>1 DEF Datasets
        <3>3. Claim(k, n) = [id |-> link[n].id, offset |-> link[n].offset + Len(link[n].queue),
                             data |-> link[n].data \o link[n].queue]
            BY <1>4, <2>3, ClaimOf
        <3> QED BY <2>2, <3>2, <3>3 DEF IsClaim
    <2>4. CASE link[n].phase # "full"
        <3>1. data[n] \o link[n].queue \in Datasets /\ offset[n] + Len(link[n].queue) \in Int
            BY <2>1, <2>2 DEF Datasets
        <3>2. Claim(k, n) = [id |-> link[n].id, offset |-> offset[n] + Len(link[n].queue),
                             data |-> data[n] \o link[n].queue]
            BY <1>4, <2>4, ClaimOf
        <3> QED BY <2>2, <3>1, <3>2 DEF IsClaim
    <2> QED BY <2>3, <2>4
<1> QED BY <1>1, <1>2, <1>3, <1>4 DEF Kinds

\* Claims about beginnings are compatible when what they begin is.
LEMMA BelowCompatible ==
    ASSUME NEW x, NEW y, NEW v, NEW w, IsClaim(x), IsClaim(y), IsClaim(v), IsClaim(w),
           Below(x, v), Below(y, w), Compatible(v, w)
    PROVE  Compatible(x, y)
<1> SUFFICES ASSUME x.id = y.id
             PROVE  /\ x.offset - Len(x.data) = y.offset - Len(y.data)
                    /\ \A i \in DOMAIN x.data \cap DOMAIN y.data : x.data[i] = y.data[i]
    BY DEF Compatible
<1>1. v.id = w.id
    BY DEF Below
<1>2. /\ Len(x.data) \in Nat /\ Len(y.data) \in Nat /\ Len(v.data) \in Nat /\ Len(w.data) \in Nat
      /\ DOMAIN x.data = 1..Len(x.data) /\ DOMAIN y.data = 1..Len(y.data)
      /\ DOMAIN v.data = 1..Len(v.data) /\ DOMAIN w.data = 1..Len(w.data)
    BY DEF IsClaim, Datasets
<1>3. x.offset - Len(x.data) = y.offset - Len(y.data)
    BY <1>1 DEF Below, Compatible
<1>4. ASSUME NEW i \in DOMAIN x.data \cap DOMAIN y.data PROVE x.data[i] = y.data[i]
    <2>1. x.data[i] = v.data[i] /\ y.data[i] = w.data[i]
        BY <1>2, <1>4 DEF Below
    <2>2. i \in DOMAIN v.data /\ i \in DOMAIN w.data
        BY <1>2, <1>4 DEF Below
    <2> QED BY <1>1, <2>1, <2>2 DEF Compatible
<1> QED BY <1>3, <1>4

\* ClaimType for all nodes and kinds.
LEMMA ClaimTypes ==
    TypeOK /\ (\A n \in Nodes : BacklogOK(n)) =>
        \A k \in Kinds, n \in Nodes : Made(k, n) => IsClaim(Claim(k, n))
BY ClaimType

\* The same after the step.
LEMMA ClaimTypesNext ==
    TypeOK' /\ (\A n \in Nodes : BacklogOK(n)') =>
        \A k \in Kinds, n \in Nodes : Made(k, n)' => IsClaim(Claim(k, n)')
<1>1. (TypeOK /\ (\A n \in Nodes : BacklogOK(n)) =>
        \A k \in Kinds, n \in Nodes : Made(k, n) => IsClaim(Claim(k, n)))'
    BY ClaimTypes, PTL
<1> QED BY <1>1 DEF IsClaim

-----------------------------------------------------------------------------
(* What a step may do to the claims                                        *)

\* The claims that need nobody but the node itself.
Local == {"own", "file"}

\* A claim after the step is about a beginning of what a claim before it is about;
\* what a private node has stays with it.
Sourced(k, n) ==
    \E l \in Kinds, m \in Nodes :
        /\ Made(l, m) /\ Below(Claim(k, n)', Claim(l, m))
        /\ l \in Local /\ Private(m)' => k \in Local /\ m = n

\* The ID of z after the step is one that z has drawn and nobody has used.
Novel(z) ==
    /\ replid'[z][1] = z /\ replid'[z][2] <= drawn'[z]
    /\ \A k \in Kinds, n \in Nodes : Made(k, n) => Claim(k, n).id # replid'[z]

\* The claims after a step: from earlier ones, or that of z under a novel ID.
ClaimsStep(z) ==
    /\ drawn' \in {drawn, [drawn EXCEPT ![z] = @ + 1]}
    /\ \A k \in Kinds, n \in Nodes : Made(k, n)' => Sourced(k, n) \/ (k = "own" /\ n = z /\ Novel(z))
    /\ \A m \in Nodes : masterhost'[m] = NoHost =>
          \/ /\ masterhost[m] = NoHost /\ replid'[m] = replid[m] /\ offset'[m] >= offset[m]
             /\ backlog[m].exists => backlog'[m].exists
          \/ m = z /\ Novel(z)
    /\ \A n \in Nodes : Private(n)' => /\ link'[n].phase # "continue"
                                       /\ (Private(n) /\ replid'[n] = replid[n]) \/ (n = z /\ Novel(z))

\* A step whose claims come from earlier ones, or are under a novel ID, keeps the history:
\* this is the argument behind every action but Write.
LEMMA ClaimsKept ==
    ASSUME IndInv, TypeOK', \A n \in Nodes : RoleOK(n)' /\ BacklogOK(n)', NEW z \in Nodes, ClaimsStep(z)
    PROVE  HistoryInv' /\ DrawnInv' /\ MasterInv' /\ PrivateInv'
<1>0. /\ \A k \in Kinds, n \in Nodes : Made(k, n) => IsClaim(Claim(k, n))
      /\ \A k \in Kinds, n \in Nodes : Made(k, n)' => IsClaim(Claim(k, n)')
    BY ClaimTypes, ClaimTypesNext DEF IndInv
<1>1. /\ \A k \in Kinds, n \in Nodes : Claim(k, n)'.id = replid'[z] /\ Made(k, n)' /\ Novel(z) => k = "own" /\ n = z
      /\ Claim("own", z)'.id = replid'[z] /\ Claim("own", z)'.offset = offset'[z]
    <2>1. Claim("own", z)'.id = replid'[z] /\ Claim("own", z)'.offset = offset'[z]
        BY DEF Claim
    <2>2. ASSUME NEW k \in Kinds, NEW n \in Nodes, Claim(k, n)'.id = replid'[z], Made(k, n)', Novel(z), Sourced(k, n)
          PROVE  FALSE
        BY <2>2 DEF Sourced, Novel, Below
    <2> QED BY <2>1, <2>2 DEF ClaimsStep
<1>2. HistoryInv'
    <2> SUFFICES ASSUME NEW k \in Kinds, NEW l \in Kinds, NEW n \in Nodes, NEW m \in Nodes,
                        Made(k, n)', Made(l, m)'
                 PROVE  Compatible(Claim(k, n)', Claim(l, m)')
        BY DEF HistoryInv, Compatible
    <2>1. CASE Sourced(k, n) /\ Sourced(l, m)
        <3>1. PICK k0 \in Kinds, n0 \in Nodes : Made(k0, n0) /\ Below(Claim(k, n)', Claim(k0, n0))
            BY <2>1 DEF Sourced
        <3>2. PICK l0 \in Kinds, m0 \in Nodes : Made(l0, m0) /\ Below(Claim(l, m)', Claim(l0, m0))
            BY <2>1 DEF Sourced
        <3>3. Compatible(Claim(k0, n0), Claim(l0, m0))
            BY <3>1, <3>2 DEF IndInv, HistoryInv
        <3> QED BY <1>0, <3>1, <3>2, <3>3, BelowCompatible
    <2>2. CASE k = "own" /\ n = z /\ Novel(z)
        <3>1. CASE l = "own" /\ m = z
            BY <2>2, <3>1 DEF Compatible
        <3>2. CASE ~(l = "own" /\ m = z)
            <4>1. Claim(l, m)'.id # Claim(k, n)'.id
                BY <1>1, <2>2, <3>2
            <4> QED BY <4>1 DEF Compatible
        <3> QED BY <3>1, <3>2
    <2>3. CASE l = "own" /\ m = z /\ Novel(z)
        <3>1. CASE k = "own" /\ n = z
            BY <2>3, <3>1 DEF Compatible
        <3>2. CASE ~(k = "own" /\ n = z)
            <4>1. Claim(l, m)'.id # Claim(k, n)'.id
                BY <1>1, <2>3, <3>2
            <4> QED BY <4>1 DEF Compatible
        <3> QED BY <3>1, <3>2
    <2> QED BY <2>1, <2>2, <2>3 DEF ClaimsStep
<1>3. DrawnInv'
    <2> SUFFICES ASSUME NEW k \in Kinds, NEW n \in Nodes, Made(k, n)'
                 PROVE  Claim(k, n)'.id[2] <= drawn'[Claim(k, n)'.id[1]]
        BY DEF DrawnInv
    <2>1. CASE Sourced(k, n)
        <3>1. PICK l \in Kinds, m \in Nodes : Made(l, m) /\ Claim(k, n)'.id = Claim(l, m).id
            BY <2>1 DEF Sourced, Below
        <3> DEFINE id == Claim(l, m).id
        <3>2. id[2] <= drawn[id[1]]
            BY <3>1 DEF IndInv, DrawnInv
        <3>3. id \in Nodes \X Nat
            BY <1>0, <3>1 DEF IsClaim, Ids
        <3> HIDE DEF id
        <3>4. id[1] \in Nodes /\ id[2] \in Nat
            BY <3>3
        <3>5. drawn \in [Nodes -> Nat]
            BY DEF IndInv, TypeOK
        <3>6. drawn[id[1]] <= drawn'[id[1]] /\ drawn'[id[1]] \in Nat
            BY <3>4, <3>5 DEF ClaimsStep
        <3>7. drawn[id[1]] \in Nat
            BY <3>4, <3>5
        <3>8. id[2] <= drawn'[id[1]]
            BY <3>2, <3>4, <3>6, <3>7
        <3> QED BY <3>1, <3>8 DEF id
    <2>2. CASE k = "own" /\ n = z /\ Novel(z)
        BY <1>1, <2>2 DEF Novel
    <2> QED BY <2>1, <2>2 DEF ClaimsStep
<1>4. MasterInv'
    <2> SUFFICES ASSUME NEW m \in Nodes, masterhost'[m] = NoHost
                 PROVE  /\ replid'[m][1] = m /\ replid'[m][2] <= drawn'[m]
                        /\ \A k \in Kinds, n \in Nodes : Made(k, n)' /\ Claim(k, n)'.id = replid'[m] =>
                              backlog'[m].exists /\ Claim(k, n)'.offset <= offset'[m]
        BY DEF MasterInv
    <2>0. offset \in [Nodes -> Nat] /\ offset' \in [Nodes -> Nat] /\ drawn \in [Nodes -> Nat] /\ replid \in [Nodes -> Nodes \X Nat]
        BY DEF IndInv, TypeOK, Ids
    <2>1. CASE m = z /\ Novel(z)
        <3>1. replid'[m][1] = m /\ replid'[m][2] <= drawn'[m]
            BY <2>1 DEF Novel
        <3>2. ASSUME NEW k \in Kinds, NEW n \in Nodes, Made(k, n)', Claim(k, n)'.id = replid'[m]
              PROVE  backlog'[m].exists /\ Claim(k, n)'.offset <= offset'[m]
            <4>1. k = "own" /\ n = m
                BY <1>1, <2>1, <3>2
            <4>2. KnowsOffset(m)' \/ backlog'[m].exists
                BY <3>2, <4>1 DEF Made
            <4>3. backlog'[m].exists
                BY <4>2 DEF KnowsOffset, RoleOK
            <4> QED BY <1>1, <2>0, <2>1, <4>1, <4>3
        <3> QED BY <3>1, <3>2
    <2>2. CASE /\ masterhost[m] = NoHost /\ replid'[m] = replid[m] /\ offset'[m] >= offset[m]
               /\ backlog[m].exists => backlog'[m].exists
               /\ ~(m = z /\ Novel(z))
        <3>0. /\ replid[m][1] = m /\ replid[m][2] <= drawn[m]
              /\ \A k \in Kinds, n \in Nodes : Made(k, n) /\ Claim(k, n).id = replid[m] =>
                     backlog[m].exists /\ Claim(k, n).offset <= offset[m]
            BY <2>2 DEF IndInv, MasterInv
        <3>1. replid'[m][1] = m /\ replid'[m][2] <= drawn'[m]
            <4>1. replid[m][2] \in Nat /\ drawn[m] \in Nat /\ drawn'[m] \in {drawn[m], drawn[m] + 1}
                BY <2>0 DEF ClaimsStep
            <4> QED BY <2>2, <3>0, <4>1
        <3>2. ASSUME NEW k \in Kinds, NEW n \in Nodes, Made(k, n)', Claim(k, n)'.id = replid'[m]
              PROVE  backlog'[m].exists /\ Claim(k, n)'.offset <= offset'[m]
            <4>1. CASE Sourced(k, n)
                <5>1. PICK l \in Kinds, o \in Nodes : Made(l, o) /\ Below(Claim(k, n)', Claim(l, o))
                    BY <4>1 DEF Sourced
                <5>2. backlog[m].exists /\ Claim(l, o).offset <= offset[m]
                    BY <2>2, <3>0, <3>2, <5>1 DEF Below
                <5>3. IsClaim(Claim(k, n)') /\ IsClaim(Claim(l, o))
                    BY <1>0, <3>2, <5>1
                <5>4. Claim(k, n)'.offset <= Claim(l, o).offset
                    <6>1. Len(Claim(k, n)'.data) \in Nat /\ Len(Claim(l, o).data) \in Nat
                        BY <5>3 DEF IsClaim, Datasets
                    <6> QED BY <5>1, <5>3, <6>1 DEF Below, IsClaim
                <5> QED BY <2>0, <2>2, <5>2, <5>3, <5>4 DEF IsClaim
            <4>2. CASE k = "own" /\ n = z /\ Novel(z)
                <5>1. replid'[z][1] = z /\ replid'[z] = replid'[m]
                    BY <1>1, <3>2, <4>2 DEF Novel
                <5>2. z = m
                    BY <2>2, <3>0, <5>1
                <5> QED BY <2>2, <4>2, <5>2
            <4> QED BY <3>2, <4>1, <4>2 DEF ClaimsStep
        <3> QED BY <3>1, <3>2
    <2> QED BY <2>1, <2>2 DEF ClaimsStep
<1>5. PrivateInv'
    <2> SUFFICES ASSUME NEW n \in Nodes, Private(n)'
                 PROVE  /\ link'[n].phase # "continue"
                        /\ \A k \in Kinds, m \in Nodes :
                              Made(k, m)' /\ Claim(k, m)'.id = replid'[n] => m = n /\ k \in {"own", "file"}
        BY DEF PrivateInv
    <2>1. link'[n].phase # "continue"
        BY DEF ClaimsStep
    <2>2. ASSUME NEW k \in Kinds, NEW m \in Nodes, Made(k, m)', Claim(k, m)'.id = replid'[n]
          PROVE  m = n /\ k \in {"own", "file"}
        <3>1. CASE n = z /\ Novel(z)
            BY <1>1, <2>2, <3>1
        <3>2. CASE Private(n) /\ replid'[n] = replid[n] /\ ~(n = z /\ Novel(z))
            <4>1. CASE Sourced(k, m)
                <5>1. PICK l \in Kinds, o \in Nodes :
                          /\ Made(l, o) /\ Below(Claim(k, m)', Claim(l, o))
                          /\ l \in Local /\ Private(o)' => k \in Local /\ o = m
                    BY <4>1 DEF Sourced
                <5>2. Claim(l, o).id = replid[n]
                    BY <2>2, <3>2, <5>1 DEF Below
                <5>3. o = n /\ l \in {"own", "file"}
                    BY <3>2, <5>1, <5>2 DEF IndInv, PrivateInv
                <5>4. l \in Local /\ Private(o)'
                    BY <5>3 DEF Local
                <5> QED BY <5>1, <5>3, <5>4 DEF Local
            <4>2. CASE k = "own" /\ m = z /\ Novel(z)
                <5>1. replid'[z] = replid[n]
                    BY <1>1, <2>2, <3>2, <4>2
                <5>2. CASE masterhost[n] = NoHost
                    <6>1. replid[n][1] = n
                        BY <5>2 DEF IndInv, MasterInv
                    <6> QED BY <3>2, <4>2, <5>1, <6>1 DEF Novel
                <5>3. CASE masterhost[n] # NoHost
                    <6>1. Made("own", n) /\ Claim("own", n).id = replid[n] /\ "own" \in Kinds
                        BY <3>2, <5>3 DEF Private, Made, Claim, KnowsOffset, Kinds
                    <6> QED BY <4>2, <5>1, <6>1 DEF Novel
                <5> QED BY <5>2, <5>3
            <4> QED BY <2>2, <4>1, <4>2 DEF ClaimsStep
        <3> QED BY <3>1, <3>2 DEF ClaimsStep
    <2> QED BY <2>1, <2>2
<1> QED BY <1>2, <1>3, <1>4, <1>5

-----------------------------------------------------------------------------
(* What a step leaves alone                                                *)

\* The step changes nothing of n but, perhaps, its connection.
SameNode(n) ==
    /\ masterhost'[n] = masterhost[n] /\ data'[n] = data[n] /\ replid'[n] = replid[n]
    /\ replid2'[n] = replid2[n] /\ offset'[n] = offset[n] /\ backlog'[n] = backlog[n]
    /\ cached'[n] = cached[n] /\ rdb'[n] = rdb[n]

\* What is to be shown of each node when z takes the step.
NodeStep(n, z) ==
    /\ RoleOK(n)' /\ BacklogOK(n)'
    /\ \A k \in Kinds : Made(k, n)' => Sourced(k, n) \/ (k = "own" /\ n = z /\ Novel(z))
    /\ masterhost'[n] = NoHost =>
          \/ /\ masterhost[n] = NoHost /\ replid'[n] = replid[n] /\ offset'[n] >= offset[n]
             /\ backlog[n].exists => backlog'[n].exists
          \/ n = z /\ Novel(z)
    /\ Private(n)' => /\ link'[n].phase # "continue"
                      /\ (Private(n) /\ replid'[n] = replid[n]) \/ (n = z /\ Novel(z))

\* The invariant after a step, from what the step does to each node.
LEMMA Assemble ==
    ASSUME IndInv, TypeOK', NEW z \in Nodes, drawn' \in {drawn, [drawn EXCEPT ![z] = @ + 1]},
           \A n \in Nodes : NodeStep(n, z) /\ ConnectionOK(n)'
    PROVE  IndInv'
<1>1. ClaimsStep(z)
    BY DEF ClaimsStep, NodeStep
<1>2. \A n \in Nodes : RoleOK(n)' /\ BacklogOK(n)'
    BY DEF NodeStep
<1>3. HistoryInv' /\ DrawnInv' /\ MasterInv' /\ PrivateInv'
    BY <1>1, <1>2, ClaimsKept
<1> QED BY <1>2, <1>3 DEF IndInv

\* Every dataset is a beginning of itself.
LEMMA BelowItself == ASSUME NEW x PROVE Below(x, x)
<1>1. x.offset - Len(x.data) = x.offset - Len(x.data)
    OBVIOUS
<1>2. Len(x.data) <= Len(x.data)
    OBVIOUS
<1> QED BY <1>1, <1>2 DEF Below

\* A claim that the step does not change.
LEMMA SourcedItself ==
    ASSUME NEW k \in Kinds, NEW n \in Nodes, Made(k, n), Claim(k, n)' = Claim(k, n)
    PROVE  Sourced(k, n)
<1>1. Below(Claim(k, n)', Claim(k, n))
    BY BelowItself
<1> QED BY <1>1 DEF Sourced

\* The witness of Sourced.
LEMMA SourcedFrom ==
    ASSUME NEW k \in Kinds, NEW n \in Nodes, NEW l \in Kinds, NEW m \in Nodes,
           Made(l, m), Below(Claim(k, n)', Claim(l, m)), l \in Local /\ Private(m)' => k \in Local /\ m = n
    PROVE  Sourced(k, n)
BY DEF Sourced

\* The claims of a node that does not change, all but the one of its connection.
LEMMA SameClaims ==
    ASSUME NEW n \in Nodes, SameNode(n)
    PROVE  /\ \A k \in {"own", "second", "file"} : Claim(k, n)' = Claim(k, n)
           /\ \A k \in {"second", "file"} : Made(k, n)' = Made(k, n)
           /\ BacklogOK(n)' = BacklogOK(n)
<1>1. Claim("own", n)' = Claim("own", n)
    BY DEF Claim, SameNode
<1>2. Claim("second", n)' = Claim("second", n)
    BY DEF Claim, SameNode
<1>3. Claim("file", n)' = Claim("file", n)
    BY DEF Claim, SameNode
<1>4. Made("second", n)' = Made("second", n) /\ Made("file", n)' = Made("file", n)
    BY DEF Made, SameNode
<1>5. BacklogOK(n)' = BacklogOK(n)
    BY DEF BacklogOK, SameNode
<1> QED BY <1>1, <1>2, <1>3, <1>4, <1>5

\* A node that does not change, and whose connection is at most closed.
LEMMA NodeSame ==
    ASSUME IndInv, NEW n \in Nodes, SameNode(n), SameLink(link'[n], link[n]), NEW z
    PROVE  /\ NodeStep(n, z)
           /\ Streaming(n) => Claim("stream", n)' = Claim("stream", n)
<1>0. RoleOK(n) /\ BacklogOK(n) /\ offset[n] \in Nat /\ link[n] \in Links
    BY DEF IndInv, TypeOK
<1>1. KnowsOffset(n)' = KnowsOffset(n) /\ Private(n)' = Private(n) /\ Streaming(n)' = Streaming(n)
    BY DEF KnowsOffset, Private, Streaming, SameNode, SameLink
<1>2. RoleOK(n)'
    BY <1>0, <1>1 DEF RoleOK, SameNode, SameLink
<1>3. Streaming(n) => Claim("stream", n)' = Claim("stream", n)
    BY DEF Claim, Streaming, SameNode, SameLink
<1>4. ASSUME NEW k \in Kinds, Made(k, n)' PROVE Sourced(k, n)
    <2>1. Made(k, n) /\ Claim(k, n)' = Claim(k, n)
        <3>1. CASE k = "own"
            BY <1>1, <1>4, <3>1, SameClaims DEF Made, SameNode
        <3>2. CASE k \in {"second", "file"}
            BY <1>4, <3>2, SameClaims
        <3>3. CASE k = "stream"
            BY <1>1, <1>3, <1>4, <3>3 DEF Made
        <3> QED BY <3>1, <3>2, <3>3 DEF Kinds
    <2> QED BY <2>1, SourcedItself
<1>5. BacklogOK(n)'
    BY <1>0, SameClaims
<1>6. masterhost'[n] = NoHost =>
        /\ masterhost[n] = NoHost /\ replid'[n] = replid[n] /\ offset'[n] >= offset[n]
        /\ backlog[n].exists => backlog'[n].exists
    BY <1>0 DEF SameNode
<1>7. Private(n)' => link'[n].phase # "continue" /\ Private(n) /\ replid'[n] = replid[n]
    BY <1>1 DEF SameNode, SameLink, IndInv, PrivateInv
<1>8. NodeStep(n, z)
    BY <1>2, <1>4, <1>5, <1>6, <1>7 DEF NodeStep
<1> QED BY <1>3, <1>8

\* A node that does not change, but whose connection does, before it is online.
LEMMA NodeConnects ==
    ASSUME IndInv, NEW n \in Nodes, SameNode(n), link[n].phase # "online", link'[n].phase # "online",
           masterhost[n] = NoHost => link'[n].phase = "down",
           link'[n].phase = "asked" => link'[n].id = cached[n].id /\ link'[n].from = cached[n].offset + 1,
           link'[n].phase = "continue" => cached[n] # NoMaster /\ ~Private(n),
           Streaming(n)' => Sourced("stream", n), NEW z
    PROVE  NodeStep(n, z)
<1>0. RoleOK(n) /\ BacklogOK(n) /\ offset[n] \in Nat
    BY DEF IndInv, TypeOK
<1>1. KnowsOffset(n)' = KnowsOffset(n) /\ Private(n)' = Private(n)
    BY DEF KnowsOffset, Private, SameNode
<1>2. RoleOK(n)'
    BY <1>0, <1>1 DEF RoleOK, SameNode
<1>3. ASSUME NEW k \in Kinds, Made(k, n)' PROVE Sourced(k, n)
    <2>1. CASE k = "own"
        BY <1>1, <1>3, <2>1, SameClaims, SourcedItself DEF Made, SameNode
    <2>2. CASE k \in {"second", "file"}
        BY <1>3, <2>2, SameClaims, SourcedItself
    <2>3. CASE k = "stream"
        BY <1>3, <2>3 DEF Made
    <2> QED BY <2>1, <2>2, <2>3 DEF Kinds
<1>5. BacklogOK(n)'
    BY <1>0, SameClaims
<1>6. masterhost'[n] = NoHost =>
        /\ masterhost[n] = NoHost /\ replid'[n] = replid[n] /\ offset'[n] >= offset[n]
        /\ backlog[n].exists => backlog'[n].exists
    BY <1>0 DEF SameNode
<1>7. Private(n)' => link'[n].phase # "continue" /\ Private(n) /\ replid'[n] = replid[n]
    BY <1>1 DEF SameNode
<1> QED BY <1>2, <1>3, <1>5, <1>6, <1>7 DEF NodeStep

\* Connections that are open: of the replicas in server.slaves.
Open(r) == link[r].phase \in {"wait", "full", "continue", "online"} /\ ~link[r].closed

\* ConnectionOK of a replica is about its open connection.
LEMMA OpenConnection ==
    ASSUME NEW r \in Nodes
    PROVE  ConnectionOK(r) <=>
             (Open(r) => /\ backlog[masterhost[r]].exists
                         /\ link[r].phase # "wait" => Claim("stream", r) = Claim("own", masterhost[r]))
BY DEF ConnectionOK, Slaves, Open

\* The same for all nodes.
LEMMA OpenConnections ==
    \A r \in Nodes : ConnectionOK(r) <=>
        (Open(r) => /\ backlog[masterhost[r]].exists
                    /\ link[r].phase # "wait" => Claim("stream", r) = Claim("own", masterhost[r]))
BY OpenConnection

\* The same after the step.
LEMMA OpenConnectionsNext ==
    \A r \in Nodes : ConnectionOK(r)' <=>
        (Open(r)' => /\ backlog'[masterhost'[r]].exists
                     /\ link'[r].phase # "wait" => Claim("stream", r)' = Claim("own", masterhost[r])')
<1>1. (\A r \in Nodes : ConnectionOK(r) <=>
        (Open(r) => /\ backlog[masterhost[r]].exists
                    /\ link[r].phase # "wait" => Claim("stream", r) = Claim("own", masterhost[r])))'
    BY OpenConnections, PTL
<1> QED BY <1>1

\* Who is connected follows a node that has a backlog.
LEMMA OpenFacts ==
    ASSUME IndInv, NEW r \in Nodes, Open(r)
    PROVE  LET m == masterhost[r]
           IN  /\ m \in Nodes /\ m # r /\ backlog[m].exists /\ Made("own", m) /\ ~Private(m)
               /\ link[r].phase # "wait" => Claim("stream", r) = Claim("own", m)
<1> DEFINE m == masterhost[r]
<1>1. RoleOK(r) /\ ConnectionOK(r)
    BY DEF IndInv
<1>2. m \in Nodes /\ m # r
    BY <1>1 DEF IndInv, TypeOK, RoleOK, Open
<1>3. backlog[m].exists /\ (link[r].phase # "wait" => Claim("stream", r) = Claim("own", m))
    BY <1>1, OpenConnections
<1>4. Made("own", m) /\ ~Private(m)
    BY <1>3, MadeOf DEF Private
<1> QED BY <1>2, <1>3, <1>4

\* A connection that does not change, to a master that stays where it is.
LEMMA ConnectionSame ==
    ASSUME IndInv, NEW r \in Nodes, SameNode(r), SameLink(link'[r], link[r]), Open(r)' => Open(r),
           \A m \in Nodes : Open(r) /\ Open(r)' /\ m = masterhost[r] => Claim("own", m)' = Claim("own", m) /\ backlog'[m].exists
    PROVE  ConnectionOK(r)'
<1>1. SUFFICES ASSUME Open(r)'
               PROVE  /\ backlog'[masterhost'[r]].exists
                      /\ link'[r].phase # "wait" => Claim("stream", r)' = Claim("own", masterhost[r])'
    BY OpenConnectionsNext
<1> DEFINE m == masterhost[r]
<1>2. /\ m \in Nodes /\ masterhost'[r] = m /\ link'[r].phase = link[r].phase
      /\ link[r].phase # "wait" => Claim("stream", r) = Claim("own", m)
    BY <1>1, OpenFacts DEF SameNode, SameLink
<1>3. Claim("own", m)' = Claim("own", m) /\ backlog'[m].exists
    BY <1>1, <1>2
<1>4. link[r].phase # "wait" => Claim("stream", r)' = Claim("stream", r)
    <2>1. link[r].phase # "wait" => Streaming(r)
        BY <1>1 DEF Open, Streaming
    <2> QED BY <2>1, NodeSame
<1> QED BY <1>2, <1>3, <1>4

\* A connection that is not open.
LEMMA ConnectionShut == ASSUME NEW r \in Nodes, ~Open(r)' PROVE ConnectionOK(r)'
BY OpenConnectionsNext

\* A link differs in nothing from itself.
LEMMA SameLinkItself == ASSUME NEW l PROVE SameLink(l, l)
BY DEF SameLink

\* A step that changes nothing but connections, and of open ones only that of r.
LEMMA OthersSame ==
    ASSUME IndInv, NEW r \in Nodes,
           UNCHANGED <<masterhost, data, replid, replid2, offset, backlog, cached, rdb>>,
           \A n \in Nodes \ {r} : link'[n] = link[n]
    PROVE  /\ \A n \in Nodes : SameNode(n)
           /\ \A n \in Nodes \ {r} : \A z : NodeStep(n, z)
           /\ \A n \in Nodes \ {r} : ConnectionOK(n)'
<1>1. \A n \in Nodes : SameNode(n)
    BY DEF SameNode
<1>2. ASSUME NEW n \in Nodes \ {r}
      PROVE  /\ \A z : NodeStep(n, z)
             /\ ConnectionOK(n)'
    <2>1. SameLink(link'[n], link[n]) /\ (Open(n)' => Open(n))
        BY SameLinkItself DEF Open
    <2>2. \A m \in Nodes : Open(n) /\ m = masterhost[n] => Claim("own", m)' = Claim("own", m) /\ backlog'[m].exists
        BY <1>1, OpenFacts, SameClaims
    <2>3. ConnectionOK(n)'
        BY <1>1, <2>1, <2>2, ConnectionSame
    <2> QED BY <1>1, <2>1, <2>3, NodeSame
<1> QED BY <1>1, <1>2

-----------------------------------------------------------------------------
(* Synchronization                                                         *)

\* A replica sends PSYNC with the ID and the next offset of its cached master.
LEMMA AskKeeps ==
    ASSUME IndInv, NEW r \in Nodes, Ask(r)
    PROVE  IndInv'
<1> DEFINE l == [phase |-> "asked", id |-> cached[r].id, from |-> cached[r].offset + 1]
<1>0. /\ masterhost[r] # NoHost /\ link[r].phase = "down" /\ link \in [Nodes -> Links]
      /\ cached[r] \in {NoMaster} \cup [id : Ids, offset : Nat]
    BY DEF Ask, IndInv, TypeOK
<1>1. link' = [link EXCEPT ![r] = l]
      /\ UNCHANGED <<masterhost, data, replid, replid2, offset, backlog, cached, rdb, drawn, writes, events>>
    BY DEF Ask
<1>2. l \in Links /\ l.phase = "asked"
    BY <1>0 DEF Links, NoMaster
<1>3. /\ link'[r].phase = "asked" /\ link'[r].id = cached[r].id /\ link'[r].from = cached[r].offset + 1
      /\ \A n \in Nodes \ {r} : link'[n] = link[n]
    BY <1>0, <1>1
<1> HIDE DEF l
<1>4. TypeOK'
    BY <1>1, <1>2 DEF IndInv, TypeOK
<1>5. NodeStep(r, r)
    BY <1>0, <1>1, <1>3, OthersSame, NodeConnects DEF Streaming
<1>6. ConnectionOK(r)'
    BY <1>3, ConnectionShut DEF Open
<1> QED BY <1>1, <1>3, <1>4, <1>5, <1>6, OthersSame, Assemble

\* -NOMASTERLINK: the replica is back where it was before it asked.
LEMMA RefuseKeeps ==
    ASSUME IndInv, NEW r \in Nodes, Refuse(r)
    PROVE  IndInv'
<1>0. link[r].phase = "asked" /\ link \in [Nodes -> Links] /\ Down \in Links /\ Down.phase = "down"
    BY DEF Refuse, IndInv, TypeOK, Links, Down
<1>1. link' = [link EXCEPT ![r] = Down]
      /\ UNCHANGED <<masterhost, data, replid, replid2, offset, backlog, cached, rdb, drawn, writes, events>>
    BY DEF Refuse
<1>3. link'[r].phase = "down" /\ \A n \in Nodes \ {r} : link'[n] = link[n]
    BY <1>0, <1>1
<1>4. TypeOK'
    BY <1>0, <1>1 DEF IndInv, TypeOK
<1>5. NodeStep(r, r)
    BY <1>0, <1>1, <1>3, OthersSame, NodeConnects DEF Streaming
<1>6. ConnectionOK(r)'
    BY <1>3, ConnectionShut DEF Open
<1> QED BY <1>1, <1>3, <1>4, <1>5, <1>6, OthersSame, Assemble

\* hist is the end of t at offset q, s the beginning at offset p, and nothing is between.
Reaches(hist, p, s, q, t) ==
    /\ hist \in Datasets /\ s \in Datasets /\ t \in Datasets /\ p \in Nat /\ q \in Nat
    /\ p + 1 >= q - Len(hist) + 1 /\ p <= q /\ Len(hist) <= q /\ Len(hist) <= Len(t)
    /\ \A i \in 1..Len(hist) : hist[i] = t[Len(t) - Len(hist) + i]
    /\ p - Len(s) = q - Len(t) /\ \A i \in 1..Len(s) : s[i] = t[i]

\* What addReplyReplicationBacklog sends completes a dataset that is a beginning of the
\* master's, when the backlog is its end and reaches back far enough.
Rest(hist, p, q) == SubSeq(hist, (p + 1) - (q - Len(hist)), Len(hist))

\* The part of a backlog that is sent from an offset on.
LEMMA RestOf ==
    ASSUME NEW hist, NEW p, NEW s, NEW q, NEW t, Reaches(hist, p, s, q, t)
    PROVE  /\ Rest(hist, p, q) \in Datasets
           /\ s \o Rest(hist, p, q) = t /\ p + Len(Rest(hist, p, q)) = q
<1> DEFINE S == 1..MaxWrites
           rest == Rest(hist, p, q)
<1>0. /\ Datasets = Seq(S) /\ hist \in Seq(S) /\ s \in Seq(S) /\ t \in Seq(S) /\ p \in Nat /\ q \in Nat
      /\ rest = SubSeq(hist, (p + 1) - (q - Len(hist)), Len(hist))
    BY DEF Reaches, Datasets, Rest
<1> HIDE DEF S, rest
<1>1. PICK ls \in Nat : ls = Len(s)
    BY <1>0
<1>2. PICK lt \in Nat : lt = Len(t)
    BY <1>0
<1>3. PICK h \in Nat : h = Len(hist)
    BY <1>0
<1>4. p + 1 >= q - h + 1 /\ p <= q /\ h <= q /\ h <= lt /\ p - ls = q - lt
    BY <1>1, <1>2, <1>3 DEF Reaches
<1>5. PICK a \in Nat : a = (p + 1) - (q - h) /\ a # 0 /\ a <= h + 1 /\ h - a + 1 = q - p
    BY <1>0, <1>4
<1>6. PICK n \in Nat : n = q - p /\ ls + n = lt /\ a + n = h + 1
    BY <1>0, <1>4, <1>5
<1>7. rest \in Seq(S) /\ Len(rest) = n /\ \A i \in 1..n : rest[i] = hist[a + i - 1]
    <2>1. rest = SubSeq(hist, a, h)
        BY <1>0, <1>3, <1>5
    <2>2. a \in Nat \ {0} /\ h <= Len(hist)
        BY <1>3, <1>5
    <2>3. /\ SubSeq(hist, a, h) \in Seq(S) /\ Len(SubSeq(hist, a, h)) = h - a + 1
          /\ \A i \in 1..(h - a + 1) : SubSeq(hist, a, h)[i] = hist[a + i - 1]
        <3>1. a <= h + 1
            BY <1>5
        <3> QED BY ONLY <1>0, <2>2, <3>1, h \in Nat, PartOf
    <2>4. h - a + 1 = n
        BY <1>6
    <2> QED BY <2>1, <2>3, <2>4
<1>8. /\ s \o rest \in Seq(S) /\ Len(s \o rest) = Len(s) + Len(rest)
      /\ \A i \in 1..(Len(s) + Len(rest)) : (s \o rest)[i] = IF i <= Len(s) THEN s[i] ELSE rest[i - Len(s)]
    BY ONLY <1>0, <1>7, ConcatProperties
<1>9. ASSUME NEW i \in 1..lt PROVE (s \o rest)[i] = t[i]
    <2>1. CASE i <= ls
        BY <1>1, <1>2, <1>6, <1>7, <1>8, <2>1 DEF Reaches
    <2>2. CASE ~(i <= ls)
        <3>1. PICK j \in Nat : j = i - ls /\ j \in 1..n
            BY <1>6, <2>2
        <3>2. (s \o rest)[i] = rest[j]
            BY <1>1, <1>6, <1>7, <1>8, <2>2, <3>1
        <3>3. PICK b \in Nat : b = a + j - 1 /\ b \in 1..h /\ lt - h + b = i
            BY <1>5, <1>6, <3>1
        <3>4. rest[j] = hist[b] /\ hist[b] = t[i]
            BY <1>2, <1>3, <1>7, <3>1, <3>3 DEF Reaches
        <3> QED BY <3>2, <3>4
    <2> QED BY <2>1, <2>2
<1>10. s \o rest = t
    <2>1. Len(s \o rest) = Len(t)
        BY <1>1, <1>2, <1>6, <1>7, <1>8
    <2> QED BY <1>0, <1>2, <1>8, <1>9, <2>1, SeqEqual
<1>11. p + Len(rest) = q
    BY <1>0, <1>6, <1>7
<1> QED BY <1>0, <1>7, <1>10, <1>11 DEF rest

\* masterTryPartialResynchronization: when it accepts, the replica has a beginning of
\* the master's dataset, and the backlog has the rest.
LEMMA Continuation ==
    ASSUME IndInv, NEW r \in Nodes, link[r].phase = "asked",
           NEW m, m = masterhost[r], CanContinue(m, link[r].id, link[r].from)
    PROVE  /\ m \in Nodes /\ m # r /\ cached[r] # NoMaster /\ ~Private(r) /\ backlog[m].exists
           /\ Missing(m, link[r].from) \in Datasets
           /\ data[r] \o Missing(m, link[r].from) = data[m]
           /\ offset[r] + Len(Missing(m, link[r].from)) = offset[m]
<1> DEFINE hist == backlog[m].hist
           from == link[r].from
<1>1. RoleOK(r) /\ m \in Nodes /\ m # r
    BY DEF IndInv, TypeOK, RoleOK
<1>2. /\ replid[m] \in Ids /\ replid[r] \in Ids /\ offset[m] \in Nat /\ offset[r] \in Nat
      /\ replid2[m] \in {NoId2} \cup [id : Ids, upto : Nat]
      /\ data[m] \in Datasets /\ data[r] \in Datasets /\ hist \in Datasets
      /\ Len(data[m]) \in Nat /\ Len(data[r]) \in Nat /\ Len(hist) \in Nat
      /\ cached[r] \in {NoMaster} \cup [id : Ids, offset : Nat]
    BY <1>1 DEF IndInv, TypeOK, Datasets
<1>14. offset[m] \in Nat /\ offset[r] \in Nat /\ Len(data[m]) \in Nat /\ Len(data[r]) \in Nat /\ Len(hist) \in Nat
    BY <1>2
<1>15. from \in Int
    <2>1. link[r] \in Links
        BY DEF IndInv, TypeOK
    <2> QED BY <2>1, LinkFields
<1>3. /\ backlog[m].exists /\ from >= offset[m] - Len(hist) + 1 /\ from <= offset[m] + 1
      /\ link[r].id = replid[m] \/ (link[r].id = replid2[m].id /\ from <= replid2[m].upto)
      /\ link[r].id = cached[r].id /\ from = cached[r].offset + 1
    BY <1>1, <1>2 DEF CanContinue, RoleOK
<1>16. from >= offset[m] - Len(hist) + 1 /\ from <= offset[m] + 1
    BY <1>3
<1>4. BacklogOK(m) /\ \A i \in 1..Len(hist) : hist[i] = data[m][Len(data[m]) - Len(hist) + i]
    BY <1>1 DEF IndInv, BacklogOK
<1>17. Len(hist) <= offset[m] /\ Len(hist) <= Len(data[m])
    BY <1>1 DEF IndInv, BacklogOK
<1>5. cached[r] # NoMaster
    <2>1. from >= 1
        BY <1>14, <1>15, <1>16, <1>17
    <2> QED BY <1>3, <2>1 DEF NoMaster
<1>6. link[r].id = replid[r] /\ from = offset[r] + 1
    BY <1>1, <1>3, <1>5 DEF RoleOK
<1>18. offset[r] <= offset[m]
    BY <1>14, <1>16, <1>6
<1>7. /\ Made("own", r) /\ Made("own", m) /\ {"own", "second"} \subseteq Kinds
      /\ Claim("own", r) = [id |-> replid[r], offset |-> offset[r], data |-> data[r]]
      /\ Claim("own", m) = [id |-> replid[m], offset |-> offset[m], data |-> data[m]]
    <2>1. KnowsOffset(r)
        BY <1>5 DEF KnowsOffset
    <2> QED BY <1>3, <2>1, ClaimOf, MadeOf DEF Kinds
<1>8. /\ ~Private(r)
      /\ offset[r] - Len(data[r]) = offset[m] - Len(data[m])
      /\ offset[r] <= offset[m] /\ Len(data[r]) <= Len(data[m])
      /\ \A i \in 1..Len(data[r]) : data[r][i] = data[m][i]
    <2>1. CASE link[r].id = replid[m]
        <3>1. ~Private(r)
            <4>1. Claim("own", m).id = replid[r]
                BY <1>6, <1>7, <2>1
            <4> QED BY <1>1, <1>7, <4>1 DEF IndInv, PrivateInv
        <3>2. Compatible(Claim("own", r), Claim("own", m))
            BY <1>1, <1>7 DEF IndInv, HistoryInv
        <3>3. /\ offset[r] - Len(data[r]) = offset[m] - Len(data[m])
              /\ \A i \in DOMAIN data[r] \cap DOMAIN data[m] : data[r][i] = data[m][i]
            BY <1>6, <1>7, <2>1, <3>2 DEF Compatible
        <3>5. Len(data[r]) <= Len(data[m])
            BY <1>14, <1>18, <3>3
        <3>6. DOMAIN data[r] = 1..Len(data[r]) /\ DOMAIN data[m] = 1..Len(data[m])
            BY <1>2 DEF Datasets
        <3>7. \A i \in 1..Len(data[r]) : data[r][i] = data[m][i]
            BY <1>2, <3>3, <3>5, <3>6
        <3> QED BY <1>18, <3>1, <3>3, <3>5, <3>7
    <2>2. CASE link[r].id = replid2[m].id /\ from <= replid2[m].upto
        <3> DEFINE u == replid2[m].upto
                   part == SubSeq(data[m], 1, Len(data[m]) - (offset[m] + 1 - u))
        <3>0. replid2[m] # NoId2
            <4>1. NoId \notin Ids
                BY DEF Ids, NoId
            <4> QED BY <1>2, <1>6, <2>2, <4>1 DEF NoId2
        <3>1. u \in Nat /\ 0 <= offset[m] + 1 - u /\ offset[m] + 1 - u <= Len(data[m])
            BY <1>2, <1>3, <1>4, <3>0 DEF BacklogOK
        <3>2. PICK e \in Nat : e = Len(data[m]) - (offset[m] + 1 - u) /\ e <= Len(data[m])
            <4>1. PICK x \in Nat, y \in Nat, v \in Nat : x = Len(data[m]) /\ y = offset[m] /\ v = u
                BY <1>14, <3>1
            <4>2. 0 <= y + 1 - v /\ y + 1 - v <= x
                BY <3>1, <4>1
            <4>3. x - (y + 1 - v) \in Nat /\ x - (y + 1 - v) <= x
                BY <4>2
            <4> QED BY <4>1, <4>3
        <3>3. Made("second", m) /\ Claim("second", m) = [id |-> replid2[m].id, offset |-> u - 1, data |-> part]
            BY <1>3, <3>0, MadeOf, ClaimOf
        <3>4. ~Private(r)
            <4>1. Claim("second", m).id = replid[r]
                BY <1>6, <2>2, <3>3
            <4> QED BY <1>1, <1>7, <3>3, <4>1 DEF IndInv, PrivateInv
        <3>5. Compatible(Claim("own", r), Claim("second", m))
            BY <1>1, <1>7, <3>3 DEF IndInv, HistoryInv
        <3>6. part \in Datasets /\ Len(part) = e /\ \A i \in 1..e : part[i] = data[m][i]
            BY <1>2, <3>2, PrefixOf
        <3> HIDE DEF part
        <3>7. /\ offset[r] - Len(data[r]) = u - 1 - Len(part)
              /\ \A i \in DOMAIN data[r] \cap DOMAIN part : data[r][i] = part[i]
            BY <1>6, <1>7, <2>2, <3>3, <3>5 DEF Compatible
        <3>8. /\ offset[r] - Len(data[r]) = offset[m] - Len(data[m])
              /\ offset[r] <= offset[m] /\ Len(data[r]) <= Len(data[m]) /\ Len(data[r]) <= e
            <4>1. offset[r] + 1 <= u
                BY <1>6, <2>2
            <4>2. offset[r] - Len(data[r]) = u - 1 - e
                BY <3>6, <3>7
            <4>3. PICK x \in Nat, y \in Nat, v \in Nat, x1 \in Nat, y1 \in Nat :
                      x = Len(data[m]) /\ y = offset[m] /\ v = u /\ x1 = Len(data[r]) /\ y1 = offset[r]
                BY <1>14, <3>1
            <4>4. y1 + 1 <= v /\ y1 - x1 = v - 1 - e /\ e = x - (y + 1 - v) /\ 0 <= y + 1 - v
                BY <3>1, <3>2, <4>1, <4>2, <4>3
            <4>5. y1 - x1 = y - x /\ y1 <= y /\ x1 <= x /\ x1 <= e
                BY <4>4
            <4> QED BY <4>3, <4>5
        <3>9. DOMAIN data[r] = 1..Len(data[r]) /\ DOMAIN part = 1..Len(part)
            BY <1>2, <3>6 DEF Datasets
        <3>10. ASSUME NEW i \in 1..Len(data[r]) PROVE data[r][i] = data[m][i]
            <4>1. i \in 1..e
                BY <1>2, <3>2, <3>8
            <4>2. i \in DOMAIN data[r] /\ i \in DOMAIN part
                BY <3>6, <3>9, <4>1
            <4> QED BY <3>6, <3>7, <4>1, <4>2
        <3> QED BY <3>4, <3>8, <3>10
    <2> QED BY <1>3, <2>1, <2>2
<1>11. offset[r] + 1 >= offset[m] - Len(hist) + 1
    BY <1>6, <1>16
<1>9. Reaches(hist, offset[r], data[r], offset[m], data[m])
    BY <1>2, <1>4, <1>8, <1>11, <1>17, <1>18 DEF Reaches
<1> DEFINE x == offset[r] + 1
<1>10. Missing(m, from) = Rest(hist, offset[r], offset[m])
    <2>1. from = x
        BY <1>6
    <2>2. Missing(m, x) = Rest(hist, offset[r], offset[m])
        BY DEF Missing, Rest
    <2> QED BY ONLY <2>1, <2>2, Zenon
<1> HIDE DEF hist, x, from
<1>13. /\ Rest(hist, offset[r], offset[m]) \in Datasets
       /\ data[r] \o Rest(hist, offset[r], offset[m]) = data[m]
       /\ offset[r] + Len(Rest(hist, offset[r], offset[m])) = offset[m]
    BY ONLY <1>9, RestOf
<1> QED BY <1>1, <1>3, <1>5, <1>8, <1>10, <1>13 DEF from

\* +CONTINUE: what is sent from the backlog continues what the replica has.
LEMMA AcceptPartialKeeps ==
    ASSUME IndInv, NEW r \in Nodes, AcceptPartial(r)
    PROVE  IndInv'
<1> PICK m : m = masterhost[r]
    OBVIOUS
<1> DEFINE rest == Missing(m, link[r].from)
           l == [phase |-> "continue", closed |-> FALSE, id |-> replid[m], queue |-> rest]
<1>0. link[r].phase = "asked" /\ CanContinue(m, link[r].id, link[r].from) /\ link \in [Nodes -> Links]
    BY DEF AcceptPartial, IndInv, TypeOK
<1>1. link' = [link EXCEPT ![r] = l]
      /\ UNCHANGED <<masterhost, data, replid, replid2, offset, backlog, cached, rdb, drawn, writes, events>>
    BY DEF AcceptPartial
<1>2. /\ m \in Nodes /\ m # r /\ cached[r] # NoMaster /\ ~Private(r) /\ backlog[m].exists
      /\ rest \in Datasets /\ data[r] \o rest = data[m] /\ offset[r] + Len(rest) = offset[m]
    BY <1>0, Continuation
<1> HIDE DEF rest
<1>3. replid[m] \in Ids /\ masterhost[r] # NoHost /\ RoleOK(m)
    BY <1>0, <1>2 DEF IndInv, TypeOK, RoleOK
<1>4. l \in Links /\ l.phase = "continue" /\ l.id = replid[m] /\ l.queue = rest
    BY <1>2, <1>3 DEF Links
<1> HIDE DEF l
<1>5. link'[r] = l /\ \A n \in Nodes \ {r} : link'[n] = link[n]
    BY <1>0, <1>1
<1>6. TypeOK'
    BY <1>1, <1>4 DEF IndInv, TypeOK
<1>7. SameNode(r) /\ SameNode(m)
    BY <1>1 DEF SameNode
<1>8. Claim("stream", r)' = Claim("own", m)
    BY <1>1, <1>2, <1>4, <1>5 DEF Claim
<1>9. Sourced("stream", r)
    <2>1. Made("own", m) /\ {"own", "stream"} \subseteq Kinds
        BY <1>2, <1>3, MadeOf DEF RoleOK, Kinds
    <2>2. ~Private(m)'
        BY <1>1, <1>2 DEF Private
    <2>3. Below(Claim("stream", r)', Claim("own", m))
        BY <1>8, BelowItself
    <2> QED BY <1>2, <2>1, <2>2, <2>3 DEF Sourced, Local
<1>10. NodeStep(r, r)
    BY <1>0, <1>2, <1>3, <1>4, <1>5, <1>7, <1>9, NodeConnects
<1>11. ConnectionOK(r)'
    <2>1. Claim("own", m)' = Claim("own", m) /\ masterhost'[r] = m /\ backlog'[m].exists
        BY <1>1, <1>2, <1>7, SameClaims
    <2> QED BY <1>8, <2>1, OpenConnectionsNext
<1> QED BY <1>1, <1>5, <1>6, <1>10, <1>11, OthersSame, Assemble

-----------------------------------------------------------------------------
(* One node takes a step                                                   *)

\* The nodes that the step of z leaves alone, but for the end of their connection.
LEMMA Others ==
    ASSUME IndInv, NEW z \in Nodes,
           \A n \in Nodes \ {z} :
              /\ SameNode(n) /\ SameLink(link'[n], link[n]) /\ (Open(n)' => Open(n))
              /\ Open(n) /\ Open(n)' /\ masterhost[n] = z => Claim("own", z)' = Claim("own", z) /\ backlog'[z].exists
    PROVE  \A n \in Nodes \ {z} : NodeStep(n, z) /\ ConnectionOK(n)'
<1> TAKE n \in Nodes \ {z}
<1>1. NodeStep(n, z)
    BY NodeSame
<1>2. ASSUME NEW m \in Nodes, Open(n), Open(n)', m = masterhost[n]
      PROVE  Claim("own", m)' = Claim("own", m) /\ backlog'[m].exists
    <2>1. CASE m = z
        BY <1>2, <2>1
    <2>2. CASE m # z
        <3>1. Claim("own", m)' = Claim("own", m)
            BY <2>2, SameClaims
        <3>2. backlog[m].exists /\ backlog'[m] = backlog[m]
            BY <1>2, <2>2, OpenFacts DEF SameNode
        <3> QED BY <3>1, <3>2
    <2> QED BY <2>1, <2>2
<1>3. ConnectionOK(n)'
    BY <1>2, ConnectionSame
<1> QED BY <1>1, <1>3

\* disconnectSlaves.
LEMMA Disconnected ==
    ASSUME IndInv, NEW z \in Nodes, NEW L, \A n \in Nodes \ {z} : L[n] = link[n],
           link' = DisconnectSlaves(z, L)
    PROVE  /\ link'[z] = L[z]
           /\ L[z] \in Links => link' \in [Nodes -> Links]
           /\ \A n \in Nodes \ {z} : /\ SameLink(link'[n], link[n]) /\ (Open(n)' => Open(n))
                                     /\ ~(Open(n)' /\ masterhost[n] = z)
<1>0. /\ link \in [Nodes -> Links] /\ z \notin Slaves(z)
      /\ \A n \in Nodes : link'[n] = IF n \in Slaves(z) THEN [L[n] EXCEPT !.closed = TRUE] ELSE L[n]
    <2>1. link \in [Nodes -> Links] /\ masterhost[z] # z
        BY DEF IndInv, TypeOK, RoleOK
    <2> QED BY <2>1 DEF DisconnectSlaves, Slaves
<1>1. link'[z] = L[z]
    BY <1>0
<1>2. ASSUME NEW n \in Nodes \ {z}
      PROVE  /\ link'[n] \in Links /\ SameLink(link'[n], link[n]) /\ (Open(n)' => Open(n))
             /\ ~(Open(n)' /\ masterhost[n] = z)
    <2>0. link[n] \in Links
        BY <1>0
    <2>1. CASE n \in Slaves(z)
        <3>1. link[n].phase \in {"wait", "full", "continue", "online"} /\ link'[n] = [link[n] EXCEPT !.closed = TRUE]
            BY <1>0, <2>1 DEF Slaves
        <3>2. link'[n] \in Links /\ SameLink(link'[n], link[n]) /\ link'[n].closed = TRUE
            BY <2>0, <3>1, ClosedLink
        <3> QED BY <3>2 DEF Open
    <2>2. CASE n \notin Slaves(z)
        <3>1. link'[n] = link[n]
            BY <1>0, <2>2
        <3>2. Open(n)' = Open(n)
            BY <3>1 DEF Open
        <3>3. ~(Open(n) /\ masterhost[n] = z)
            BY <2>2 DEF Open, Slaves
        <3> QED BY <2>0, <3>1, <3>2, <3>3, SameLinkItself
    <2> QED BY <2>1, <2>2
<1>3. L[z] \in Links => link' \in [Nodes -> Links]
    BY <1>0, <1>2 DEF DisconnectSlaves
<1> QED BY <1>1, <1>2, <1>3

\* A new replication ID.
LEMMA NovelId ==
    ASSUME IndInv, NEW z \in Nodes, replid'[z] = Random(z), Draw(z)
    PROVE  /\ Novel(z) /\ replid'[z] \in Ids /\ drawn' \in [Nodes -> Nat]
           /\ drawn' \in {drawn, [drawn EXCEPT ![z] = @ + 1]}
<1>1. drawn \in [Nodes -> Nat] /\ drawn' = [drawn EXCEPT ![z] = @ + 1]
    BY DEF IndInv, TypeOK, Draw
<1>2. PICK d \in Nat : d = drawn[z]
    BY <1>1
<1>3. drawn'[z] = d + 1 /\ drawn' \in [Nodes -> Nat] /\ replid'[z] = <<z, d + 1>>
    BY <1>1, <1>2 DEF Random
<1>4. replid'[z] \in Ids /\ replid'[z][1] = z /\ replid'[z][2] = d + 1
    BY <1>3 DEF Ids
<1>5. ASSUME NEW k \in Kinds, NEW n \in Nodes, Made(k, n) PROVE Claim(k, n).id # replid'[z]
    <2>1. Claim(k, n).id[2] <= drawn[Claim(k, n).id[1]]
        BY <1>5 DEF IndInv, DrawnInv
    <2> SUFFICES ASSUME Claim(k, n).id = replid'[z] PROVE FALSE
        OBVIOUS
    <2>2. d + 1 <= d
        BY <1>2, <1>4, <2>1
    <2> QED BY <2>2
<1>6. replid'[z][2] <= drawn'[z]
    BY <1>3, <1>4
<1> QED BY <1>1, <1>3, <1>4, <1>5, <1>6 DEF Novel

-----------------------------------------------------------------------------
(* Saving, losing the master, changing the role                            *)

\* The types of what a node keeps.
LEMMA NodeTypes ==
    ASSUME IndInv, NEW n \in Nodes
    PROVE  /\ RoleOK(n) /\ BacklogOK(n) /\ ConnectionOK(n)
           /\ masterhost[n] \in Nodes \cup {NoHost} /\ NoHost \notin Nodes
           /\ data[n] \in Datasets /\ replid[n] \in Ids /\ offset[n] \in Nat
           /\ replid2[n] \in {NoId2} \cup [id : Ids, upto : Nat]
           /\ backlog[n] \in [exists : BOOLEAN, hist : Datasets]
           /\ cached[n] \in {NoMaster} \cup [id : Ids, offset : Nat]
           /\ link[n] \in Links /\ rdb[n] \in [data : Datasets, id : Ids \cup {NoId}, offset : Nat]
BY HostAssumption DEF IndInv, TypeOK

\* What rdbSave writes, and when it comes with an ID.
LEMMA DumpOf ==
    ASSUME IndInv, NEW n \in Nodes
    PROVE  /\ Dump(n) \in [data : Datasets, id : Ids \cup {NoId}, offset : Nat]
           /\ KnowsOffset(n) => Dump(n) = [id |-> replid[n], offset |-> offset[n], data |-> data[n]]
           /\ ~KnowsOffset(n) => Dump(n).id = NoId
<1>1. data[n] \in Datasets /\ replid[n] \in Ids /\ offset[n] \in Nat
    BY NodeTypes
<1> QED BY <1>1 DEF Dump

\* A node that writes the ID and the offset its dataset has at that moment, and changes
\* nothing else.
LEMMA NodeDumps ==
    ASSUME IndInv, NEW n \in Nodes, rdb'[n] = Dump(n), link'[n] = link[n],
           masterhost'[n] = masterhost[n], data'[n] = data[n], replid'[n] = replid[n],
           replid2'[n] = replid2[n], offset'[n] = offset[n], backlog'[n] = backlog[n],
           cached'[n] = cached[n], NEW z
    PROVE  /\ NodeStep(n, z)
           /\ Claim("own", n)' = Claim("own", n) /\ Claim("stream", n)' = Claim("stream", n)
<1> DEFINE f == Dump(n)
<1>0. RoleOK(n) /\ BacklogOK(n) /\ offset[n] \in Nat
    BY NodeTypes
<1>3. /\ KnowsOffset(n) => f = [id |-> replid[n], offset |-> offset[n], data |-> data[n]]
      /\ ~KnowsOffset(n) => f.id = NoId
    BY DumpOf
<1> HIDE DEF f
<1>6. rdb'[n] = f
    BY DEF f
<1>9. /\ Claim("own", n)' = Claim("own", n) /\ Claim("second", n)' = Claim("second", n)
      /\ Claim("stream", n)' = Claim("stream", n) /\ Claim("file", n)' = f
    BY <1>6 DEF Claim
<1>10. /\ Made("own", n)' = Made("own", n) /\ Made("second", n)' = Made("second", n)
       /\ Made("stream", n)' = Made("stream", n) /\ (Made("file", n)' => f.id # NoId)
       /\ KnowsOffset(n)' = KnowsOffset(n) /\ Private(n)' = Private(n)
    BY <1>6 DEF Made, KnowsOffset, Streaming, Private
<1>11. ASSUME NEW k \in Kinds, Made(k, n)' PROVE Sourced(k, n)
    <2>1. CASE k = "file"
        <3>1. KnowsOffset(n) /\ Made("own", n) /\ {"own", "file"} \subseteq Kinds /\ {"own", "file"} \subseteq Local
            BY <1>3, <1>10, <1>11, <2>1, MadeOf DEF Kinds, Local
        <3>2. Claim("file", n)' = Claim("own", n)
            BY <1>3, <1>9, <3>1, ClaimOf
        <3>3. Below(Claim("file", n)', Claim("own", n))
            BY <3>2, BelowItself
        <3> QED BY <2>1, <3>1, <3>3, SourcedFrom
    <2>2. CASE k # "file"
        BY <1>9, <1>10, <1>11, <2>2, SourcedItself DEF Kinds
    <2> QED BY <2>1, <2>2
<1>12. RoleOK(n)' /\ BacklogOK(n)'
    BY <1>0, <1>10 DEF RoleOK, BacklogOK
<1>13. Private(n)' => link'[n].phase # "continue" /\ Private(n) /\ replid'[n] = replid[n]
    BY <1>10 DEF IndInv, PrivateInv
<1>14. NodeStep(n, z)
    BY <1>0, <1>11, <1>12, <1>13 DEF NodeStep
<1> QED BY <1>9, <1>14

\* rdbSave.
LEMMA SaveKeeps ==
    ASSUME IndInv, NEW n \in Nodes, Save(n)
    PROVE  IndInv'
<1>1. /\ rdb' = [rdb EXCEPT ![n] = Dump(n)] /\ events' = events + 1
      /\ UNCHANGED <<masterhost, data, replid, replid2, offset, backlog, cached, link, drawn, writes>>
    BY DEF Save, Event
<1>5. rdb \in [Nodes -> [data : Datasets, id : Ids \cup {NoId}, offset : Nat]]
    BY DEF IndInv, TypeOK
<1>6. rdb'[n] = Dump(n) /\ \A k \in Nodes \ {n} : rdb'[k] = rdb[k]
    BY <1>1, <1>5
<1>7. TypeOK'
    <2>1. rdb' \in [Nodes -> [data : Datasets, id : Ids \cup {NoId}, offset : Nat]]
        BY <1>1, <1>5, DumpOf
    <2> QED BY <1>1, <2>1 DEF IndInv, TypeOK
<1>8. \A k \in Nodes : Open(k)' = Open(k) /\ SameLink(link'[k], link[k])
    BY <1>1, SameLinkItself DEF Open
<1>9. NodeStep(n, n) /\ Claim("own", n)' = Claim("own", n) /\ Claim("stream", n)' = Claim("stream", n)
    BY <1>1, <1>6, NodeDumps
<1>15. \A k \in Nodes \ {n} : SameNode(k)
    BY <1>1, <1>6 DEF SameNode
<1>16. \A k \in Nodes : Open(k) /\ masterhost[k] = n => backlog'[n].exists
    BY <1>1, OpenFacts
<1>17. \A k \in Nodes \ {n} : NodeStep(k, n) /\ ConnectionOK(k)'
    BY <1>8, <1>9, <1>15, <1>16, Others
<1>18. ConnectionOK(n)'
    <2> SUFFICES ASSUME Open(n)'
                 PROVE  /\ backlog'[masterhost'[n]].exists
                        /\ link'[n].phase # "wait" => Claim("stream", n)' = Claim("own", masterhost[n])'
        BY OpenConnectionsNext
    <2>1. PICK m \in Nodes \ {n} : m = masterhost[n]
        BY <1>8, OpenFacts
    <2>2. backlog[m].exists /\ (link[n].phase # "wait" => Claim("stream", n) = Claim("own", m))
        BY <1>8, <2>1, OpenFacts
    <2>3. Claim("own", m)' = Claim("own", m)
        BY <1>15, <2>1, SameClaims
    <2> QED BY <1>1, <1>9, <2>1, <2>2, <2>3
<1> QED BY <1>1, <1>7, <1>9, <1>17, <1>18, Assemble

\* A node loses its master or takes another one: the cached master, if there is one, stands
\* for its ID and offset, as the link did.
LEMMA LoseKeeps ==
    ASSUME IndInv, NEW r \in Nodes, TypeOK',
           UNCHANGED <<data, replid, replid2, offset, backlog, rdb, drawn>>,
           link' = [link EXCEPT ![r] = Down],
           \A n \in Nodes \ {r} : masterhost'[n] = masterhost[n] /\ cached'[n] = cached[n],
           masterhost[r] # NoHost, masterhost'[r] # NoHost, masterhost'[r] # r, cached'[r] \in MasterLost(r)
    PROVE  IndInv'
<1>0. /\ RoleOK(r) /\ BacklogOK(r) /\ replid[r] \in Ids /\ offset[r] \in Nat
      /\ link \in [Nodes -> Links] /\ Down \in Links /\ Down.phase = "down"
    BY NodeTypes DEF IndInv, TypeOK, Down, Links
<1>1. link'[r].phase = "down" /\ \A n \in Nodes \ {r} : link'[n] = link[n]
    BY <1>0
<1>2. link[r].phase = "online" => /\ cached'[r] \in {[id |-> replid[r], offset |-> offset[r]], NoMaster}
                                  /\ backlog[r].exists
    BY <1>0 DEF MasterLost, RoleOK
<1>3. link[r].phase # "online" => cached'[r] = cached[r]
    BY DEF MasterLost
<1>4. KnowsOffset(r)' => KnowsOffset(r) \/ backlog[r].exists
    BY <1>0, <1>1, <1>2, <1>3 DEF KnowsOffset, RoleOK
<1>5. RoleOK(r)'
    BY <1>0, <1>1, <1>2, <1>3 DEF RoleOK
<1>6. BacklogOK(r)'
    BY <1>0 DEF BacklogOK
<1>7. /\ Claim("own", r)' = Claim("own", r) /\ Claim("second", r)' = Claim("second", r)
      /\ Claim("file", r)' = Claim("file", r)
    BY DEF Claim
<1>8. /\ (Made("own", r)' => Made("own", r)) /\ Made("second", r)' = Made("second", r)
      /\ Made("file", r)' = Made("file", r) /\ ~Made("stream", r)'
    BY <1>1, <1>4 DEF Made, Streaming
<1>9. \A k \in Kinds : Made(k, r)' => Sourced(k, r)
    BY <1>7, <1>8, SourcedItself DEF Kinds
<1>10. Private(r)' => Private(r) /\ replid'[r] = replid[r] /\ link'[r].phase # "continue"
    BY <1>0, <1>1, <1>2, <1>3 DEF Private, RoleOK
<1>11. NodeStep(r, r)
    BY <1>5, <1>6, <1>9, <1>10 DEF NodeStep
<1>12. ConnectionOK(r)'
    BY <1>1, ConnectionShut DEF Open
<1>13. \A n \in Nodes \ {r} : SameNode(n) /\ SameLink(link'[n], link[n]) /\ (Open(n)' => Open(n))
    BY <1>1, SameLinkItself DEF SameNode, Open
<1>14. \A n \in Nodes : Open(n) /\ masterhost[n] = r => backlog'[r].exists
    BY OpenFacts
<1>15. \A n \in Nodes \ {r} : NodeStep(n, r) /\ ConnectionOK(n)'
    BY <1>7, <1>13, <1>14, Others
<1> QED BY <1>11, <1>12, <1>15, Assemble

\* The state of a replica that has lost its master has its type.
LEMMA MasterLostType ==
    ASSUME IndInv, NEW r \in Nodes
    PROVE  MasterLost(r) \subseteq {NoMaster} \cup [id : Ids, offset : Nat]
<1>1. link[r].phase = "online" => link[r].id \in Ids
    BY NodeTypes, LinkFields
<1>2. offset[r] \in Nat /\ cached[r] \in {NoMaster} \cup [id : Ids, offset : Nat]
    BY NodeTypes
<1> QED BY <1>1, <1>2 DEF MasterLost

\* A replica that loses its master may keep it as the cached one.
LEMMA LoseMasterKeeps ==
    ASSUME IndInv, NEW r \in Nodes, LoseMaster(r), link[r].phase # "down", events' \in Nat
    PROVE  IndInv'
<1>0. /\ RoleOK(r) /\ masterhost[r] # NoHost /\ Down \in Links
      /\ cached \in [Nodes -> {NoMaster} \cup [id : Ids, offset : Nat]]
    BY NodeTypes DEF RoleOK, IndInv, TypeOK, Links
<1>5. PICK c \in MasterLost(r) : cached' = [cached EXCEPT ![r] = c]
    BY DEF LoseMaster
<1>1. cached' \in [Nodes -> {NoMaster} \cup [id : Ids, offset : Nat]]
    BY <1>0, <1>5, MasterLostType
<1>2. TypeOK'
    BY <1>0, <1>1 DEF IndInv, TypeOK, LoseMaster
<1>3. /\ UNCHANGED <<masterhost, data, replid, replid2, offset, backlog, rdb, drawn>>
      /\ link' = [link EXCEPT ![r] = Down]
    BY DEF LoseMaster
<1>4. cached'[r] \in MasterLost(r) /\ \A n \in Nodes \ {r} : masterhost'[n] = masterhost[n] /\ cached'[n] = cached[n]
    BY <1>0, <1>3, <1>5
<1> QED BY <1>0, <1>2, <1>3, <1>4, LoseKeeps DEF RoleOK

\* The replica notices that its master has closed the connection.
LEMMA LinkClosedKeeps ==
    ASSUME IndInv, NEW r \in Nodes, LinkClosed(r)
    PROVE  IndInv'
<1>1. events' \in Nat /\ LoseMaster(r) /\ link[r].phase # "down"
    BY DEF LinkClosed, IndInv, TypeOK
<1> QED BY <1>1, LoseMasterKeeps

\* The connection breaks or times out.
LEMMA LinkBrokenKeeps ==
    ASSUME IndInv, NEW r \in Nodes, LinkBroken(r)
    PROVE  IndInv'
<1>1. events' \in Nat /\ LoseMaster(r) /\ link[r].phase # "down"
    BY DEF LinkBroken, Event, IndInv, TypeOK
<1> QED BY <1>1, LoseMasterKeeps

\* REPLICAOF of a master: without a backlog, it has served nobody under its ID.
LEMMA SetMasterKeeps ==
    ASSUME IndInv, NEW n \in Nodes, NEW h \in Nodes, SetMaster(n, h)
    PROVE  IndInv'
<1> DEFINE C == IF masterhost[n] = NoHost THEN {[id |-> replid[n], offset |-> offset[n]]} ELSE MasterLost(n)
<1>9. PICK c \in C : cached' = [cached EXCEPT ![n] = c]
    BY DEF SetMaster
<1>0. /\ RoleOK(n) /\ BacklogOK(n) /\ replid[n] \in Ids /\ offset[n] \in Nat /\ NoHost \notin Nodes
      /\ link \in [Nodes -> Links] /\ Down \in Links /\ Down.phase = "down"
      /\ masterhost \in [Nodes -> Nodes \cup {NoHost}]
      /\ cached \in [Nodes -> {NoMaster} \cup [id : Ids, offset : Nat]]
    BY NodeTypes DEF IndInv, TypeOK, Down, Links
<1>1. /\ masterhost' = [masterhost EXCEPT ![n] = h] /\ cached' = [cached EXCEPT ![n] = c]
      /\ link' = [link EXCEPT ![n] = Down] /\ events' = events + 1 /\ h # n
      /\ UNCHANGED <<data, replid, replid2, offset, backlog, rdb, drawn, writes>>
    BY <1>9 DEF SetMaster, Event
<1>2. c \in {NoMaster} \cup [id : Ids, offset : Nat]
    BY <1>0, MasterLostType
<1>3. masterhost[n] = NoHost => c = [id |-> replid[n], offset |-> offset[n]] /\ c # NoMaster
    <2>1. [id |-> replid[n], offset |-> offset[n]] # NoMaster
        BY <1>0 DEF NoMaster
    <2> QED BY <2>1
<1>4. masterhost[n] # NoHost => c \in MasterLost(n)
    OBVIOUS
<1> HIDE DEF C
<1>5. TypeOK'
    <2>1. cached' \in [Nodes -> {NoMaster} \cup [id : Ids, offset : Nat]]
        BY <1>0, <1>1, <1>2
    <2> QED BY <1>0, <1>1, <2>1 DEF IndInv, TypeOK
<1>6. /\ masterhost'[n] = h /\ h # NoHost /\ cached'[n] = c /\ link'[n].phase = "down"
      /\ \A k \in Nodes \ {n} : masterhost'[k] = masterhost[k] /\ cached'[k] = cached[k] /\ link'[k] = link[k]
    BY <1>0, <1>1
<1>7. CASE masterhost[n] # NoHost
    BY <1>1, <1>4, <1>5, <1>6, <1>7, LoseKeeps
<1>8. CASE masterhost[n] = NoHost
    <2>0. link[n].phase = "down" /\ cached[n] = NoMaster /\ cached'[n] = [id |-> replid[n], offset |-> offset[n]]
          /\ cached'[n] # NoMaster
        BY <1>0, <1>3, <1>6, <1>8 DEF RoleOK
    <2>1. KnowsOffset(n)' /\ (KnowsOffset(n) <=> backlog[n].exists)
        BY <1>6, <1>8, <2>0 DEF KnowsOffset
    <2>2. RoleOK(n)'
        BY <1>1, <1>6, <2>0, <2>1 DEF RoleOK
    <2>3. BacklogOK(n)'
        BY <1>0, <1>1 DEF BacklogOK
    <2>4. /\ Claim("own", n)' = Claim("own", n) /\ Claim("second", n)' = Claim("second", n)
          /\ Claim("file", n)' = Claim("file", n)
        BY <1>1 DEF Claim
    <2>5. /\ Made("own", n) <=> backlog[n].exists
          /\ Made("second", n)' = Made("second", n)
          /\ Made("file", n)' = Made("file", n) /\ ~Made("stream", n)'
        BY <1>1, <1>6, <2>1 DEF Made, Streaming
    <2>6. ~backlog[n].exists => Novel(n)
        <3>1. replid[n][1] = n /\ replid[n][2] <= drawn[n]
            BY <1>8 DEF IndInv, MasterInv
        <3>2. ~backlog[n].exists => \A k \in Kinds, m \in Nodes : Made(k, m) => Claim(k, m).id # replid[n]
            BY <1>8 DEF IndInv, MasterInv
        <3> QED BY <1>1, <3>1, <3>2 DEF Novel
    <2>7. ASSUME NEW k \in Kinds, Made(k, n)' PROVE Sourced(k, n) \/ (k = "own" /\ Novel(n))
        <3>1. CASE k = "own"
            BY <2>4, <2>5, <2>6, <3>1, SourcedItself
        <3>2. CASE k # "own"
            BY <2>4, <2>5, <2>7, <3>2, SourcedItself DEF Kinds
        <3> QED BY <3>1, <3>2
    <2>8. Private(n)' => Private(n) /\ replid'[n] = replid[n] /\ link'[n].phase # "continue"
        BY <1>1, <1>6, <1>8 DEF Private
    <2>9. NodeStep(n, n)
        BY <1>6, <2>2, <2>3, <2>7, <2>8 DEF NodeStep
    <2>10. ConnectionOK(n)'
        BY <1>6, ConnectionShut DEF Open
    <2>11. \A k \in Nodes \ {n} : SameNode(k) /\ SameLink(link'[k], link[k]) /\ (Open(k)' => Open(k))
        BY <1>1, <1>6, SameLinkItself DEF SameNode, Open
    <2>12. \A k \in Nodes : Open(k) /\ masterhost[k] = n => backlog'[n].exists
        BY <1>1, OpenFacts
    <2>13. \A k \in Nodes \ {n} : NodeStep(k, n) /\ ConnectionOK(k)'
        BY <2>4, <2>11, <2>12, Others
    <2> QED BY <1>1, <1>5, <2>9, <2>10, <2>13, Assemble
<1> QED BY <1>7, <1>8

\* All of a dataset.
LEMMA WholeOf ==
    ASSUME NEW s \in Datasets, NEW p \in Nat
    PROVE  SubSeq(s, 1, Len(s) - (p + 1 - (p + 1))) = s
<1> DEFINE D == 1..MaxWrites
<1>1. s \in Seq(D) /\ Len(s) \in Nat
    BY DEF Datasets
<1>2. Len(s) - (p + 1 - (p + 1)) = Len(s)
    BY <1>1
<1>3. /\ SubSeq(s, 1, Len(s)) \in Datasets /\ Len(SubSeq(s, 1, Len(s))) = Len(s)
      /\ \A i \in 1..Len(s) : SubSeq(s, 1, Len(s))[i] = s[i]
    BY <1>1, PrefixOf
<1> HIDE DEF D
<1>4. SubSeq(s, 1, Len(s)) = s
    BY <1>1, <1>3, SeqEqual
<1> QED BY <1>2, <1>4

\* A second ID that names all of the dataset, with a backlog.
LEMMA SecondIsWhole ==
    ASSUME NEW n \in Nodes, NEW id, NEW s \in Datasets, NEW p \in Nat,
           data'[n] = s, offset'[n] = p, replid2'[n] = [id |-> id, upto |-> p + 1]
    PROVE  Claim("second", n)' = [id |-> id, offset |-> p, data |-> s]
<1>1. Claim("second", n)' = [id |-> id, offset |-> (p + 1) - 1, data |-> SubSeq(s, 1, Len(s) - (p + 1 - (p + 1)))]
    BY DEF Claim
<1>2. (p + 1) - 1 = p
    OBVIOUS
<1> QED BY <1>1, <1>2, WholeOf

\* The second ID names all of the dataset.
LEMMA BacklogShifted ==
    ASSUME NEW n \in Nodes, BacklogOK(n), data[n] \in Datasets, offset[n] \in Nat,
           data'[n] = data[n], offset'[n] = offset[n], backlog'[n].hist = backlog[n].hist,
           ~backlog'[n].exists => ~backlog[n].exists, replid2'[n].upto = offset[n] + 1
    PROVE  BacklogOK(n)'
<1>1. offset[n] + 1 - replid2'[n].upto = 0
    OBVIOUS
<1>2. Len(data[n]) \in Nat /\ Len(data'[n]) = Len(data[n])
    BY DEF Datasets
<1>3. 0 <= offset'[n] + 1 - replid2'[n].upto /\ offset'[n] + 1 - replid2'[n].upto <= Len(data'[n])
    BY <1>1, <1>2
<1>4. /\ ~backlog'[n].exists => backlog'[n].hist = <<>>
      /\ Len(backlog'[n].hist) <= offset'[n] /\ Len(backlog'[n].hist) <= Len(data'[n])
      /\ \A i \in 1..Len(backlog'[n].hist) :
            backlog'[n].hist[i] = data'[n][Len(data'[n]) - Len(backlog'[n].hist) + i]
    BY <1>2 DEF BacklogOK
<1> QED BY <1>3, <1>4 DEF BacklogOK

\* A backlog that is new or gone.
LEMMA BacklogEmpty ==
    ASSUME NEW n \in Nodes, data'[n] \in Datasets, offset'[n] \in Nat, backlog'[n].hist = <<>>,
           backlog'[n].exists => replid2'[n] = NoId2 \/ replid2'[n].upto = offset'[n] + 1
    PROVE  BacklogOK(n)'
<1>1. Len(data'[n]) \in Nat /\ Len(backlog'[n].hist) = 0
    BY DEF Datasets
<1>2. Len(backlog'[n].hist) <= offset'[n] /\ Len(backlog'[n].hist) <= Len(data'[n])
    BY <1>1
<1>3. \A i \in 1..Len(backlog'[n].hist) :
            backlog'[n].hist[i] = data'[n][Len(data'[n]) - Len(backlog'[n].hist) + i]
    BY <1>1
<1>4. ASSUME backlog'[n].exists, replid2'[n] # NoId2
      PROVE  0 <= offset'[n] + 1 - replid2'[n].upto /\ offset'[n] + 1 - replid2'[n].upto <= Len(data'[n])
    <2>1. offset'[n] + 1 - replid2'[n].upto = 0
        BY <1>4
    <2> QED BY <1>1, <2>1
<1> QED BY <1>2, <1>3, <1>4 DEF BacklogOK

\* A promoted replica keeps the old ID as its second one and draws a new one.
LEMMA UnsetMasterKeeps ==
    ASSUME IndInv, NEW n \in Nodes, UnsetMaster(n)
    PROVE  IndInv'
<1> DEFINE L == [link EXCEPT ![n] = Down]
           b == [id |-> replid[n], upto |-> offset[n] + 1]
<1>0. /\ RoleOK(n) /\ BacklogOK(n) /\ replid[n] \in Ids /\ offset[n] \in Nat /\ data[n] \in Datasets
      /\ NoHost \notin Nodes /\ Down \in Links /\ Down.phase = "down"
    BY NodeTypes DEF Down, Links
<1>17. /\ link \in [Nodes -> Links] /\ masterhost \in [Nodes -> Nodes \cup {NoHost}]
       /\ cached \in [Nodes -> {NoMaster} \cup [id : Ids, offset : Nat]]
       /\ replid \in [Nodes -> Ids] /\ replid2 \in [Nodes -> {NoId2} \cup [id : Ids, upto : Nat]]
    BY DEF IndInv, TypeOK
<1>1. /\ masterhost' = [masterhost EXCEPT ![n] = NoHost] /\ cached' = [cached EXCEPT ![n] = NoMaster]
      /\ replid2' = [replid2 EXCEPT ![n] = b] /\ replid' = [replid EXCEPT ![n] = Random(n)] /\ Draw(n)
      /\ link' = DisconnectSlaves(n, L) /\ events' = events + 1
      /\ UNCHANGED <<data, offset, backlog, rdb, writes>>
    BY DEF UnsetMaster, Event, SecondId
<1>2. L[n] = Down /\ \A k \in Nodes \ {n} : L[k] = link[k]
    BY <1>17
<1>3. b \in [id : Ids, upto : Nat] /\ b = [id |-> replid[n], upto |-> offset[n] + 1] /\ b.upto = offset[n] + 1
    BY <1>0
<1> HIDE DEF L, b
<1>4. /\ link'[n] = Down /\ link' \in [Nodes -> Links]
      /\ \A k \in Nodes \ {n} : /\ SameLink(link'[k], link[k]) /\ (Open(k)' => Open(k))
                                /\ ~(Open(k)' /\ masterhost[k] = n)
    BY <1>0, <1>1, <1>2, Disconnected
<1>5. /\ masterhost'[n] = NoHost /\ cached'[n] = NoMaster /\ replid2'[n] = b /\ replid'[n] = Random(n)
      /\ \A k \in Nodes \ {n} : SameNode(k)
    BY <1>1, <1>17 DEF SameNode
<1>6. /\ Novel(n) /\ replid'[n] \in Ids /\ drawn' \in [Nodes -> Nat]
      /\ drawn' \in {drawn, [drawn EXCEPT ![n] = @ + 1]}
    BY <1>1, <1>5, NovelId
<1>7. TypeOK'
    <2>1. replid' \in [Nodes -> Ids]
        BY <1>1, <1>5, <1>6, <1>17
    <2>2. replid2' \in [Nodes -> {NoId2} \cup [id : Ids, upto : Nat]]
        BY <1>1, <1>3, <1>17
    <2> QED BY <1>1, <1>4, <1>6, <1>17, <2>1, <2>2 DEF IndInv, TypeOK
<1>8. RoleOK(n)'
    BY <1>0, <1>1, <1>4, <1>5 DEF RoleOK, KnowsOffset
<1>9. BacklogOK(n)'
    BY <1>0, <1>1, <1>3, <1>5, BacklogShifted
<1>10. ASSUME NEW k \in Kinds, Made(k, n)' PROVE Sourced(k, n) \/ (k = "own" /\ Novel(n))
    <2>1. CASE k = "second"
        <3>1. backlog[n].exists /\ Made("own", n) /\ {"own", "second"} \subseteq Kinds /\ ~Private(n)'
            BY <1>0, <1>1, <1>10, <2>1 DEF Made, RoleOK, Kinds, Private
        <3>2. Claim("second", n)' = [id |-> replid[n], offset |-> offset[n], data |-> data[n]]
            BY <1>0, <1>1, <1>3, <1>5, SecondIsWhole
        <3>3. Claim("second", n)' = Claim("own", n)
            BY <3>2, ClaimOf
        <3>4. Below(Claim("second", n)', Claim("own", n))
            BY <3>3, BelowItself
        <3> QED BY <2>1, <3>1, <3>4, SourcedFrom
    <2>2. CASE k = "file"
        <3>1. Claim("file", n)' = Claim("file", n) /\ Made("file", n)' = Made("file", n)
            BY <1>1 DEF Claim, Made
        <3> QED BY <1>10, <2>2, <3>1, SourcedItself
    <2>3. CASE k = "stream"
        BY <1>0, <1>4, <1>10, <2>3 DEF Made, Streaming
    <2> QED BY <1>6, <2>1, <2>2, <2>3 DEF Kinds
<1>11. NodeStep(n, n)
    BY <1>0, <1>4, <1>6, <1>8, <1>9, <1>10 DEF NodeStep
<1>12. ConnectionOK(n)'
    BY <1>0, <1>4, ConnectionShut DEF Open
<1>13. \A k \in Nodes \ {n} : NodeStep(k, n) /\ ConnectionOK(k)'
    BY <1>4, <1>5, Others
<1> QED BY <1>6, <1>7, <1>11, <1>12, <1>13, Assemble

\* A master that frees its backlog draws a new ID, under which nobody has anything.
LEMMA ExpireKeeps ==
    ASSUME IndInv, NEW n \in Nodes, Expire(n)
    PROVE  IndInv'
<1>0. /\ RoleOK(n) /\ BacklogOK(n) /\ offset[n] \in Nat /\ data[n] \in Datasets /\ NoHost \notin Nodes
      /\ masterhost[n] = NoHost /\ Slaves(n) = {} /\ link[n].phase = "down" /\ cached[n] = NoMaster
    BY NodeTypes DEF Expire, RoleOK
<1>17. /\ replid \in [Nodes -> Ids] /\ replid2 \in [Nodes -> {NoId2} \cup [id : Ids, upto : Nat]]
       /\ backlog \in [Nodes -> [exists : BOOLEAN, hist : Datasets]]
    BY DEF IndInv, TypeOK
<1>1. /\ replid' = [replid EXCEPT ![n] = Random(n)] /\ Draw(n)
      /\ replid2' = [replid2 EXCEPT ![n] = NoId2] /\ backlog' = [backlog EXCEPT ![n] = NoBacklog]
      /\ UNCHANGED <<masterhost, data, offset, cached, link, rdb, writes, events>>
    BY DEF Expire
<1>2. /\ NoBacklog \in [exists : BOOLEAN, hist : Datasets] /\ NoBacklog.exists = FALSE /\ NoBacklog.hist = <<>>
      /\ Len(NoBacklog.hist) = 0
    BY DEF NoBacklog, Datasets
<1>5. /\ replid2'[n] = NoId2 /\ replid'[n] = Random(n) /\ backlog'[n] = NoBacklog
      /\ \A k \in Nodes \ {n} : SameNode(k)
    BY <1>1, <1>17 DEF SameNode
<1>6. /\ Novel(n) /\ replid'[n] \in Ids /\ drawn' \in [Nodes -> Nat]
      /\ drawn' \in {drawn, [drawn EXCEPT ![n] = @ + 1]}
    BY <1>1, <1>5, NovelId
<1>7. TypeOK'
    <2>1. replid' \in [Nodes -> Ids]
        BY <1>1, <1>5, <1>6, <1>17
    <2>2. backlog' \in [Nodes -> [exists : BOOLEAN, hist : Datasets]]
        BY <1>1, <1>2, <1>17
    <2> QED BY <1>1, <1>6, <1>17, <2>1, <2>2 DEF IndInv, TypeOK
<1>8. RoleOK(n)' /\ ~KnowsOffset(n)'
    BY <1>0, <1>1, <1>2, <1>5 DEF RoleOK, KnowsOffset
<1>9. BacklogOK(n)'
    BY <1>0, <1>1, <1>2, <1>5, BacklogEmpty
<1>10. ASSUME NEW k \in Kinds, Made(k, n)' PROVE Sourced(k, n)
    <2>1. CASE k = "file"
        <3>1. Claim("file", n)' = Claim("file", n) /\ Made("file", n)' = Made("file", n)
            BY <1>1 DEF Claim, Made
        <3> QED BY <1>10, <2>1, <3>1, SourcedItself
    <2>2. CASE k # "file"
        BY <1>0, <1>1, <1>2, <1>5, <1>8, <1>10, <2>2 DEF Made, Streaming, Kinds
    <2> QED BY <2>1, <2>2
<1>11. NodeStep(n, n)
    BY <1>0, <1>1, <1>6, <1>8, <1>9, <1>10 DEF NodeStep
<1>12. ConnectionOK(n)'
    BY <1>0, <1>1, ConnectionShut DEF Open
<1>13. \A k \in Nodes \ {n} : /\ SameLink(link'[k], link[k]) /\ (Open(k)' => Open(k))
                              /\ ~(Open(k)' /\ masterhost[k] = n)
    BY <1>0, <1>1, SameLinkItself DEF Open, Slaves
<1>14. \A k \in Nodes \ {n} : NodeStep(k, n) /\ ConnectionOK(k)'
    BY <1>5, <1>13, Others
<1> QED BY <1>6, <1>7, <1>11, <1>12, <1>14, Assemble

-----------------------------------------------------------------------------
(* Loading a payload, going on                                             *)

\* What a replica has is a beginning of what it has once it has read its connection.
LEMMA BeginningOf ==
    ASSUME NEW id, NEW p \in Nat, NEW s \in Datasets, NEW q \in Datasets,
           NEW x, x = [id |-> id, offset |-> p, data |-> s],
           NEW y, y = [id |-> id, offset |-> p + Len(q), data |-> s \o q]
    PROVE  Below(x, y)
<1> DEFINE D == 1..MaxWrites
<1>1. s \in Seq(D) /\ q \in Seq(D)
    BY DEF Datasets
<1> HIDE DEF D
<1>2. PICK a \in Nat, b \in Nat : a = Len(s) /\ b = Len(q)
    BY <1>1
<1>3. Len(s \o q) = a + b /\ \A i \in 1..(a + b) : (s \o q)[i] = IF i <= a THEN s[i] ELSE q[i - a]
    BY <1>1, <1>2, ConcatProperties
<1>4. x.id = y.id /\ x.offset = p /\ y.offset = p + b /\ x.data = s /\ y.data = s \o q
    BY <1>2
<1>5. p - a = (p + b) - (a + b) /\ a <= a + b
    OBVIOUS
<1>6. ASSUME NEW i \in 1..a PROVE s[i] = (s \o q)[i]
    BY <1>3
<1> QED BY <1>2, <1>3, <1>4, <1>5, <1>6 DEF Below

\* The connection of a replica that has gone on by what was in it.
LEMMA ConnectionKept ==
    ASSUME IndInv, NEW r \in Nodes, masterhost'[r] = masterhost[r],
           Open(r)' => Open(r) /\ link[r].phase # "wait",
           Claim("stream", r)' = Claim("stream", r), \A m \in Nodes \ {r} : SameNode(m)
    PROVE  ConnectionOK(r)'
<1> SUFFICES ASSUME Open(r)'
             PROVE  /\ backlog'[masterhost'[r]].exists
                    /\ Claim("stream", r)' = Claim("own", masterhost[r])'
    BY OpenConnectionsNext
<1>1. PICK m \in Nodes \ {r} : m = masterhost[r]
    BY OpenFacts
<1>2. backlog[m].exists /\ Claim("stream", r) = Claim("own", m)
    BY <1>1, OpenFacts
<1>3. Claim("own", m)' = Claim("own", m) /\ backlog'[m] = backlog[m]
    BY <1>1, SameClaims DEF SameNode
<1>4. Claim("own", masterhost[r])' = Claim("own", m)'
    BY <1>1 DEF Claim
<1> QED BY <1>1, <1>2, <1>3, <1>4

\* A payload is loaded: the replica takes over the dataset, the ID and the offset.
LEMMA LoadKeeps ==
    ASSUME IndInv, NEW r \in Nodes, Load(r)
    PROVE  IndInv'
<1> DEFINE l == link[r]
           o == [phase |-> "online", closed |-> l.closed, id |-> l.id, queue |-> l.queue]
           L == [link EXCEPT ![r] = o]
           f == [data |-> l.data, id |-> l.id, offset |-> l.offset]
           b == Backlog(<<>>)
<1>0. /\ l.phase = "full" /\ RoleOK(r) /\ l \in Links
      /\ l.closed \in BOOLEAN /\ l.id \in Ids /\ l.queue \in Datasets /\ l.data \in Datasets /\ l.offset \in Nat
    <2>1. l.phase = "full" /\ RoleOK(r) /\ l \in Links
        BY NodeTypes DEF Load
    <2> QED BY <2>1, LinkFields
<1>1. masterhost[r] # NoHost /\ masterhost[r] # r
    BY <1>0 DEF RoleOK
<1>2. /\ data' = [data EXCEPT ![r] = l.data] /\ rdb' = [rdb EXCEPT ![r] = f]
      /\ replid' = [replid EXCEPT ![r] = l.id] /\ offset' = [offset EXCEPT ![r] = l.offset]
      /\ replid2' = [replid2 EXCEPT ![r] = NoId2] /\ backlog' = [backlog EXCEPT ![r] = b]
      /\ cached' = [cached EXCEPT ![r] = NoMaster] /\ link' = DisconnectSlaves(r, L)
      /\ UNCHANGED <<masterhost, drawn, writes, events>>
    BY DEF Load
<1>3. TypeOK
    BY DEF IndInv
<1>4. o \in Links /\ o.phase = "online" /\ o.closed = l.closed /\ o.id = l.id /\ o.queue = l.queue
    BY <1>0 DEF Links
<1>5. f \in [data : Datasets, id : Ids \cup {NoId}, offset : Nat] /\ f = [id |-> l.id, offset |-> l.offset, data |-> l.data]
    BY <1>0
<1>6. b \in [exists : BOOLEAN, hist : Datasets] /\ b.exists = TRUE /\ b.hist = <<>>
    BY DEF Backlog, Datasets
<1> HIDE DEF o, f, b
<1>7. L[r] = o /\ \A n \in Nodes \ {r} : L[n] = link[n]
    BY <1>3 DEF TypeOK
<1> HIDE DEF L
<1>8. /\ link'[r] = o /\ link' \in [Nodes -> Links]
      /\ \A k \in Nodes \ {r} : /\ SameLink(link'[k], link[k]) /\ (Open(k)' => Open(k))
                                /\ ~(Open(k)' /\ masterhost[k] = r)
    BY <1>2, <1>4, <1>7, Disconnected
<1> HIDE DEF l
<1>9. /\ data'[r] = l.data /\ rdb'[r] = f /\ replid'[r] = l.id /\ offset'[r] = l.offset /\ replid2'[r] = NoId2
      /\ backlog'[r] = b /\ cached'[r] = NoMaster /\ masterhost'[r] = masterhost[r]
    BY <1>2, <1>3 DEF TypeOK
<1>10. \A k \in Nodes \ {r} : SameNode(k)
    BY <1>2, <1>3 DEF SameNode, TypeOK
<1>11. TypeOK'
    <2>1. data' \in [Nodes -> Datasets] /\ replid' \in [Nodes -> Ids] /\ offset' \in [Nodes -> Nat]
        BY <1>0, <1>2, <1>3 DEF TypeOK
    <2>2. replid2' \in [Nodes -> {NoId2} \cup [id : Ids, upto : Nat]]
        BY <1>2, <1>3 DEF TypeOK
    <2>3. backlog' \in [Nodes -> [exists : BOOLEAN, hist : Datasets]]
        BY <1>2, <1>3, <1>6 DEF TypeOK
    <2>4. cached' \in [Nodes -> {NoMaster} \cup [id : Ids, offset : Nat]]
        BY <1>2, <1>3 DEF TypeOK
    <2>5. rdb' \in [Nodes -> [data : Datasets, id : Ids \cup {NoId}, offset : Nat]]
        BY <1>2, <1>3, <1>5 DEF TypeOK
    <2> QED BY <1>2, <1>3, <1>8, <2>1, <2>2, <2>3, <2>4, <2>5 DEF TypeOK
<1>12. RoleOK(r)'
    BY <1>1, <1>4, <1>6, <1>8, <1>9 DEF RoleOK, KnowsOffset
<1>13. BacklogOK(r)'
    BY <1>0, <1>6, <1>9, BacklogEmpty
<1>14. /\ Claim("own", r)' = [id |-> l.id, offset |-> l.offset, data |-> l.data]
       /\ Claim("file", r)' = [id |-> l.id, offset |-> l.offset, data |-> l.data]
       /\ Claim("stream", r)' = [id |-> l.id, offset |-> l.offset + Len(l.queue), data |-> l.data \o l.queue]
    BY <1>4, <1>5, <1>8, <1>9 DEF Claim
<1>15. /\ Claim("stream", r) = [id |-> l.id, offset |-> l.offset + Len(l.queue), data |-> l.data \o l.queue]
       /\ Made("stream", r) /\ Kinds = {"own", "second", "file", "stream"} /\ "stream" \notin Local
    BY <1>0, ClaimOf, MadeOf DEF l, Streaming, Kinds, Local
<1>16. ASSUME NEW k \in Kinds, Made(k, r)' PROVE Sourced(k, r)
    <2>1. k # "second"
        BY <1>9, <1>16 DEF Made
    <2>2. Below(Claim(k, r)', Claim("stream", r))
        <3>1. CASE k \in {"own", "file"}
            BY <1>0, <1>14, <1>15, <3>1, BeginningOf
        <3>2. CASE k = "stream"
            BY <1>14, <1>15, <3>2, BelowItself
        <3> QED BY <1>15, <2>1, <3>1, <3>2
    <2> QED BY <1>15, <2>2, SourcedFrom
<1>17. ~Private(r)'
    BY <1>6, <1>9 DEF Private
<1>18. NodeStep(r, r)
    BY <1>1, <1>9, <1>12, <1>13, <1>16, <1>17 DEF NodeStep
<1>19. ConnectionOK(r)'
    <2>1. Open(r)' => Open(r) /\ link[r].phase # "wait"
        BY <1>0, <1>4, <1>8 DEF Open, l
    <2> QED BY <1>9, <1>10, <1>14, <1>15, <2>1, ConnectionKept
<1>20. \A k \in Nodes \ {r} : NodeStep(k, r) /\ ConnectionOK(k)'
    BY <1>8, <1>10, Others
<1> QED BY <1>2, <1>11, <1>18, <1>19, <1>20, Assemble

\* A payload cannot be made the node's file, or fails to load: the old dataset and the old
\* file are there or gone; with the backlog and the cached master go all claims that the
\* node's own ID and offset made.
LEMMA LoadFailsKeeps ==
    ASSUME IndInv, NEW r \in Nodes, LoadFails(r)
    PROVE  IndInv'
<1> DEFINE l == link[r]
           L == [link EXCEPT ![r] = Down]
           f == [data |-> l.data, id |-> l.id, offset |-> l.offset]
<1>0. /\ l.phase = "full" /\ RoleOK(r) /\ l \in Links /\ offset[r] \in Nat
      /\ l.id \in Ids /\ l.queue \in Datasets /\ l.data \in Datasets /\ l.offset \in Nat
    <2>1. l.phase = "full" /\ RoleOK(r) /\ l \in Links /\ offset[r] \in Nat
        BY NodeTypes DEF LoadFails
    <2> QED BY <2>1, LinkFields
<1>1. masterhost[r] # NoHost /\ masterhost[r] # r
    BY <1>0 DEF RoleOK
<1>2. /\ data' \in {data, [data EXCEPT ![r] = <<>>]} /\ rdb' \in {rdb, [rdb EXCEPT ![r] = f]}
      /\ backlog' = [backlog EXCEPT ![r] = NoBacklog]
      /\ cached' = [cached EXCEPT ![r] = NoMaster] /\ link' = DisconnectSlaves(r, L)
      /\ UNCHANGED <<masterhost, replid, replid2, offset, drawn, writes>> /\ events' = events + 1
    BY DEF LoadFails, Event
<1>3. TypeOK
    BY DEF IndInv
<1>4. Down \in Links /\ Down.phase = "down" /\ <<>> \in Datasets
    BY DEF Links, Down, Datasets
<1>5. f \in [data : Datasets, id : Ids \cup {NoId}, offset : Nat] /\ f = [id |-> l.id, offset |-> l.offset, data |-> l.data]
    BY <1>0
<1>6. NoBacklog \in [exists : BOOLEAN, hist : Datasets] /\ NoBacklog.exists = FALSE /\ NoBacklog.hist = <<>>
    BY DEF NoBacklog, Datasets
<1> HIDE DEF f
<1>7. L[r] = Down /\ \A n \in Nodes \ {r} : L[n] = link[n]
    BY <1>3 DEF TypeOK
<1> HIDE DEF L
<1>8. /\ link'[r] = Down /\ link' \in [Nodes -> Links]
      /\ \A k \in Nodes \ {r} : /\ SameLink(link'[k], link[k]) /\ (Open(k)' => Open(k))
                                /\ ~(Open(k)' /\ masterhost[k] = r)
    BY <1>2, <1>4, <1>7, Disconnected
<1> HIDE DEF l
<1>9. /\ data'[r] \in {data[r], <<>>} /\ rdb'[r] \in {rdb[r], f} /\ backlog'[r] = NoBacklog /\ cached'[r] = NoMaster
      /\ masterhost'[r] = masterhost[r]
    BY <1>2, <1>3 DEF TypeOK
<1>10. \A k \in Nodes \ {r} : SameNode(k)
    BY <1>2, <1>3 DEF SameNode, TypeOK
<1>11. TypeOK'
    <2>1. data' \in [Nodes -> Datasets]
        BY <1>2, <1>3, <1>4 DEF TypeOK
    <2>3. backlog' \in [Nodes -> [exists : BOOLEAN, hist : Datasets]]
        BY <1>2, <1>3, <1>6 DEF TypeOK
    <2>4. cached' \in [Nodes -> {NoMaster} \cup [id : Ids, offset : Nat]]
        BY <1>2, <1>3 DEF TypeOK
    <2>5. rdb' \in [Nodes -> [data : Datasets, id : Ids \cup {NoId}, offset : Nat]]
        BY <1>2, <1>3, <1>5 DEF TypeOK
    <2> QED BY <1>2, <1>3, <1>8, <2>1, <2>3, <2>4, <2>5 DEF TypeOK
<1>12. RoleOK(r)' /\ ~KnowsOffset(r)'
    BY <1>1, <1>4, <1>6, <1>8, <1>9 DEF RoleOK, KnowsOffset
<1>13. BacklogOK(r)'
    <2>1. data'[r] \in Datasets /\ offset'[r] \in Nat
        BY <1>0, <1>2, <1>11 DEF TypeOK
    <2> QED BY <1>6, <1>9, <2>1, BacklogEmpty
<1>14. /\ rdb'[r] = f => Claim("file", r)' = [id |-> l.id, offset |-> l.offset, data |-> l.data]
       /\ rdb'[r] # f => Claim("file", r)' = Claim("file", r) /\ Made("file", r)' = Made("file", r)
    BY <1>5, <1>9 DEF Claim, Made
<1>15. /\ Claim("stream", r) = [id |-> l.id, offset |-> l.offset + Len(l.queue), data |-> l.data \o l.queue]
       /\ Made("stream", r) /\ Kinds = {"own", "second", "file", "stream"} /\ "stream" \notin Local
    BY <1>0, ClaimOf, MadeOf DEF l, Streaming, Kinds, Local
<1>16. ASSUME NEW k \in Kinds, Made(k, r)' PROVE Sourced(k, r)
    <2>1. k = "file"
        BY <1>4, <1>6, <1>8, <1>9, <1>12, <1>15, <1>16 DEF Made, Streaming
    <2>2. CASE rdb'[r] = f
        <3>1. Below(Claim("file", r)', Claim("stream", r))
            BY <1>0, <1>14, <1>15, <2>2, BeginningOf
        <3> QED BY <1>15, <2>1, <3>1, SourcedFrom
    <2>3. CASE rdb'[r] # f
        BY <1>14, <1>16, <2>1, <2>3, SourcedItself
    <2> QED BY <2>2, <2>3
<1>17. ~Private(r)'
    BY <1>1, <1>9 DEF Private
<1>18. NodeStep(r, r)
    BY <1>1, <1>9, <1>12, <1>13, <1>16, <1>17 DEF NodeStep
<1>19. ConnectionOK(r)'
    BY <1>4, <1>8, ConnectionShut DEF Open
<1>20. \A k \in Nodes \ {r} : NodeStep(k, r) /\ ConnectionOK(k)'
    BY <1>8, <1>10, Others
<1> QED BY <1>2, <1>11, <1>18, <1>19, <1>20, Assemble

\* +CONTINUE is read: the replica takes a new ID of its master and keeps the old one.
LEMMA ContinueKeeps ==
    ASSUME IndInv, NEW r \in Nodes, Continue(r)
    PROVE  IndInv'
<1> DEFINE l == link[r]
           new == l.id # cached[r].id
           L == [link EXCEPT ![r].phase = "online"]
<1>0. /\ l.phase = "continue" /\ RoleOK(r) /\ BacklogOK(r) /\ l \in Links
      /\ offset[r] \in Nat /\ data[r] \in Datasets /\ replid[r] \in Ids
      /\ backlog[r] \in [exists : BOOLEAN, hist : Datasets]
      /\ l.closed \in BOOLEAN /\ l.id \in Ids /\ l.queue \in Datasets
    <2>1. /\ l.phase = "continue" /\ RoleOK(r) /\ BacklogOK(r) /\ l \in Links
          /\ offset[r] \in Nat /\ data[r] \in Datasets /\ replid[r] \in Ids
          /\ backlog[r] \in [exists : BOOLEAN, hist : Datasets]
        BY NodeTypes DEF Continue
    <2> QED BY <2>1, LinkFields
<1>1. /\ masterhost[r] # NoHost /\ masterhost[r] # r /\ cached[r] # NoMaster
      /\ cached[r] = [id |-> replid[r], offset |-> offset[r]]
    BY <1>0 DEF RoleOK
<1>21. cached[r].id = replid[r]
    BY <1>1
<1>22. backlog[r].exists \/ replid2[r] = NoId2
    <2>1. ~Private(r)
        BY <1>0 DEF IndInv, PrivateInv
    <2> QED BY <1>1, <2>1 DEF Private
<1>23. KnowsOffset(r)
    BY <1>1 DEF KnowsOffset
<1>2. /\ replid2' = IF new THEN [replid2 EXCEPT ![r] = [id |-> replid[r], upto |-> offset[r] + 1]] ELSE replid2
      /\ replid' = IF new THEN [replid EXCEPT ![r] = l.id] ELSE replid
      /\ link' = IF new THEN DisconnectSlaves(r, L) ELSE L
      /\ cached' = [cached EXCEPT ![r] = NoMaster]
      /\ backlog' = [backlog EXCEPT ![r].exists = TRUE]
      /\ UNCHANGED <<masterhost, data, offset, rdb, drawn, writes, events>>
    BY <1>21 DEF Continue
<1>3. TypeOK
    BY DEF IndInv
<1> DEFINE o == [l EXCEPT !.phase = "online"]
           i2 == [id |-> replid[r], upto |-> offset[r] + 1]
           b == [backlog[r] EXCEPT !.exists = TRUE]
<1>4. o \in Links /\ o.phase = "online" /\ o.closed = l.closed /\ o.id = l.id /\ o.queue = l.queue
    <2>1. l = [phase |-> l.phase, closed |-> l.closed, id |-> l.id, queue |-> l.queue]
        BY <1>0, LinkFields
    <2>2. o = [phase |-> "online", closed |-> l.closed, id |-> l.id, queue |-> l.queue]
        BY <2>1
    <2> HIDE DEF o, l
    <2> QED BY <1>0, <2>2 DEF Links
<1>5. L[r] = o /\ \A n \in Nodes \ {r} : L[n] = link[n]
    BY <1>3 DEF TypeOK
<1>24. L \in [Nodes -> Links]
    BY <1>3, <1>4 DEF TypeOK
<1>6. i2 \in [id : Ids, upto : Nat] /\ i2.upto = offset[r] + 1
    BY <1>0
<1>7. /\ b \in [exists : BOOLEAN, hist : Datasets] /\ b.exists = TRUE /\ b.hist = backlog[r].hist
      /\ backlog' = [backlog EXCEPT ![r] = b]
    BY <1>0, <1>2
<1>25. i2 = [id |-> replid[r], upto |-> offset[r] + 1]
    OBVIOUS
<1>26. L = [link EXCEPT ![r].phase = "online"]
    OBVIOUS
<1> HIDE DEF o, i2, b, L
<1>8. /\ link'[r] = o /\ link' \in [Nodes -> Links]
      /\ \A k \in Nodes \ {r} : /\ SameLink(link'[k], link[k]) /\ (Open(k)' => Open(k))
                                /\ new => ~(Open(k)' /\ masterhost[k] = r)
    <2>1. CASE new
        <3>1. link' = DisconnectSlaves(r, L)
            BY <1>2, <2>1
        <3> HIDE DEF new
        <3> QED BY <1>4, <1>5, <2>1, <3>1, Disconnected
    <2>2. CASE ~new
        <3>1. link' = L
            BY <1>2, <2>2
        <3> HIDE DEF new
        <3> QED BY <1>5, <1>24, <2>2, <3>1, SameLinkItself DEF Open
    <2> QED BY <2>1, <2>2
<1>27. ~new => l.id = replid[r]
    BY <1>21
<1> HIDE DEF l, new
<1>9. /\ replid'[r] = l.id /\ backlog'[r] = b /\ cached'[r] = NoMaster
      /\ masterhost'[r] = masterhost[r] /\ data'[r] = data[r] /\ offset'[r] = offset[r] /\ rdb'[r] = rdb[r]
      /\ new => replid2'[r] = i2
      /\ ~new => replid2'[r] = replid2[r] /\ l.id = replid[r]
    BY <1>2, <1>3, <1>7, <1>25, <1>27 DEF TypeOK
<1>10. \A k \in Nodes \ {r} : SameNode(k)
    BY <1>2, <1>3 DEF SameNode, TypeOK
<1>11. TypeOK'
    <2>1. replid' \in [Nodes -> Ids]
        BY <1>0, <1>2, <1>3 DEF TypeOK
    <2>2. replid2' \in [Nodes -> {NoId2} \cup [id : Ids, upto : Nat]]
        BY <1>2, <1>3, <1>6, <1>25 DEF TypeOK
    <2>3. backlog' \in [Nodes -> [exists : BOOLEAN, hist : Datasets]]
        BY <1>7, <1>3 DEF TypeOK
    <2>4. cached' \in [Nodes -> {NoMaster} \cup [id : Ids, offset : Nat]]
        BY <1>2, <1>3 DEF TypeOK
    <2> QED BY <1>2, <1>3, <1>8, <2>1, <2>2, <2>3, <2>4 DEF TypeOK
<1>12. RoleOK(r)'
    BY <1>1, <1>4, <1>7, <1>8, <1>9 DEF RoleOK, KnowsOffset
<1>13. BacklogOK(r)'
    <2>1. CASE new
        BY <1>0, <1>6, <1>7, <1>9, <2>1, BacklogShifted
    <2>2. CASE ~new
        <3>1. replid2'[r] = replid2[r] /\ (backlog[r].exists \/ replid2[r] = NoId2)
            BY <1>9, <1>22, <2>2
        <3>2. backlog'[r].exists /\ backlog'[r].hist = backlog[r].hist
            BY <1>7, <1>9
        <3> QED BY <1>0, <1>9, <3>1, <3>2 DEF BacklogOK
    <2> QED BY <2>1, <2>2
<1>14. /\ Claim("own", r)' = [id |-> l.id, offset |-> offset[r], data |-> data[r]]
       /\ Claim("file", r)' = Claim("file", r) /\ Made("file", r)' = Made("file", r)
       /\ Claim("stream", r)' = [id |-> l.id, offset |-> offset[r] + Len(l.queue), data |-> data[r] \o l.queue]
    BY <1>4, <1>8, <1>9 DEF Claim, Made
<1>15. /\ Claim("stream", r) = [id |-> l.id, offset |-> offset[r] + Len(l.queue), data |-> data[r] \o l.queue]
       /\ Made("stream", r) /\ Made("own", r) /\ Kinds = {"own", "second", "file", "stream"} /\ "stream" \notin Local
    BY <1>0, <1>23, ClaimOf, MadeOf DEF l, Streaming, Kinds, Local
<1>17. ~Private(r)'
    BY <1>7, <1>9 DEF Private
<1>16. ASSUME NEW k \in Kinds, Made(k, r)' PROVE Sourced(k, r)
    <2>1. CASE k = "own"
        <3>1. Below(Claim("own", r)', Claim("stream", r))
            BY <1>0, <1>14, <1>15, BeginningOf
        <3> QED BY <1>15, <2>1, <3>1, SourcedFrom
    <2>2. CASE k = "stream"
        BY <1>14, <1>15, <2>2, SourcedItself
    <2>3. CASE k = "file"
        BY <1>14, <1>16, <2>3, SourcedItself
    <2>4. CASE k = "second" /\ new
        <3>1. Claim("second", r)' = [id |-> replid[r], offset |-> offset[r], data |-> data[r]]
            BY <1>0, <1>9, <1>25, <2>4, SecondIsWhole
        <3>2. Claim("second", r)' = Claim("own", r)
            BY <3>1, ClaimOf
        <3>3. Below(Claim("second", r)', Claim("own", r))
            BY <3>2, BelowItself
        <3> QED BY <1>15, <1>17, <2>4, <3>3, SourcedFrom
    <2>5. CASE k = "second" /\ ~new
        <3>1. Claim("second", r)' = Claim("second", r)
            BY <1>9, <2>5 DEF Claim
        <3>2. Made("second", r)
            BY <1>9, <1>16, <1>22, <2>5 DEF Made
        <3> QED BY <1>15, <2>5, <3>1, <3>2, SourcedItself
    <2> QED BY <1>15, <2>1, <2>2, <2>3, <2>4, <2>5
<1>18. NodeStep(r, r)
    BY <1>1, <1>9, <1>12, <1>13, <1>16, <1>17 DEF NodeStep
<1>19. ConnectionOK(r)'
    <2>1. Open(r)' => Open(r) /\ link[r].phase # "wait"
        BY <1>0, <1>4, <1>8 DEF Open, l
    <2> QED BY <1>9, <1>10, <1>14, <1>15, <2>1, ConnectionKept
<1>20. \A k \in Nodes \ {r} : NodeStep(k, r) /\ ConnectionOK(k)'
    <2>1. ~new => Claim("own", r)' = Claim("own", r)
        BY <1>9, <1>14, ClaimOf
    <2>2. backlog'[r].exists
        BY <1>7, <1>9
    <2> QED BY <1>8, <1>10, <2>1, <2>2, Others
<1> QED BY <1>2, <1>11, <1>18, <1>19, <1>20, Assemble

-----------------------------------------------------------------------------
(* Restarting                                                              *)

\* A process restarts from its file, as a master or as a replica.
LEMMA RestartKeeps ==
    ASSUME IndInv, NEW n \in Nodes, NEW host \in {NoHost, masterhost[n]}, Restart(n, host)
    PROVE  IndInv'
<1> DEFINE known == rdb[n].id # NoId
           replica == host # NoHost
           cut == DisconnectSlaves(n, link)
           id == IF known /\ replica THEN rdb[n].id ELSE Random(n)
           i2 == IF known /\ ~replica THEN [id |-> rdb[n].id, upto |-> rdb[n].offset + 1] ELSE NoId2
           p == IF known THEN rdb[n].offset ELSE 0
           c == IF known /\ replica THEN [id |-> rdb[n].id, offset |-> rdb[n].offset] ELSE NoMaster
           b == IF known /\ ~replica THEN Backlog(<<>>) ELSE NoBacklog
<1>0. /\ RoleOK(n) /\ rdb[n] \in [data : Datasets, id : Ids \cup {NoId}, offset : Nat]
      /\ masterhost[n] \in Nodes \cup {NoHost} /\ NoHost \notin Nodes
      /\ Down \in Links /\ Down.phase = "down" /\ TypeOK
    BY NodeTypes DEF Down, Links, IndInv
<1>1. /\ masterhost' = [masterhost EXCEPT ![n] = host] /\ data' = [data EXCEPT ![n] = rdb[n].data] /\ Draw(n)
      /\ replid' = [replid EXCEPT ![n] = id] /\ replid2' = [replid2 EXCEPT ![n] = i2]
      /\ offset' = [offset EXCEPT ![n] = p] /\ cached' = [cached EXCEPT ![n] = c]
      /\ backlog' = [backlog EXCEPT ![n] = b]
      /\ link' = [k \in Nodes |-> IF k = n \/ (masterhost[k] = n /\ link[k].phase = "asked") THEN Down ELSE cut[k]]
      /\ UNCHANGED <<rdb, writes>> /\ events' = events + 1
    BY DEF Restart, Event
<1>2. host \in Nodes \cup {NoHost} /\ host # n
    BY <1>0 DEF RoleOK
<1>3. /\ known => rdb[n].id \in Ids
      /\ rdb[n].data \in Datasets /\ rdb[n].offset \in Nat
      /\ rdb[n] = [id |-> rdb[n].id, offset |-> rdb[n].offset, data |-> rdb[n].data]
    BY <1>0
<1>4. known /\ replica => /\ id = rdb[n].id /\ p = rdb[n].offset /\ b = NoBacklog /\ i2 = NoId2
                          /\ c = [id |-> rdb[n].id, offset |-> rdb[n].offset]
    OBVIOUS
<1>5. known /\ ~replica => /\ id = Random(n) /\ p = rdb[n].offset /\ b = Backlog(<<>>) /\ c = NoMaster
                           /\ i2 = [id |-> rdb[n].id, upto |-> rdb[n].offset + 1]
    OBVIOUS
<1>6. ~known => id = Random(n) /\ p = 0 /\ b = NoBacklog /\ c = NoMaster /\ i2 = NoId2
    OBVIOUS
<1>7. /\ NoBacklog \in [exists : BOOLEAN, hist : Datasets] /\ NoBacklog.exists = FALSE /\ NoBacklog.hist = <<>>
      /\ Backlog(<<>>) \in [exists : BOOLEAN, hist : Datasets] /\ Backlog(<<>>).exists = TRUE /\ Backlog(<<>>).hist = <<>>
    BY DEF NoBacklog, Backlog, Datasets
<1>8. /\ i2 \in {NoId2} \cup [id : Ids, upto : Nat] /\ p \in Nat /\ c \in {NoMaster} \cup [id : Ids, offset : Nat]
      /\ b \in [exists : BOOLEAN, hist : Datasets] /\ b.hist = <<>> /\ (b.exists <=> known /\ ~replica)
      /\ known /\ replica => c # NoMaster
    <2>1. i2 \in {NoId2} \cup [id : Ids, upto : Nat]
        BY <1>3
    <2>2. p \in Nat
        BY <1>3
    <2>3. c \in {NoMaster} \cup [id : Ids, offset : Nat]
        BY <1>3
    <2>4. b \in [exists : BOOLEAN, hist : Datasets] /\ b.hist = <<>>
        BY <1>7
    <2>5. b.exists <=> known /\ ~replica
        BY <1>7
    <2>6. known /\ replica => c # NoMaster
        BY <1>3 DEF NoMaster
    <2> QED BY <2>1, <2>2, <2>3, <2>4, <2>5, <2>6
<1> HIDE DEF id, i2, p, c, b
<1>9. /\ masterhost'[n] = host /\ data'[n] = rdb[n].data /\ replid'[n] = id /\ replid2'[n] = i2 /\ offset'[n] = p
      /\ cached'[n] = c /\ backlog'[n] = b /\ rdb'[n] = rdb[n] /\ link'[n] = Down
    BY <1>0, <1>1 DEF TypeOK
<1>10. \A k \in Nodes \ {n} : SameNode(k)
    BY <1>0, <1>1 DEF SameNode, TypeOK
<1>11. drawn' \in [Nodes -> Nat] /\ drawn' \in {drawn, [drawn EXCEPT ![n] = @ + 1]}
    BY <1>0, <1>1 DEF TypeOK, Draw
<1>12. ~(known /\ replica) => Novel(n) /\ replid'[n] \in Ids
    BY <1>1, <1>5, <1>6, <1>9, NovelId
<1>13. replid' \in [Nodes -> Ids]
    <2>1. id \in Ids
        BY <1>3, <1>4, <1>9, <1>12
    <2> QED BY <1>0, <1>1, <2>1 DEF TypeOK
<1>14. /\ cut = DisconnectSlaves(n, link)
       /\ \A k \in Nodes \ {n} : link'[k] = IF masterhost[k] = n /\ link[k].phase = "asked" THEN Down ELSE cut[k]
    BY <1>1
<1> HIDE DEF cut, known, replica
<1>15. ASSUME NEW k \in Nodes \ {n}
       PROVE  /\ cut[k] \in Links /\ SameLink(cut[k], link[k])
              /\ link[k].phase \in {"wait", "full", "continue", "online"} =>
                    (~cut[k].closed => ~link[k].closed /\ masterhost[k] # n)
    <2>0. link[k] \in Links
        BY <1>0 DEF TypeOK
    <2>1. CASE k \in Slaves(n)
        <3>1. link[k].phase \in {"wait", "full", "continue", "online"} /\ cut[k] = [link[k] EXCEPT !.closed = TRUE]
            BY <1>14, <2>1 DEF Slaves, DisconnectSlaves
        <3>2. cut[k] \in Links /\ SameLink(cut[k], link[k]) /\ cut[k].closed = TRUE
            BY <2>0, <3>1, ClosedLink
        <3> QED BY <3>2
    <2>2. CASE k \notin Slaves(n)
        <3>1. cut[k] = link[k]
            BY <1>14, <2>2 DEF DisconnectSlaves
        <3>2. link[k].phase \in {"wait", "full", "continue", "online"} /\ ~link[k].closed => masterhost[k] # n
            BY <2>2 DEF Slaves
        <3> QED BY <2>0, <3>1, <3>2, SameLinkItself
    <2> QED BY <2>1, <2>2
<1>16. TypeOK'
    <2>1. \A k \in Nodes : link'[k] \in Links
        BY <1>0, <1>9, <1>14, <1>15
    <2>2. link' \in [Nodes -> Links]
        BY <1>1, <2>1
    <2>3. /\ masterhost' \in [Nodes -> Nodes \cup {NoHost}] /\ data' \in [Nodes -> Datasets]
          /\ offset' \in [Nodes -> Nat]
        BY <1>0, <1>1, <1>2, <1>3, <1>8 DEF TypeOK
    <2>4. replid2' \in [Nodes -> {NoId2} \cup [id : Ids, upto : Nat]]
        BY <1>0, <1>1, <1>8 DEF TypeOK
    <2>5. backlog' \in [Nodes -> [exists : BOOLEAN, hist : Datasets]]
        BY <1>0, <1>1, <1>8 DEF TypeOK
    <2>6. cached' \in [Nodes -> {NoMaster} \cup [id : Ids, offset : Nat]]
        BY <1>0, <1>1, <1>8 DEF TypeOK
    <2> QED BY <1>0, <1>1, <1>11, <1>13, <2>2, <2>3, <2>4, <2>5, <2>6 DEF TypeOK
<1>17. (KnowsOffset(n)' <=> known) /\ (replica <=> masterhost'[n] # NoHost)
    BY <1>0, <1>4, <1>5, <1>6, <1>8, <1>9 DEF KnowsOffset, replica
<1>18. RoleOK(n)'
    BY <1>0, <1>2, <1>4, <1>5, <1>6, <1>8, <1>9, <1>17 DEF RoleOK
<1>19. BacklogOK(n)'
    <2>1. b.exists => i2.upto = p + 1
        BY <1>5, <1>8
    <2> QED BY <1>3, <1>8, <1>9, <2>1, BacklogEmpty
<1>20. Claim("file", n)' = Claim("file", n) /\ Made("file", n)' = Made("file", n) /\ Claim("file", n) = rdb[n]
       /\ (known => Made("file", n)) /\ Kinds = {"own", "second", "file", "stream"} /\ Local = {"own", "file"}
    BY <1>9 DEF Claim, Made, Kinds, Local, known
<1>21. ASSUME NEW k \in Kinds, Made(k, n)' PROVE Sourced(k, n) \/ (k = "own" /\ Novel(n))
    <2>1. CASE k = "file"
        BY <1>20, <1>21, <2>1, SourcedItself
    <2>2. CASE k = "own" /\ replica
        <3>1. known
            BY <1>8, <1>9, <1>17, <1>21, <2>2 DEF Made
        <3>2. Claim("own", n)' = [id |-> rdb[n].id, offset |-> rdb[n].offset, data |-> rdb[n].data]
            BY <1>4, <1>9, <2>2, <3>1 DEF Claim
        <3>3. Claim("own", n)' = Claim("file", n)
            BY <1>3, <1>20, <3>2
        <3>4. Below(Claim("own", n)', Claim("file", n))
            BY <3>3, BelowItself
        <3> QED BY <1>20, <2>2, <3>1, <3>4, SourcedFrom
    <2>3. CASE k = "own" /\ ~replica
        BY <1>12, <2>3
    <2>4. CASE k = "second"
        <3>1. b.exists
            BY <1>9, <1>21, <2>4 DEF Made
        <3>2. known /\ ~replica /\ ~Private(n)'
            BY <1>8, <1>9, <3>1 DEF Private
        <3>3. Claim("second", n)' = [id |-> rdb[n].id, offset |-> rdb[n].offset, data |-> rdb[n].data]
            BY <1>3, <1>5, <1>9, <3>2, SecondIsWhole
        <3>4. Claim("second", n)' = Claim("file", n)
            BY <1>3, <1>20, <3>3
        <3>5. Below(Claim("second", n)', Claim("file", n))
            BY <3>4, BelowItself
        <3> QED BY <1>20, <2>4, <3>2, <3>5, SourcedFrom
    <2>5. CASE k = "stream"
        BY <1>0, <1>9, <1>21, <2>5 DEF Made, Streaming
    <2> QED BY <1>20, <2>1, <2>2, <2>3, <2>4, <2>5
<1>22. Private(n)' => ~replica
    BY <1>4, <1>6, <1>9, <1>17 DEF Private
<1>23. NodeStep(n, n)
    BY <1>0, <1>9, <1>12, <1>17, <1>18, <1>19, <1>21, <1>22 DEF NodeStep
<1>24. ConnectionOK(n)'
    BY <1>0, <1>9, ConnectionShut DEF Open
<1>25. ASSUME NEW k \in Nodes \ {n} PROVE NodeStep(k, n) /\ ConnectionOK(k)'
    <2>1. CASE masterhost[k] = n /\ link[k].phase = "asked"
        <3>1. link'[k].phase = "down"
            BY <1>0, <1>14, <2>1
        <3> QED BY <1>10, <2>1, <3>1, NodeConnects, ConnectionShut DEF Open, Streaming
    <2>2. CASE ~(masterhost[k] = n /\ link[k].phase = "asked")
        <3>1. link'[k] = cut[k]
            BY <1>14, <2>2
        <3>2. SameLink(link'[k], link[k]) /\ (Open(k)' => Open(k) /\ masterhost[k] # n)
            BY <1>15, <3>1 DEF Open, SameLink
        <3>3. ASSUME NEW m \in Nodes, Open(k), Open(k)', m = masterhost[k]
              PROVE  Claim("own", m)' = Claim("own", m) /\ backlog'[m].exists
            BY <1>10, <3>2, <3>3, SameClaims, OpenFacts DEF SameNode
        <3> QED BY <1>10, <3>2, <3>3, NodeSame, ConnectionSame
    <2> QED BY <2>1, <2>2
<1> QED BY <1>11, <1>16, <1>23, <1>24, <1>25, Assemble

-----------------------------------------------------------------------------
(* Full resynchronization                                                  *)

\* createReplicationBacklogIfNeeded: whoever connects here follows a master that has
\* served nobody under its old ID.
LEMMA BacklogCreated ==
    ASSUME IndInv, NEW m \in Nodes, Connected(m), createReplicationBacklogIfNeeded(m),
           link'[m] = link[m], UNCHANGED <<masterhost, data, offset, cached, rdb>>
    PROVE  /\ NodeStep(m, m) /\ backlog'[m].exists /\ \A n \in Nodes \ {m} : SameNode(n)
           /\ drawn' \in {drawn, [drawn EXCEPT ![m] = @ + 1]}
           /\ drawn' \in [Nodes -> Nat] /\ replid' \in [Nodes -> Ids]
           /\ replid2' \in [Nodes -> {NoId2} \cup [id : Ids, upto : Nat]]
           /\ backlog' \in [Nodes -> [exists : BOOLEAN, hist : Datasets]]
           /\ backlog[m].exists => Claim("own", m)' = Claim("own", m)
<1> DEFINE b == Backlog(<<>>)
<1>0. /\ RoleOK(m) /\ BacklogOK(m) /\ offset[m] \in Nat /\ data[m] \in Datasets /\ TypeOK
      /\ b \in [exists : BOOLEAN, hist : Datasets] /\ b.exists = TRUE /\ b.hist = <<>>
    BY NodeTypes DEF IndInv, Backlog, Datasets
<1>1. CASE backlog[m].exists
    <2>1. UNCHANGED <<replid, replid2, backlog, drawn>>
        BY <1>1 DEF createReplicationBacklogIfNeeded
    <2>2. \A n \in Nodes : SameNode(n)
        BY <2>1 DEF SameNode
    <2> QED BY <1>0, <1>1, <2>1, <2>2, NodeSame, SameClaims, SameLinkItself DEF TypeOK
<1>2. CASE ~backlog[m].exists
    <2>1. /\ replid' = [replid EXCEPT ![m] = Random(m)] /\ Draw(m)
          /\ replid2' = [replid2 EXCEPT ![m] = NoId2] /\ backlog' = [backlog EXCEPT ![m] = b]
        BY <1>2 DEF createReplicationBacklogIfNeeded
    <2> HIDE DEF b
    <2>2. masterhost[m] = NoHost /\ link[m].phase = "down" /\ cached[m] = NoMaster
        BY <1>0, <1>2 DEF Connected, RoleOK
    <2>3. /\ replid2'[m] = NoId2 /\ replid'[m] = Random(m) /\ backlog'[m] = b
          /\ \A n \in Nodes \ {m} : SameNode(n)
        BY <1>0, <2>1 DEF SameNode, TypeOK
    <2>4. /\ Novel(m) /\ replid'[m] \in Ids /\ drawn' \in [Nodes -> Nat]
          /\ drawn' \in {drawn, [drawn EXCEPT ![m] = @ + 1]}
        BY <2>1, <2>3, NovelId
    <2>5. /\ replid' \in [Nodes -> Ids] /\ replid2' \in [Nodes -> {NoId2} \cup [id : Ids, upto : Nat]]
          /\ backlog' \in [Nodes -> [exists : BOOLEAN, hist : Datasets]]
        <3>1. replid' \in [Nodes -> Ids]
            BY <1>0, <2>1, <2>3, <2>4 DEF TypeOK
        <3>2. backlog' \in [Nodes -> [exists : BOOLEAN, hist : Datasets]]
            BY <1>0, <2>1 DEF TypeOK
        <3>3. replid2' \in [Nodes -> {NoId2} \cup [id : Ids, upto : Nat]]
            BY <1>0, <2>1 DEF TypeOK
        <3> QED BY <3>1, <3>2, <3>3
    <2>6. RoleOK(m)'
        BY <1>0, <2>2, <2>3 DEF RoleOK, KnowsOffset
    <2>7. BacklogOK(m)'
        BY <1>0, <2>3, BacklogEmpty
    <2>8. ASSUME NEW k \in Kinds, Made(k, m)' PROVE Sourced(k, m) \/ (k = "own" /\ Novel(m))
        <3>1. CASE k = "file"
            <4>1. Claim("file", m)' = Claim("file", m) /\ Made("file", m)' = Made("file", m)
                BY DEF Claim, Made
            <4> QED BY <2>8, <3>1, <4>1, SourcedItself
        <3>2. CASE k \in {"second", "stream"}
            BY <2>2, <2>3, <2>8, <3>2 DEF Made, Streaming
        <3> QED BY <2>4, <3>1, <3>2 DEF Kinds
    <2>9. NodeStep(m, m)
        BY <2>2, <2>4, <2>6, <2>7, <2>8 DEF NodeStep
    <2> QED BY <1>0, <1>2, <2>3, <2>4, <2>5, <2>9
<1> QED BY <1>1, <1>2

\* A full resynchronization is scheduled, and the backlog created if there is none.
LEMMA AcceptFullKeeps ==
    ASSUME IndInv, NEW r \in Nodes, AcceptFull(r)
    PROVE  IndInv'
<1>0. link[r].phase = "asked" /\ RoleOK(r) /\ TypeOK
    BY NodeTypes DEF AcceptFull, IndInv
<1>1. PICK m \in Nodes : m = masterhost[r] /\ m # r
    <2>1. masterhost[r] \in Nodes /\ masterhost[r] # r
        BY <1>0, NodeTypes DEF RoleOK
    <2> QED BY <2>1
<1> DEFINE w == [phase |-> "wait", closed |-> FALSE]
           shared == {link[o] : o \in {k \in Slaves(m) : link[k].phase = "full"}}
<1>2. PICK l \in {w} \cup shared : link' = [link EXCEPT ![r] = l]
    BY <1>1 DEF AcceptFull
<1>3. Connected(m) /\ createReplicationBacklogIfNeeded(m) /\ UNCHANGED <<masterhost, data, offset, cached, rdb, writes, events>>
    BY <1>1 DEF AcceptFull
<1>4. w \in Links /\ w.phase = "wait"
    BY DEF Links
<1>5. l # w => \E o \in Nodes : /\ l = link[o] /\ link[o].phase = "full" /\ masterhost[o] = m /\ Open(o)
    BY <1>2 DEF Slaves, Open
<1> HIDE DEF w, shared
<1>6. l \in Links /\ l.phase \in {"wait", "full"}
    <2>1. CASE l = w
        BY <1>4, <2>1
    <2>2. CASE l # w
        BY <1>0, <1>5, <2>2 DEF TypeOK
    <2> QED BY <2>1, <2>2
<1>7. link'[r] = l /\ \A n \in Nodes \ {r} : link'[n] = link[n]
    BY <1>0, <1>2 DEF TypeOK
<1>8. /\ NodeStep(m, m) /\ backlog'[m].exists /\ \A n \in Nodes \ {m} : SameNode(n)
      /\ drawn' \in {drawn, [drawn EXCEPT ![m] = @ + 1]}
      /\ drawn' \in [Nodes -> Nat] /\ replid' \in [Nodes -> Ids]
      /\ replid2' \in [Nodes -> {NoId2} \cup [id : Ids, upto : Nat]]
      /\ backlog' \in [Nodes -> [exists : BOOLEAN, hist : Datasets]]
      /\ backlog[m].exists => Claim("own", m)' = Claim("own", m)
    BY <1>1, <1>3, <1>7, BacklogCreated
<1>9. TypeOK'
    BY <1>0, <1>2, <1>3, <1>6, <1>8 DEF TypeOK
<1>10. l.phase # "wait" => /\ Claim("stream", r)' = Claim("own", m) /\ backlog[m].exists
                           /\ Sourced("stream", r)
    <2> SUFFICES ASSUME l.phase # "wait"
                 PROVE  /\ Claim("stream", r)' = Claim("own", m) /\ backlog[m].exists
                        /\ Sourced("stream", r)
        OBVIOUS
    <2>1. PICK o \in Nodes : l = link[o] /\ link[o].phase = "full" /\ masterhost[o] = m /\ Open(o)
        BY <1>4, <1>5
    <2>2. backlog[m].exists /\ Claim("stream", o) = Claim("own", m)
        BY <2>1, OpenFacts
    <2>3. Claim("stream", r)' = Claim("stream", o)
        BY <1>7, <2>1 DEF Claim
    <2>4. Made("stream", o) /\ "stream" \in Kinds /\ "stream" \notin Local
        BY <2>1 DEF Made, Streaming, Kinds, Local
    <2>5. Below(Claim("stream", r)', Claim("stream", o))
        BY <2>3, BelowItself
    <2> QED BY <2>2, <2>3, <2>4, <2>5, SourcedFrom
<1>11. NodeStep(r, m)
    <2>1. SameNode(r) /\ masterhost[r] # NoHost
        BY <1>1, <1>8, NodeTypes
    <2>2. Streaming(r)' => Sourced("stream", r)
        BY <1>7, <1>10 DEF Streaming
    <2> QED BY <1>0, <1>6, <1>7, <2>1, <2>2, NodeConnects
<1>12. ConnectionOK(r)'
    <2>1. masterhost'[r] = m
        BY <1>1, <1>3
    <2>2. link'[r].phase # "wait" => Claim("stream", r)' = Claim("own", m)'
        BY <1>7, <1>8, <1>10
    <2>3. Claim("own", masterhost[r])' = Claim("own", m)'
        BY <2>1 DEF Claim
    <2> QED BY <1>8, <2>1, <2>2, <2>3, OpenConnectionsNext
<1>13. ASSUME NEW n \in Nodes \ {r} PROVE ConnectionOK(n)' /\ (n # m => NodeStep(n, m))
    <2>1. SameLink(link'[n], link[n]) /\ (Open(n)' => Open(n))
        BY <1>7, SameLinkItself DEF Open
    <2>2. n # m => NodeStep(n, m)
        BY <1>8, <2>1, NodeSame
    <2>3. ASSUME NEW o \in Nodes, Open(n), o = masterhost[n]
          PROVE  Claim("own", o)' = Claim("own", o) /\ backlog'[o].exists
        <3>1. backlog[o].exists
            BY <2>3, OpenFacts
        <3>2. CASE o = m
            BY <1>8, <3>1, <3>2
        <3>3. CASE o # m
            BY <1>8, <3>1, <3>3, SameClaims DEF SameNode
        <3> QED BY <3>2, <3>3
    <2>4. CASE n # m
        BY <1>8, <2>1, <2>2, <2>3, <2>4, ConnectionSame
    <2>5. CASE n = m /\ backlog[m].exists
        <3>1. SameNode(m)
            BY <1>3, <2>5 DEF createReplicationBacklogIfNeeded, SameNode
        <3> QED BY <2>1, <2>3, <2>5, <3>1, ConnectionSame
    <2>6. CASE n = m /\ ~backlog[m].exists
        <3>1. ~Open(n)
            BY <1>3, <2>6, NodeTypes DEF Connected, RoleOK, Open
        <3> QED BY <2>1, <2>2, <2>6, <3>1, ConnectionShut
    <2> QED BY <2>2, <2>4, <2>5, <2>6
<1> QED BY <1>8, <1>9, <1>11, <1>12, <1>13, Assemble

\* The replicas that wait get the dataset, its ID and its offset, or are dropped.
LEMMA StartBgsaveKeeps ==
    ASSUME IndInv, NEW m \in Nodes, StartBgsave(m)
    PROVE  IndInv'
<1> DEFINE waiting == {r \in Slaves(m) : link[r].phase = "wait"}
           sync == [phase |-> "full", closed |-> FALSE, data |-> data[m],
                    id |-> replid[m], offset |-> offset[m], queue |-> <<>>]
           started == IF KnowsOffset(m) THEN sync ELSE Down
<1>0. /\ TypeOK /\ RoleOK(m) /\ data[m] \in Datasets /\ replid[m] \in Ids /\ offset[m] \in Nat /\ <<>> \in Datasets
      /\ data[m] \o <<>> = data[m] /\ Len(<<>>) = 0
    <2>1. data[m] \in Datasets /\ Datasets = Seq(1..MaxWrites)
        BY NodeTypes DEF Datasets
    <2>2. data[m] \o <<>> = data[m] /\ <<>> \in Datasets /\ Len(<<>>) = 0
        BY <2>1
    <2> QED BY <2>2, NodeTypes DEF IndInv
<1>1. \A r \in waiting : r \in Nodes /\ masterhost[r] = m /\ Open(r) /\ link[r].phase = "wait"
    BY DEF Slaves, Open
<1>2. Made("own", m) /\ backlog[m].exists /\ m \notin waiting
    <2>1. PICK r \in waiting : TRUE
        BY DEF StartBgsave
    <2>2. Open(r) /\ masterhost[r] = m /\ r \in Nodes
        BY <1>1, <2>1
    <2>3. m \notin waiting
        BY <1>0, <1>1 DEF RoleOK
    <2> QED BY <2>2, <2>3, OpenFacts
<1>3. /\ \A n \in Nodes : link'[n] = IF n \in waiting THEN started ELSE link[n]
      /\ link' \in [Nodes -> {link[n] : n \in Nodes} \cup {started}]
      /\ rdb' \in {rdb, [rdb EXCEPT ![m] = Dump(m)]}
      /\ UNCHANGED <<masterhost, data, replid, replid2, offset, backlog, cached, drawn, writes, events>>
    BY DEF StartBgsave
<1>4. /\ sync \in Links /\ sync.phase = "full" /\ sync.data = data[m] /\ sync.id = replid[m]
      /\ sync.offset = offset[m] /\ sync.queue = <<>>
    BY <1>0 DEF Links
<1>5. Down \in Links /\ Down.phase = "down" /\ started \in {sync, Down}
    BY DEF Links, Down
<1> HIDE DEF sync, waiting, started
<1>6. TypeOK'
    <2>1. link' \in [Nodes -> Links]
        BY <1>0, <1>3, <1>4, <1>5 DEF TypeOK
    <2>2. rdb' \in [Nodes -> [data : Datasets, id : Ids \cup {NoId}, offset : Nat]]
        BY <1>0, <1>3, DumpOf DEF TypeOK
    <2> QED BY <1>0, <1>3, <2>1, <2>2 DEF TypeOK
<1>7. \A n \in Nodes \ {m} : SameNode(n)
    BY <1>0, <1>3 DEF SameNode, TypeOK
<1>8. NodeStep(m, m) /\ Claim("own", m)' = Claim("own", m) /\ Claim("stream", m)' = Claim("stream", m)
    <2>1. link'[m] = link[m]
        BY <1>2, <1>3
    <2>2. CASE rdb' = rdb
        <3>1. SameNode(m) /\ SameLink(link'[m], link[m])
            BY <1>3, <2>1, <2>2, SameLinkItself DEF SameNode
        <3>2. Claim("stream", m)' = Claim("stream", m)
            BY <1>3, <2>1 DEF Claim
        <3> QED BY <3>1, <3>2, NodeSame, SameClaims
    <2>3. CASE rdb' = [rdb EXCEPT ![m] = Dump(m)]
        <3>1. rdb'[m] = Dump(m)
            BY <1>0, <2>3 DEF TypeOK
        <3> QED BY <1>3, <2>1, <3>1, NodeDumps
    <2> QED BY <1>3, <2>2, <2>3
<1>9. \A n \in Nodes : Claim("own", n)' = Claim("own", n)
    BY <1>7, <1>8, SameClaims
<1>10. ASSUME NEW r \in waiting PROVE NodeStep(r, m) /\ ConnectionOK(r)'
    <2>0. /\ r \in Nodes \ {m} /\ masterhost[r] = m /\ Open(r) /\ link[r].phase = "wait"
          /\ link'[r] = started /\ m # NoHost
        BY <1>1, <1>2, <1>3, <1>10, NodeTypes
    <2>1. CASE started = Down
        <3>1. NodeStep(r, m)
            BY <1>5, <1>7, <2>0, <2>1, NodeConnects DEF Streaming
        <3>2. ConnectionOK(r)'
            BY <1>5, <2>0, <2>1, ConnectionShut DEF Open
        <3> QED BY <3>1, <3>2
    <2>2. CASE started = sync
        <3>1. Claim("stream", r)' = [id |-> sync.id, offset |-> sync.offset + Len(sync.queue),
                                     data |-> sync.data \o sync.queue]
            BY <1>4, <2>0, <2>2 DEF Claim
        <3>2. Claim("stream", r)' = [id |-> replid[m], offset |-> offset[m], data |-> data[m]]
            <4>1. offset[m] + 0 = offset[m]
                BY <1>0
            <4> QED BY <1>0, <1>4, <3>1, <4>1
        <3>3. Claim("stream", r)' = Claim("own", m)
            BY <3>2, ClaimOf
        <3>4. Sourced("stream", r)
            <4>1. Made("own", m) /\ {"own", "stream"} \subseteq Kinds /\ ~Private(m)'
                BY <1>2, <1>3 DEF Kinds, Private
            <4>2. Below(Claim("stream", r)', Claim("own", m))
                BY <3>3, BelowItself
            <4> QED BY <2>0, <4>1, <4>2, SourcedFrom
        <3>5. NodeStep(r, m)
            BY <1>4, <1>7, <2>0, <2>2, <3>4, NodeConnects
        <3>6. ConnectionOK(r)'
            <4>1. masterhost'[r] = m /\ backlog'[m].exists /\ Claim("own", m)' = Claim("own", m)
                BY <1>2, <1>3, <1>9, <2>0
            <4>2. Claim("own", masterhost[r])' = Claim("own", m)'
                BY <4>1 DEF Claim
            <4> QED BY <2>0, <3>3, <4>1, <4>2, OpenConnectionsNext
        <3> QED BY <3>5, <3>6
    <2> QED BY <1>5, <2>1, <2>2
<1>11. ASSUME NEW n \in Nodes, n \notin waiting, n # m PROVE NodeStep(n, m) /\ ConnectionOK(n)'
    <2>1. SameLink(link'[n], link[n]) /\ (Open(n)' => Open(n))
        BY <1>3, <1>11, SameLinkItself DEF Open
    <2>2. \A o \in Nodes : Open(n) /\ o = masterhost[n] => Claim("own", o)' = Claim("own", o) /\ backlog'[o].exists
        BY <1>3, <1>9, OpenFacts
    <2> QED BY <1>7, <1>11, <2>1, <2>2, NodeSame, ConnectionSame
<1>12. ConnectionOK(m)'
    <2> SUFFICES ASSUME Open(m)'
                 PROVE  /\ backlog'[masterhost'[m]].exists
                        /\ link'[m].phase # "wait" => Claim("stream", m)' = Claim("own", masterhost[m])'
        BY OpenConnectionsNext
    <2>1. Open(m) /\ link'[m] = link[m]
        BY <1>2, <1>3 DEF Open
    <2>2. PICK o \in Nodes : o = masterhost[m] /\ backlog[o].exists
                             /\ (link[m].phase # "wait" => Claim("stream", m) = Claim("own", o))
        BY <2>1, OpenFacts
    <2>3. Claim("own", o)' = Claim("own", o)
        BY <1>9
    <2> QED BY <1>3, <1>8, <2>1, <2>2, <2>3
<1> QED BY <1>1, <1>3, <1>6, <1>8, <1>10, <1>11, <1>12, Assemble

-----------------------------------------------------------------------------
(* A write is executed and passed on                                       *)

\* What is appended to the end of two sequences is appended to the second.
LEMMA AppendToConcat ==
    ASSUME NEW s \in Datasets, NEW q \in Datasets, NEW w \in 1..MaxWrites
    PROVE  /\ Append(q, w) \in Datasets /\ Len(Append(q, w)) = Len(q) + 1
           /\ s \o Append(q, w) = Append(s \o q, w)
<1> DEFINE D == 1..MaxWrites
<1>1. s \in Seq(D) /\ q \in Seq(D) /\ w \in D /\ Datasets = Seq(D)
    BY DEF Datasets
<1> HIDE DEF D
<1>2. Append(q, w) \in Seq(D) /\ Len(Append(q, w)) = Len(q) + 1 /\ Append(q, w) = q \o <<w>>
    BY <1>1, AppendProperties, AppendIsConcat
<1>3. s \o q \in Seq(D) /\ <<w>> \in Seq(D)
    BY <1>1, ConcatProperties
<1>4. Append(s \o q, w) = (s \o q) \o <<w>>
    BY <1>1, <1>3, AppendIsConcat
<1>5. (s \o q) \o <<w>> = s \o (q \o <<w>>)
    BY <1>1, <1>3, ConcatAssociative
<1> QED BY <1>1, <1>2, <1>4, <1>5

\* Reading the next write from the connection.
LEMMA ReadNext ==
    ASSUME NEW s \in Datasets, NEW q \in Datasets, q # <<>>
    PROVE  /\ Head(q) \in 1..MaxWrites /\ Tail(q) \in Datasets /\ Len(Tail(q)) = Len(q) - 1
           /\ Append(s, Head(q)) \in Datasets /\ Append(s, Head(q)) \o Tail(q) = s \o q
<1> DEFINE D == 1..MaxWrites
           h == Head(q)
           t == Tail(q)
<1>1. s \in Seq(D) /\ q \in Seq(D) /\ Datasets = Seq(D)
    BY DEF Datasets
<1> HIDE DEF D
<1>2. h \in D /\ t \in Seq(D) /\ Len(t) = Len(q) - 1 /\ \A i \in 1..Len(t) : t[i] = q[i + 1]
    BY <1>1, HeadTailProperties
<1>3. h = q[1]
    OBVIOUS
<1> HIDE DEF h, t
<1>4. /\ Append(s, h) \in Seq(D) /\ Len(Append(s, h)) = Len(s) + 1
      /\ \A i \in 1..Len(s) : Append(s, h)[i] = s[i]
      /\ Append(s, h)[Len(s) + 1] = h
    BY <1>1, <1>2, AppendProperties
<1> DEFINE x == Append(s, h) \o t
           y == s \o q
<1>5. PICK a \in Nat, b \in Nat : a = Len(s) /\ b = Len(q) /\ b > 0 /\ Len(t) = b - 1 /\ Len(Append(s, h)) = a + 1
    BY <1>1, <1>2, <1>4, EmptySeq
<1>6. /\ x \in Seq(D) /\ Len(x) = a + b
      /\ \A i \in 1..(a + b) : x[i] = IF i <= a + 1 THEN Append(s, h)[i] ELSE t[i - (a + 1)]
    <2>1. /\ x \in Seq(D) /\ Len(x) = Len(Append(s, h)) + Len(t)
          /\ \A i \in 1..(Len(Append(s, h)) + Len(t)) :
                x[i] = IF i <= Len(Append(s, h)) THEN Append(s, h)[i] ELSE t[i - Len(Append(s, h))]
        BY <1>2, <1>4, ConcatProperties
    <2>2. Len(Append(s, h)) + Len(t) = a + b
        BY <1>5
    <2> QED BY <1>5, <2>1, <2>2
<1>7. /\ y \in Seq(D) /\ Len(y) = a + b
      /\ \A i \in 1..(a + b) : y[i] = IF i <= a THEN s[i] ELSE q[i - a]
    BY <1>1, <1>5, ConcatProperties
<1> HIDE DEF x, y
<1>8. ASSUME NEW i \in 1..(a + b) PROVE x[i] = y[i]
    <2>1. CASE i <= a
        BY <1>4, <1>5, <1>6, <1>7, <2>1
    <2>2. CASE i = a + 1
        BY <1>3, <1>4, <1>5, <1>6, <1>7, <2>2
    <2>3. CASE i > a + 1
        <3>1. PICK j \in Nat : j = i - (a + 1) /\ j \in 1..(b - 1) /\ j + 1 = i - a
            BY <2>3
        <3>2. x[i] = t[j] /\ y[i] = q[j + 1]
            BY <1>6, <1>7, <2>3, <3>1
        <3> QED BY <1>2, <1>5, <3>1, <3>2
    <2> QED BY <2>1, <2>2, <2>3
<1>9. x = y
    BY <1>6, <1>7, <1>8, SeqEqual
<1> QED BY <1>1, <1>2, <1>4, <1>9 DEF h, t, x, y, D

\* incrementalTrimReplicationBacklog leaves an end of the backlog.
LEMMA TrimOf ==
    ASSUME NEW hist \in Datasets, NEW w \in 1..MaxWrites, NEW b \in Trims(Append(hist, w))
    PROVE  /\ b.exists = TRUE /\ b \in [exists : BOOLEAN, hist : Datasets]
           /\ \E d \in Nat : /\ Len(b.hist) + d = Len(hist) + 1
                             /\ \A i \in 1..Len(b.hist) : b.hist[i] = Append(hist, w)[d + i]
<1> DEFINE D == 1..MaxWrites
           g == Append(hist, w)
<1>1. g \in Seq(D) /\ Len(g) = Len(hist) + 1 /\ Len(hist) \in Nat /\ Datasets = Seq(D)
    BY AppendToConcat DEF Datasets
<1>2. PICK k \in {1} \cup 1..(Len(g) - BacklogSize + 1) : b = Backlog(SubSeq(g, k, Len(g)))
    BY DEF Trims
<1> HIDE DEF D, g
<1>3. PICK e \in Nat : e = Len(g) /\ e = Len(hist) + 1
    BY <1>1
<1>4. k \in Nat \ {0} /\ k <= e + 1
    BY <1>2, <1>3, BoundsAssumption
<1> DEFINE t == SubSeq(g, k, e)
<1>5. /\ t \in Seq(D) /\ Len(t) = e - k + 1
      /\ \A i \in 1..(e - k + 1) : t[i] = g[k + i - 1]
    BY <1>1, <1>3, <1>4, PartOf
<1>6. b.exists = TRUE /\ b.hist = t /\ b \in [exists : BOOLEAN, hist : Datasets]
    BY <1>1, <1>2, <1>3, <1>5 DEF Backlog
<1> HIDE DEF t
<1>7. PICK d \in Nat : d = k - 1
    BY <1>4
<1>8. Len(b.hist) + d = Len(hist) + 1
    BY <1>3, <1>4, <1>5, <1>6, <1>7
<1>9. \A i \in 1..Len(b.hist) : b.hist[i] = g[d + i]
    <2> SUFFICES ASSUME NEW i \in 1..Len(b.hist) PROVE b.hist[i] = g[d + i]
        OBVIOUS
    <2>1. i \in 1..(e - k + 1) /\ k + i - 1 = d + i
        BY <1>4, <1>5, <1>6, <1>7
    <2> QED BY <1>5, <1>6, <2>1
<1> QED BY <1>6, <1>8, <1>9 DEF g

\* The backlog is still the end of the dataset, and the second ID names what it did.
LEMMA BacklogGrows ==
    ASSUME NEW n \in Nodes, BacklogOK(n), data[n] \in Datasets, offset[n] \in Nat,
           replid2[n] \in {NoId2} \cup [id : Ids, upto : Nat],
           backlog[n] \in [exists : BOOLEAN, hist : Datasets], backlog[n].exists,
           NEW w \in 1..MaxWrites, NEW b \in Trims(Append(backlog[n].hist, w)), backlog'[n] = b,
           data'[n] = Append(data[n], w), offset'[n] = offset[n] + 1, replid2'[n] = replid2[n]
    PROVE  /\ BacklogOK(n)' /\ b \in [exists : BOOLEAN, hist : Datasets] /\ b.exists = TRUE
           /\ replid2[n] # NoId2 => Claim("second", n)' = Claim("second", n)
<1> DEFINE s == data[n]
           hist == backlog[n].hist
           D == 1..MaxWrites
<1>1. s \in Seq(D) /\ hist \in Seq(D) /\ w \in D /\ Datasets = Seq(D)
    BY DEF Datasets
<1>2. /\ Len(hist) <= offset[n] /\ Len(hist) <= Len(s)
      /\ \A i \in 1..Len(hist) : hist[i] = s[Len(s) - Len(hist) + i]
      /\ replid2[n] # NoId2 => 0 <= offset[n] + 1 - replid2[n].upto /\ offset[n] + 1 - replid2[n].upto <= Len(s)
    BY DEF BacklogOK
<1>3. /\ b.exists = TRUE /\ b \in [exists : BOOLEAN, hist : Datasets]
      /\ \E d \in Nat : /\ Len(b.hist) + d = Len(hist) + 1
                        /\ \A i \in 1..Len(b.hist) : b.hist[i] = Append(hist, w)[d + i]
    BY <1>1, TrimOf
<1> HIDE DEF s, hist, D
<1>4. /\ Append(s, w) \in Seq(D) /\ Len(Append(s, w)) = Len(s) + 1
      /\ \A i \in 1..Len(s) : Append(s, w)[i] = s[i]
      /\ Append(s, w)[Len(s) + 1] = w
      /\ \A i \in 1..Len(hist) : Append(hist, w)[i] = hist[i]
      /\ Append(hist, w)[Len(hist) + 1] = w
    BY <1>1, AppendProperties
<1>5. PICK d \in Nat : /\ Len(b.hist) + d = Len(hist) + 1
                       /\ \A i \in 1..Len(b.hist) : b.hist[i] = Append(hist, w)[d + i]
    BY <1>3
<1>6. PICK ls \in Nat, h \in Nat, g \in Nat, p \in Nat :
          ls = Len(s) /\ h = Len(hist) /\ g = Len(b.hist) /\ p = offset[n]
    <2>1. b.hist \in Seq(D)
        BY <1>1, <1>3
    <2> QED BY <1>1, <2>1
<1>7. g + d = h + 1 /\ h <= p /\ h <= ls
    BY <1>2, <1>5, <1>6
<1>8. /\ data'[n] = Append(s, w) /\ Len(data'[n]) = ls + 1 /\ offset'[n] = p + 1
      /\ backlog'[n].hist = b.hist /\ Len(backlog'[n].hist) = g
    BY <1>4, <1>6 DEF s
<1>9. g <= p + 1 /\ g <= ls + 1
    BY <1>7
<1>10. ASSUME NEW i \in 1..g PROVE b.hist[i] = Append(s, w)[(ls + 1) - g + i]
    <2>1. PICK j \in Nat : j = d + i /\ j \in 1..(h + 1) /\ (ls + 1) - g + i = ls - h + j
        BY <1>7
    <2>2. b.hist[i] = Append(hist, w)[j]
        BY <1>5, <1>6, <2>1
    <2>3. CASE j <= h
        <3>1. PICK x \in Nat : x = ls - h + j /\ x \in 1..ls
            BY <1>7, <2>1, <2>3
        <3>2. Append(hist, w)[j] = hist[j] /\ hist[j] = s[x]
            BY <1>2, <1>4, <1>6, <2>1, <2>3, <3>1
        <3> QED BY <1>4, <1>6, <2>1, <2>2, <3>1, <3>2
    <2>4. CASE j = h + 1
        <3>1. ls - h + j = ls + 1
            BY <2>4
        <3> QED BY <1>4, <1>6, <2>1, <2>2, <2>4, <3>1
    <2>5. j <= h \/ j = h + 1
        BY <2>1
    <2> QED BY <2>3, <2>4, <2>5
<1>11. CASE replid2[n] = NoId2
    <2>1. BacklogOK(n)'
        BY <1>3, <1>8, <1>9, <1>10, <1>11 DEF BacklogOK
    <2> QED BY <1>3, <1>11, <2>1
<1>12. CASE replid2[n] # NoId2
    <2>1. PICK u \in Nat : u = replid2[n].upto
        BY <1>12
    <2>2. 0 <= p + 1 - u /\ p + 1 - u <= ls
        BY <1>2, <1>6, <1>12, <2>1
    <2>3. 0 <= (p + 1) + 1 - u /\ (p + 1) + 1 - u <= ls + 1
        BY <2>2
    <2>4. BacklogOK(n)'
        BY <1>3, <1>8, <1>9, <1>10, <1>12, <2>1, <2>3 DEF BacklogOK
    <2>5. PICK e \in Nat : e = ls - (p + 1 - u) /\ e = (ls + 1) - ((p + 1) + 1 - u) /\ e <= ls
        BY <2>2
    <2>6. /\ Claim("second", n) = [id |-> replid2[n].id, offset |-> u - 1, data |-> SubSeq(s, 1, e)]
          /\ Claim("second", n)' = [id |-> replid2[n].id, offset |-> u - 1, data |-> SubSeq(Append(s, w), 1, e)]
        <3>1. Claim("second", n) = [id |-> replid2[n].id, offset |-> replid2[n].upto - 1,
                 data |-> SubSeq(data[n], 1, Len(data[n]) - (offset[n] + 1 - replid2[n].upto))]
            BY ClaimOf
        <3>2. Claim("second", n)' = [id |-> replid2'[n].id, offset |-> replid2'[n].upto - 1,
                 data |-> SubSeq(data'[n], 1, Len(data'[n]) - (offset'[n] + 1 - replid2'[n].upto))]
            BY DEF Claim
        <3>3. Len(data[n]) - (offset[n] + 1 - replid2[n].upto) = e
            BY <1>6, <2>1, <2>5 DEF s
        <3>4. Len(data'[n]) - (offset'[n] + 1 - replid2'[n].upto) = e
            BY <1>8, <2>1, <2>5
        <3> QED BY <1>8, <2>1, <3>1, <3>2, <3>3, <3>4 DEF s
    <2>7. SubSeq(Append(s, w), 1, e) = SubSeq(s, 1, e)
        <3>1. /\ SubSeq(s, 1, e) \in Datasets /\ Len(SubSeq(s, 1, e)) = e
              /\ \A i \in 1..e : SubSeq(s, 1, e)[i] = s[i]
            BY <1>1, <1>6, <2>5, PrefixOf
        <3>2. /\ SubSeq(Append(s, w), 1, e) \in Datasets /\ Len(SubSeq(Append(s, w), 1, e)) = e
              /\ \A i \in 1..e : SubSeq(Append(s, w), 1, e)[i] = Append(s, w)[i]
            <4>1. e <= Len(Append(s, w))
                BY <1>4, <1>6, <2>5
            <4> QED BY <1>1, <1>4, <4>1, PrefixOf
        <3>3. \A i \in 1..e : Append(s, w)[i] = s[i]
            BY <1>4, <1>6, <2>5
        <3> DEFINE x == SubSeq(Append(s, w), 1, e)
                   y == SubSeq(s, 1, e)
        <3>4. x \in Seq(D) /\ y \in Seq(D) /\ Len(x) = Len(y) /\ Len(x) = e
            BY <1>1, <3>1, <3>2
        <3>5. \A i \in 1..e : x[i] = y[i]
            BY <3>1, <3>2, <3>3
        <3> HIDE DEF x, y
        <3>6. x = y
            BY <3>4, <3>5, SeqEqual
        <3> QED BY <3>6 DEF x, y
    <2> QED BY <1>3, <2>4, <2>6, <2>7
<1> QED BY <1>11, <1>12

\* feedReplicationBuffer.
LEMMA Fed ==
    ASSUME IndInv, NEW z \in Nodes, NEW w \in 1..MaxWrites, NEW L \in [Nodes -> Links],
           \A n \in Nodes \ {z} : L[n] = link[n], link' = FeedSlaves(z, w, L)
    PROVE  /\ link'[z] = L[z] /\ link' \in [Nodes -> Links]
           /\ \A n \in Nodes \ {z} :
                 IF Open(n) /\ masterhost[n] = z /\ link[n].phase # "wait"
                 THEN /\ link'[n].phase = link[n].phase /\ link'[n].closed = link[n].closed
                      /\ link'[n].id = link[n].id /\ link'[n].queue = Append(link[n].queue, w)
                      /\ link[n].phase = "full" => link'[n].data = link[n].data /\ link'[n].offset = link[n].offset
                 ELSE link'[n] = link[n]
<1>0. /\ link \in [Nodes -> Links] /\ z \notin Slaves(z)
      /\ \A n \in Nodes : link'[n] = IF n \in Slaves(z) /\ L[n].phase # "wait"
                                     THEN [L[n] EXCEPT !.queue = Append(@, w)] ELSE L[n]
    <2>1. link \in [Nodes -> Links] /\ masterhost[z] # z
        BY DEF IndInv, TypeOK, RoleOK
    <2> QED BY <2>1 DEF FeedSlaves, Slaves
<1>1. link'[z] = L[z]
    BY <1>0
<1>2. ASSUME NEW n \in Nodes \ {z}
      PROVE  /\ link'[n] \in Links
             /\ IF Open(n) /\ masterhost[n] = z /\ link[n].phase # "wait"
                THEN /\ link'[n].phase = link[n].phase /\ link'[n].closed = link[n].closed
                     /\ link'[n].id = link[n].id /\ link'[n].queue = Append(link[n].queue, w)
                     /\ link[n].phase = "full" => link'[n].data = link[n].data /\ link'[n].offset = link[n].offset
                ELSE link'[n] = link[n]
    <2>0. link[n] \in Links /\ L[n] = link[n] /\ (n \in Slaves(z) <=> Open(n) /\ masterhost[n] = z)
        BY <1>0 DEF Slaves, Open
    <2>1. CASE Open(n) /\ masterhost[n] = z /\ link[n].phase # "wait"
        <3>1. link[n].phase \in {"full", "continue", "online"}
            BY <2>1 DEF Open
        <3>2. link'[n] = [link[n] EXCEPT !.queue = Append(@, w)]
            BY <1>0, <2>0, <2>1
        <3>3. /\ link'[n] \in Links /\ link'[n].phase = link[n].phase /\ link'[n].closed = link[n].closed
              /\ link'[n].id = link[n].id /\ link'[n].queue = Append(link[n].queue, w)
              /\ link[n].phase = "full" => link'[n].data = link[n].data /\ link'[n].offset = link[n].offset
            BY <2>0, <3>1, <3>2, FedLink
        <3> QED BY <2>1, <3>3
    <2>2. CASE ~(Open(n) /\ masterhost[n] = z /\ link[n].phase # "wait")
        BY <1>0, <2>0, <2>2
    <2> QED BY <2>1, <2>2
<1>3. link' \in [Nodes -> Links]
    <2>1. \A n \in Nodes : link'[n] \in Links
        BY <1>1, <1>2
    <2> QED BY <2>1 DEF FeedSlaves
<1> QED BY <1>1, <1>2, <1>3

\* A replica that the write is passed on to has, with it, what its master has.
LEMMA FedSlave ==
    ASSUME IndInv, NEW z \in Nodes, NEW n \in Nodes \ {z}, SameNode(n), NEW w \in 1..MaxWrites,
           Open(n), masterhost[n] = z, link[n].phase # "wait",
           link'[n].phase = link[n].phase, link'[n].closed = link[n].closed,
           link'[n].id = link[n].id, link'[n].queue = Append(link[n].queue, w),
           link[n].phase = "full" => link'[n].data = link[n].data /\ link'[n].offset = link[n].offset,
           data'[z] = Append(data[z], w), offset'[z] = offset[z] + 1, replid'[z] = replid[z], backlog'[z].exists
    PROVE  /\ Claim("stream", n)' = Claim("own", z)' /\ RoleOK(n)' /\ BacklogOK(n)' /\ ConnectionOK(n)'
           /\ KnowsOffset(n)' = KnowsOffset(n) /\ Private(n)' = Private(n)
<1>0. /\ RoleOK(n) /\ BacklogOK(n) /\ data[n] \in Datasets /\ offset[n] \in Nat
      /\ link[n].phase \in {"full", "continue", "online"} /\ link[n].queue \in Datasets
      /\ link[n].phase = "full" => link[n].data \in Datasets /\ link[n].offset \in Nat
    <2>1. link[n].phase \in {"full", "continue", "online"} /\ link[n] \in Links
        BY NodeTypes DEF Open
    <2> QED BY <2>1, LinkFields, NodeTypes
<1>1. Claim("stream", n) = Claim("own", z) /\ Claim("own", z) = [id |-> replid[z], offset |-> offset[z], data |-> data[z]]
    BY OpenFacts, ClaimOf
<1>2. Claim("own", z)' = [id |-> replid[z], offset |-> offset[z] + 1, data |-> Append(data[z], w)]
    BY DEF Claim
<1> DEFINE q == link[n].queue
<1>3. Len(Append(q, w)) = Len(q) + 1 /\ Len(q) \in Nat
    BY <1>0, AppendToConcat DEF Datasets
<1>4. Claim("stream", n)' = Claim("own", z)'
    <2>1. CASE link[n].phase = "full"
        <3> DEFINE s == link[n].data
                   p == link[n].offset
        <3>1. [id |-> link[n].id, offset |-> p + Len(q), data |-> s \o q] =
              [id |-> replid[z], offset |-> offset[z], data |-> data[z]]
            BY <1>1, <2>1, ClaimOf
        <3>2. Claim("stream", n)' = [id |-> link[n].id, offset |-> p + Len(Append(q, w)), data |-> s \o Append(q, w)]
            BY <2>1 DEF Claim
        <3>3. s \o Append(q, w) = Append(s \o q, w) /\ p \in Nat
            BY <1>0, <2>1, AppendToConcat
        <3> HIDE DEF s, p, q
        <3>4. link[n].id = replid[z] /\ p + Len(q) = offset[z] /\ s \o q = data[z]
            BY <3>1
        <3>5. p + Len(Append(q, w)) = offset[z] + 1
            BY <1>3, <3>3, <3>4
        <3> QED BY <1>2, <3>2, <3>3, <3>4, <3>5
    <2>2. CASE link[n].phase # "full"
        <3> DEFINE s == data[n]
                   p == offset[n]
        <3>1. [id |-> link[n].id, offset |-> p + Len(q), data |-> s \o q] =
              [id |-> replid[z], offset |-> offset[z], data |-> data[z]]
            BY <1>1, <2>2, ClaimOf
        <3>2. Claim("stream", n)' = [id |-> link[n].id, offset |-> p + Len(Append(q, w)), data |-> s \o Append(q, w)]
            BY <2>2 DEF Claim, SameNode
        <3>3. s \o Append(q, w) = Append(s \o q, w) /\ p \in Nat
            BY <1>0, AppendToConcat
        <3> HIDE DEF s, p, q
        <3>4. link[n].id = replid[z] /\ p + Len(q) = offset[z] /\ s \o q = data[z]
            BY <3>1
        <3>5. p + Len(Append(q, w)) = offset[z] + 1
            BY <1>3, <3>3, <3>4
        <3> QED BY <1>2, <3>2, <3>3, <3>4, <3>5
    <2> QED BY <2>1, <2>2
<1>5. KnowsOffset(n)' = KnowsOffset(n) /\ Private(n)' = Private(n)
    BY DEF KnowsOffset, Private, SameNode
<1>6. RoleOK(n)'
    BY <1>0, <1>5 DEF RoleOK, SameNode
<1>7. BacklogOK(n)'
    BY <1>0, SameClaims
<1>8. ConnectionOK(n)'
    <2>1. masterhost'[n] = z
        BY DEF SameNode
    <2>2. Claim("own", masterhost[n])' = Claim("own", z)'
        BY <2>1 DEF Claim
    <2> QED BY <1>4, <2>1, <2>2, OpenConnectionsNext
<1> QED BY <1>4, <1>5, <1>6, <1>7, <1>8

\* The nodes that the write is not passed on to.
LEMMA NotFed ==
    ASSUME IndInv, NEW z \in Nodes, NEW n \in Nodes \ {z}, \A m \in Nodes \ {z} : SameNode(m),
           link'[n] = link[n], ~(Open(n) /\ masterhost[n] = z /\ link[n].phase # "wait"), backlog'[z].exists
    PROVE  NodeStep(n, z) /\ ConnectionOK(n)'
<1>1. SameLink(link'[n], link[n]) /\ Open(n)' = Open(n)
    BY SameLinkItself DEF Open
<1>2. NodeStep(n, z)
    BY <1>1, NodeSame
<1>3. CASE Open(n) /\ masterhost[n] = z
    <2>1. link'[n].phase = "wait" /\ masterhost'[n] = z
        BY <1>3 DEF SameNode
    <2> QED BY <1>2, <2>1, OpenConnectionsNext
<1>4. CASE ~(Open(n) /\ masterhost[n] = z)
    <2>1. \A m \in Nodes : Open(n) /\ m = masterhost[n] => Claim("own", m)' = Claim("own", m) /\ backlog'[m].exists
        <3> SUFFICES ASSUME NEW m \in Nodes, Open(n), m = masterhost[n]
                     PROVE  Claim("own", m)' = Claim("own", m) /\ backlog'[m].exists
            OBVIOUS
        <3>1. SameNode(m) /\ backlog[m].exists
            BY <1>4, OpenFacts
        <3> QED BY <3>1, SameClaims DEF SameNode
    <2> QED BY <1>1, <1>2, <2>1, ConnectionSame
<1> QED BY <1>3, <1>4

\* A replica executes the next write and passes it on to its own replicas.
LEMMA ApplyKeeps ==
    ASSUME IndInv, NEW r \in Nodes, Apply(r)
    PROVE  IndInv'
<1> DEFINE l == link[r]
           w == Head(l.queue)
           q == Tail(l.queue)
           L == [link EXCEPT ![r].queue = Tail(@)]
           o == [l EXCEPT !.queue = q]
<1>0. /\ l.phase = "online" /\ l.queue # <<>> /\ RoleOK(r) /\ BacklogOK(r) /\ l \in Links /\ TypeOK
      /\ offset[r] \in Nat /\ data[r] \in Datasets /\ replid2[r] \in {NoId2} \cup [id : Ids, upto : Nat]
      /\ backlog[r] \in [exists : BOOLEAN, hist : Datasets]
      /\ l.closed \in BOOLEAN /\ l.id \in Ids /\ l.queue \in Datasets
    <2>1. l.phase = "online" /\ l.queue # <<>> /\ l \in Links
        BY NodeTypes DEF Apply
    <2> QED BY <2>1, LinkFields, NodeTypes DEF IndInv
<1>1. /\ masterhost[r] # NoHost /\ masterhost[r] # r /\ cached[r] = NoMaster /\ backlog[r].exists /\ l.id = replid[r]
    BY <1>0 DEF RoleOK
<1>2. /\ w \in 1..MaxWrites /\ q \in Datasets /\ Len(q) = Len(l.queue) - 1 /\ Len(l.queue) \in Nat
      /\ Append(data[r], w) \in Datasets /\ Append(data[r], w) \o q = data[r] \o l.queue
    <2>1. Len(l.queue) \in Nat
        BY <1>0 DEF Datasets
    <2>2. /\ w \in 1..MaxWrites /\ q \in Datasets /\ Len(q) = Len(l.queue) - 1
          /\ Append(data[r], w) \in Datasets /\ Append(data[r], w) \o q = data[r] \o l.queue
        BY <1>0, ReadNext
    <2> QED BY <2>1, <2>2
<1>3. /\ data' = [data EXCEPT ![r] = Append(@, w)] /\ offset' = [offset EXCEPT ![r] = @ + 1]
      /\ link' = FeedSlaves(r, w, L)
      /\ UNCHANGED <<masterhost, replid, replid2, cached, rdb, drawn, writes, events>>
    BY DEF Apply
<1>4. PICK b \in Trims(Append(backlog[r].hist, w)) : backlog' = [backlog EXCEPT ![r] = b]
    BY DEF Apply
<1>5. o \in Links /\ o.phase = "online" /\ o.closed = l.closed /\ o.id = l.id /\ o.queue = q
    <2>1. l = [phase |-> l.phase, closed |-> l.closed, id |-> l.id, queue |-> l.queue]
        BY <1>0, LinkFields
    <2> HIDE DEF q, l
    <2>2. o = [phase |-> l.phase, closed |-> l.closed, id |-> l.id, queue |-> q]
        BY <2>1
    <2> HIDE DEF o
    <2> QED BY <1>0, <1>2, <2>2 DEF Links
<1>6. L[r] = o /\ \A n \in Nodes \ {r} : L[n] = link[n]
    BY <1>0 DEF TypeOK
<1>7. L \in [Nodes -> Links]
    BY <1>0, <1>5 DEF TypeOK
<1> HIDE DEF w, q, L, o
<1>8. /\ link'[r] = o /\ link' \in [Nodes -> Links]
      /\ \A n \in Nodes \ {r} :
            IF Open(n) /\ masterhost[n] = r /\ link[n].phase # "wait"
            THEN /\ link'[n].phase = link[n].phase /\ link'[n].closed = link[n].closed
                 /\ link'[n].id = link[n].id /\ link'[n].queue = Append(link[n].queue, w)
                 /\ link[n].phase = "full" => link'[n].data = link[n].data /\ link'[n].offset = link[n].offset
            ELSE link'[n] = link[n]
    BY <1>2, <1>3, <1>6, <1>7, Fed
<1>9. /\ data'[r] = Append(data[r], w) /\ offset'[r] = offset[r] + 1 /\ backlog'[r] = b
      /\ masterhost'[r] = masterhost[r] /\ replid'[r] = replid[r] /\ replid2'[r] = replid2[r]
      /\ cached'[r] = cached[r] /\ rdb'[r] = rdb[r]
    BY <1>0, <1>3, <1>4 DEF TypeOK
<1>10. \A n \in Nodes \ {r} : SameNode(n)
    BY <1>0, <1>3, <1>4 DEF SameNode, TypeOK
<1>11. /\ BacklogOK(r)' /\ b \in [exists : BOOLEAN, hist : Datasets] /\ b.exists = TRUE
       /\ replid2[r] # NoId2 => Claim("second", r)' = Claim("second", r)
    BY <1>0, <1>1, <1>2, <1>4, <1>9, BacklogGrows
<1>12. TypeOK'
    <2>1. data' \in [Nodes -> Datasets]
        BY <1>0, <1>2, <1>3 DEF TypeOK
    <2>2. offset' \in [Nodes -> Nat]
        BY <1>0, <1>3 DEF TypeOK
    <2>3. backlog' \in [Nodes -> [exists : BOOLEAN, hist : Datasets]]
        BY <1>0, <1>4, <1>11 DEF TypeOK
    <2> QED BY <1>0, <1>3, <1>8, <2>1, <2>2, <2>3 DEF TypeOK
<1> HIDE DEF l
<1>13. RoleOK(r)'
    BY <1>1, <1>5, <1>8, <1>9, <1>11 DEF RoleOK, KnowsOffset
<1>14. /\ Claim("own", r)' = [id |-> l.id, offset |-> offset[r] + 1, data |-> Append(data[r], w)]
       /\ Claim("file", r)' = Claim("file", r) /\ Made("file", r)' = Made("file", r)
       /\ Claim("stream", r)' = [id |-> l.id, offset |-> (offset[r] + 1) + Len(q), data |-> Append(data[r], w) \o q]
    BY <1>1, <1>5, <1>8, <1>9 DEF Claim, Made
<1>15. /\ Claim("stream", r) = [id |-> l.id, offset |-> offset[r] + Len(l.queue), data |-> data[r] \o l.queue]
       /\ Made("stream", r) /\ Kinds = {"own", "second", "file", "stream"} /\ "stream" \notin Local
    BY <1>0, ClaimOf, MadeOf DEF l, Streaming, Kinds, Local
<1>16. Claim("stream", r)' = Claim("stream", r)
    <2>1. (offset[r] + 1) + Len(q) = offset[r] + Len(l.queue)
        <3>1. PICK x \in Nat, y \in Nat : x = offset[r] /\ y = Len(l.queue) /\ Len(q) = y - 1
            BY <1>0, <1>2
        <3>2. (x + 1) + (y - 1) = x + y
            OBVIOUS
        <3> QED BY <3>1, <3>2
    <2> QED BY <1>2, <1>14, <1>15, <2>1
<1>17. Below(Claim("own", r)', Claim("stream", r))
    <2>1. offset[r] + 1 \in Nat
        BY <1>0
    <2>2. Below(Claim("own", r)', Claim("stream", r)')
        BY <1>2, <1>14, <2>1, BeginningOf
    <2> QED BY <1>16, <2>2
<1>18. ASSUME NEW k \in Kinds, Made(k, r)' PROVE Sourced(k, r)
    <2>1. CASE k = "own"
        BY <1>15, <1>17, <2>1, SourcedFrom
    <2>2. CASE k = "stream"
        BY <1>15, <1>16, <2>2, SourcedItself
    <2>3. CASE k = "file"
        BY <1>14, <1>18, <2>3, SourcedItself
    <2>4. CASE k = "second"
        <3>1. replid2[r] # NoId2 /\ Made("second", r)
            BY <1>1, <1>9, <1>18, <2>4 DEF Made
        <3> QED BY <1>11, <2>4, <3>1, SourcedItself
    <2> QED BY <1>15, <2>1, <2>2, <2>3, <2>4
<1>19. NodeStep(r, r)
    <2>1. ~Private(r)'
        BY <1>9, <1>11 DEF Private
    <2> QED BY <1>1, <1>9, <1>11, <1>13, <1>18, <2>1 DEF NodeStep
<1>20. ConnectionOK(r)'
    <2>1. Open(r)' => Open(r) /\ link[r].phase # "wait"
        BY <1>0, <1>5, <1>8 DEF Open, l
    <2> QED BY <1>9, <1>10, <1>16, <2>1, ConnectionKept
<1>21. ASSUME NEW n \in Nodes \ {r} PROVE NodeStep(n, r) /\ ConnectionOK(n)'
    <2>0. backlog'[r].exists
        BY <1>9, <1>11
    <2>1. CASE Open(n) /\ masterhost[n] = r /\ link[n].phase # "wait"
        <3>1. /\ Claim("stream", n)' = Claim("own", r)' /\ RoleOK(n)' /\ BacklogOK(n)' /\ ConnectionOK(n)'
              /\ KnowsOffset(n)' = KnowsOffset(n) /\ Private(n)' = Private(n)
            BY <1>2, <1>8, <1>9, <1>10, <2>0, <2>1, FedSlave
        <3>2. Sourced("stream", n)
            BY <1>15, <1>17, <3>1, SourcedFrom
        <3>3. SameNode(n) /\ link'[n].phase = link[n].phase /\ n # r
            BY <1>8, <1>10, <2>1
        <3>4. ASSUME NEW k \in Kinds, Made(k, n)' PROVE Sourced(k, n)
            <4>1. CASE k = "own"
                BY <3>1, <3>3, <3>4, <4>1, SameClaims, SourcedItself DEF Made, SameNode
            <4>2. CASE k \in {"second", "file"}
                BY <3>3, <3>4, <4>2, SameClaims, SourcedItself
            <4> QED BY <1>15, <3>2, <4>1, <4>2
        <3>5. masterhost'[n] # NoHost
            BY <2>1, <3>3, NodeTypes DEF SameNode
        <3>6. Private(n)' => link'[n].phase # "continue" /\ Private(n) /\ replid'[n] = replid[n]
            BY <3>1, <3>3 DEF SameNode, IndInv, PrivateInv
        <3> QED BY <3>1, <3>4, <3>5, <3>6 DEF NodeStep
    <2>2. CASE ~(Open(n) /\ masterhost[n] = r /\ link[n].phase # "wait")
        <3>1. link'[n] = link[n]
            BY <1>8, <2>2
        <3> QED BY <1>10, <2>0, <2>2, <3>1, NotFed
    <2> QED BY <2>1, <2>2
<1> QED BY <1>3, <1>12, <1>19, <1>20, <1>21, Assemble

\* The claims after a write of the master m: earlier ones, and the one about all that m
\* now has.  Every earlier claim under m's ID is about a beginning of what m had.
Grows(m) ==
    /\ masterhost[m] = NoHost /\ backlog[m].exists /\ backlog'[m].exists
    /\ UNCHANGED <<masterhost, replid, replid2, cached, drawn>> /\ offset'[m] = offset[m] + 1
    /\ \A n \in Nodes : link'[n].phase = link[n].phase
    /\ \A n \in Nodes \ {m} : offset'[n] = offset[n] /\ backlog'[n] = backlog[n]
    /\ Below(Claim("own", m), Claim("own", m)')
    /\ \A k \in Kinds, n \in Nodes : Made(k, n)' =>
          \/ Made(k, n) /\ Claim(k, n)' = Claim(k, n)
          \/ Claim(k, n)' = Claim("own", m)'

\* A write keeps the history, since nobody was ahead of the master.
LEMMA ClaimsGrow ==
    ASSUME IndInv, TypeOK', \A n \in Nodes : RoleOK(n)' /\ BacklogOK(n)', NEW m \in Nodes, Grows(m)
    PROVE  HistoryInv' /\ DrawnInv' /\ MasterInv' /\ PrivateInv'
<1> DEFINE old == Claim("own", m)
           new == Claim("own", m)'
<1>0. /\ \A k \in Kinds, n \in Nodes : Made(k, n) => IsClaim(Claim(k, n))
      /\ \A k \in Kinds, n \in Nodes : Made(k, n)' => IsClaim(Claim(k, n)')
    BY ClaimTypes, ClaimTypesNext DEF IndInv
<1>1. Made("own", m) /\ Made("own", m)' /\ "own" \in Kinds
    BY DEF Made, KnowsOffset, Grows, Kinds
<1>2. /\ old.id = replid[m] /\ old.offset = offset[m] /\ new.id = replid[m] /\ new.offset = offset'[m]
      /\ IsClaim(old) /\ IsClaim(new) /\ Below(old, new)
    <2>1. old = [id |-> replid[m], offset |-> offset[m], data |-> data[m]]
        BY ClaimOf
    <2>2. new = [id |-> replid[m], offset |-> offset'[m], data |-> data'[m]]
        BY DEF Claim, Grows
    <2> QED BY <1>0, <1>1, <2>1, <2>2 DEF Grows
<1>3. /\ replid[m][1] = m /\ replid[m][2] <= drawn[m]
      /\ \A k \in Kinds, n \in Nodes : Made(k, n) /\ Claim(k, n).id = replid[m] => Claim(k, n).offset <= offset[m]
    BY DEF IndInv, MasterInv, Grows
<1>4. \A k \in Kinds, n \in Nodes : Made(k, n)' =>
          (Made(k, n) /\ Claim(k, n)' = Claim(k, n)) \/ Claim(k, n)' = new
    BY DEF Grows
<1> HIDE DEF old, new
<1>5. Compatible(old, new) /\ Compatible(new, old) /\ Compatible(new, new)
    <2>1. /\ Len(old.data) \in Nat /\ Len(new.data) \in Nat
          /\ DOMAIN old.data = 1..Len(old.data) /\ DOMAIN new.data = 1..Len(new.data)
        BY <1>2 DEF IsClaim, Datasets
    <2> QED BY <1>2, <2>1 DEF Below, Compatible
<1>6. ASSUME NEW k \in Kinds, NEW n \in Nodes, Made(k, n)
      PROVE  Compatible(Claim(k, n), new) /\ Compatible(new, Claim(k, n))
    <2> DEFINE x == Claim(k, n)
    <2>0. IsClaim(x) /\ Below(x, x) /\ Below(new, new)
        BY <1>0, <1>6, BelowItself
    <2>1. CASE x.id # replid[m]
        BY <1>2, <2>1 DEF Compatible
    <2>2. CASE x.id = replid[m]
        <3>1. Compatible(x, old)
            BY <1>1, <1>6 DEF IndInv, HistoryInv, old
        <3>2. x.offset <= offset[m]
            BY <1>3, <1>6, <2>2
        <3> HIDE DEF x
        <3>3. /\ x.offset - Len(x.data) = old.offset - Len(old.data)
              /\ \A i \in DOMAIN x.data \cap DOMAIN old.data : x.data[i] = old.data[i]
            BY <1>2, <2>2, <3>1 DEF Compatible
        <3>4. /\ Len(x.data) \in Nat /\ Len(old.data) \in Nat /\ x.offset \in Int /\ old.offset \in Int
              /\ DOMAIN x.data = 1..Len(x.data) /\ DOMAIN old.data = 1..Len(old.data)
            BY <1>2, <2>0 DEF IsClaim, Datasets
        <3>5. Len(x.data) <= Len(old.data)
            BY <1>2, <3>2, <3>3, <3>4
        <3>6. \A i \in 1..Len(x.data) : x.data[i] = old.data[i]
            BY <3>3, <3>4, <3>5
        <3>7. Below(x, old)
            BY <1>2, <2>2, <3>3, <3>5, <3>6 DEF Below
        <3>8. Compatible(x, new)
            BY <1>2, <1>5, <2>0, <3>7, BelowCompatible
        <3>9. Compatible(new, x)
            BY <1>2, <1>5, <2>0, <3>7, BelowCompatible
        <3> QED BY <3>8, <3>9 DEF x
    <2> QED BY <2>1, <2>2
<1>7. HistoryInv'
    <2> SUFFICES ASSUME NEW k \in Kinds, NEW l \in Kinds, NEW n \in Nodes, NEW o \in Nodes,
                        Made(k, n)', Made(l, o)'
                 PROVE  Compatible(Claim(k, n)', Claim(l, o)')
        BY DEF HistoryInv, Compatible
    <2>1. CASE Made(k, n) /\ Claim(k, n)' = Claim(k, n) /\ Made(l, o) /\ Claim(l, o)' = Claim(l, o)
        BY <2>1 DEF IndInv, HistoryInv
    <2>2. CASE Made(k, n) /\ Claim(k, n)' = Claim(k, n) /\ Claim(l, o)' = new
        BY <1>6, <2>2
    <2>3. CASE Claim(k, n)' = new /\ Made(l, o) /\ Claim(l, o)' = Claim(l, o)
        BY <1>6, <2>3
    <2>4. CASE Claim(k, n)' = new /\ Claim(l, o)' = new
        BY <1>5, <2>4
    <2> QED BY <1>4, <2>1, <2>2, <2>3, <2>4
<1>8. DrawnInv'
    <2> SUFFICES ASSUME NEW k \in Kinds, NEW n \in Nodes, Made(k, n)'
                 PROVE  Claim(k, n)'.id[2] <= drawn[Claim(k, n)'.id[1]]
        BY DEF DrawnInv, Grows
    <2>1. CASE Made(k, n) /\ Claim(k, n)' = Claim(k, n)
        BY <2>1 DEF IndInv, DrawnInv
    <2>2. CASE Claim(k, n)' = new
        BY <1>2, <1>3, <2>2
    <2> QED BY <1>4, <2>1, <2>2
<1>9. MasterInv'
    <2> SUFFICES ASSUME NEW h \in Nodes, masterhost[h] = NoHost
                 PROVE  /\ replid[h][1] = h /\ replid[h][2] <= drawn[h]
                        /\ \A k \in Kinds, n \in Nodes : Made(k, n)' /\ Claim(k, n)'.id = replid[h] =>
                              backlog'[h].exists /\ Claim(k, n)'.offset <= offset'[h]
        BY DEF MasterInv, Grows
    <2>1. /\ replid[h][1] = h /\ replid[h][2] <= drawn[h]
          /\ \A k \in Kinds, n \in Nodes : Made(k, n) /\ Claim(k, n).id = replid[h] =>
                backlog[h].exists /\ Claim(k, n).offset <= offset[h]
        BY DEF IndInv, MasterInv
    <2>2. offset[h] \in Nat /\ offset'[h] \in {offset[h], offset[h] + 1} /\ (backlog[h].exists => backlog'[h].exists)
        BY NodeTypes DEF Grows
    <2>3. ASSUME NEW k \in Kinds, NEW n \in Nodes, Made(k, n)', Claim(k, n)'.id = replid[h]
          PROVE  backlog'[h].exists /\ Claim(k, n)'.offset <= offset'[h]
        <3>1. CASE Made(k, n) /\ Claim(k, n)' = Claim(k, n)
            <4>1. backlog[h].exists /\ Claim(k, n).offset <= offset[h]
                BY <2>1, <2>3, <3>1
            <4>2. Claim(k, n).offset \in Int
                BY <1>0, <3>1 DEF IsClaim
            <4> QED BY <2>2, <3>1, <4>1, <4>2
        <3>2. CASE Claim(k, n)' = new
            <4>1. h = m
                BY <1>2, <1>3, <2>1, <2>3, <3>2
            <4>2. offset'[h] <= offset'[h]
                BY <2>2
            <4> QED BY <1>2, <3>2, <4>1, <4>2 DEF Grows
        <3> QED BY <1>4, <2>3, <3>1, <3>2
    <2> QED BY <2>1, <2>3
<1>10. PrivateInv'
    <2> SUFFICES ASSUME NEW n \in Nodes, Private(n)'
                 PROVE  /\ link'[n].phase # "continue"
                        /\ \A k \in Kinds, o \in Nodes :
                              Made(k, o)' /\ Claim(k, o)'.id = replid[n] => o = n /\ k \in {"own", "file"}
        BY DEF PrivateInv, Grows
    <2>1. n # m /\ Private(n)
        BY DEF Private, Grows
    <2>2. /\ link[n].phase # "continue"
          /\ \A k \in Kinds, o \in Nodes : Made(k, o) /\ Claim(k, o).id = replid[n] => o = n /\ k \in {"own", "file"}
        BY <2>1 DEF IndInv, PrivateInv
    <2>3. replid[n] # replid[m]
        <3>1. old.id = replid[n] => m = n
            BY <1>1, <2>2 DEF old
        <3> QED BY <1>2, <2>1, <3>1
    <2>4. ASSUME NEW k \in Kinds, NEW o \in Nodes, Made(k, o)', Claim(k, o)'.id = replid[n]
          PROVE  o = n /\ k \in {"own", "file"}
        <3>1. Claim(k, o)' # new
            BY <1>2, <2>3, <2>4
        <3> QED BY <1>4, <2>2, <2>4, <3>1
    <2> QED BY <2>2, <2>4 DEF Grows
<1> QED BY <1>7, <1>8, <1>9, <1>10

\* A master executes a write, and feeds its backlog and its replicas.
LEMMA WriteKeeps ==
    ASSUME IndInv, NEW m \in Nodes, Write(m)
    PROVE  IndInv'
<1> DEFINE w == writes'
<1>0. /\ RoleOK(m) /\ BacklogOK(m) /\ offset[m] \in Nat /\ data[m] \in Datasets /\ TypeOK
      /\ replid2[m] \in {NoId2} \cup [id : Ids, upto : Nat] /\ backlog[m] \in [exists : BOOLEAN, hist : Datasets]
    BY NodeTypes DEF IndInv
<1>1. /\ masterhost[m] = NoHost /\ link[m].phase = "down" /\ cached[m] = NoMaster
      /\ data' = [data EXCEPT ![m] = Append(@, w)]
      /\ UNCHANGED <<masterhost, replid, replid2, cached, rdb, drawn, events>>
    BY <1>0 DEF Write, RoleOK
<1>2. w \in 1..MaxWrites /\ w \in Nat
    BY <1>0, BoundsAssumption DEF Write, TypeOK
<1> HIDE DEF w
<1>3. Append(data[m], w) \in Datasets /\ Len(Append(data[m], w)) = Len(data[m]) + 1 /\ Len(data[m]) \in Nat
    BY <1>0, <1>2, AppendToConcat DEF Datasets
<1>4. data'[m] = Append(data[m], w) /\ (\A n \in Nodes \ {m} : data'[n] = data[n]) /\ data' \in [Nodes -> Datasets]
    BY <1>0, <1>1, <1>3 DEF TypeOK
<1>5. CASE ~backlog[m].exists
    <2>1. UNCHANGED <<offset, backlog, link>>
        BY <1>5 DEF Write
    <2>2. TypeOK'
        BY <1>0, <1>1, <1>2, <1>4, <2>1 DEF TypeOK, w
    <2>3. \A n \in Nodes \ {m} : SameNode(n) /\ SameLink(link'[n], link[n]) /\ (Open(n)' => Open(n))
        BY <1>1, <1>4, <2>1, SameLinkItself DEF SameNode, Open
    <2>4. \A n \in Nodes : ~(Open(n) /\ masterhost[n] = m)
        BY <1>5, OpenFacts
    <2>5. \A n \in Nodes \ {m} : NodeStep(n, m) /\ ConnectionOK(n)'
        BY <2>3, <2>4, Others
    <2>6. RoleOK(m)'
        BY <1>0, <1>1, <1>5, <2>1 DEF RoleOK
    <2>7. BacklogOK(m)'
        <3>1. backlog'[m].hist = <<>> /\ ~backlog'[m].exists /\ data'[m] \in Datasets /\ offset'[m] \in Nat
            BY <1>0, <1>3, <1>4, <1>5, <2>1 DEF BacklogOK
        <3> QED BY <3>1, BacklogEmpty
    <2>8. ASSUME NEW k \in Kinds, Made(k, m)' PROVE Sourced(k, m)
        <3>1. CASE k = "file"
            <4>1. Claim("file", m)' = Claim("file", m) /\ Made("file", m)' = Made("file", m)
                BY <1>1 DEF Claim, Made
            <4> QED BY <2>8, <3>1, <4>1, SourcedItself
        <3>2. CASE k # "file"
            BY <1>1, <1>5, <2>1, <2>8, <3>2 DEF Made, Streaming, KnowsOffset, Kinds
        <3> QED BY <3>1, <3>2
    <2>9. NodeStep(m, m)
        <3>1. offset'[m] >= offset[m]
            BY <1>0, <2>1
        <3>2. Private(m)' => Private(m) /\ link'[m].phase # "continue" /\ replid'[m] = replid[m]
            BY <1>1, <1>5, <2>1 DEF Private
        <3> QED BY <1>1, <1>5, <2>6, <2>7, <2>8, <3>1, <3>2 DEF NodeStep
    <2>10. ConnectionOK(m)'
        BY <1>1, <2>1, ConnectionShut DEF Open
    <2> QED BY <1>1, <2>2, <2>5, <2>9, <2>10, Assemble
<1>6. CASE backlog[m].exists
    <2>1. offset' = [offset EXCEPT ![m] = @ + 1] /\ link' = FeedSlaves(m, w, link)
        BY <1>6 DEF Write, w
    <2>2. PICK b \in Trims(Append(backlog[m].hist, w)) : backlog' = [backlog EXCEPT ![m] = b]
        BY <1>6 DEF Write, w
    <2>3. /\ link'[m] = link[m] /\ link' \in [Nodes -> Links]
          /\ \A n \in Nodes \ {m} :
                IF Open(n) /\ masterhost[n] = m /\ link[n].phase # "wait"
                THEN /\ link'[n].phase = link[n].phase /\ link'[n].closed = link[n].closed
                     /\ link'[n].id = link[n].id /\ link'[n].queue = Append(link[n].queue, w)
                     /\ link[n].phase = "full" => link'[n].data = link[n].data /\ link'[n].offset = link[n].offset
                ELSE link'[n] = link[n]
        <3>1. link \in [Nodes -> Links]
            BY <1>0 DEF TypeOK
        <3> QED BY <1>2, <2>1, <3>1, Fed
    <2>4. /\ offset'[m] = offset[m] + 1 /\ backlog'[m] = b /\ replid2'[m] = replid2[m]
          /\ \A n \in Nodes \ {m} : SameNode(n)
        BY <1>0, <1>1, <1>4, <2>1, <2>2 DEF TypeOK, SameNode
    <2>5. /\ BacklogOK(m)' /\ b \in [exists : BOOLEAN, hist : Datasets] /\ b.exists = TRUE
          /\ replid2[m] # NoId2 => Claim("second", m)' = Claim("second", m)
        BY <1>0, <1>2, <1>4, <1>6, <2>2, <2>4, BacklogGrows
    <2>6. TypeOK'
        <3>1. offset' \in [Nodes -> Nat]
            BY <1>0, <2>1 DEF TypeOK
        <3>2. backlog' \in [Nodes -> [exists : BOOLEAN, hist : Datasets]]
            BY <1>0, <2>2, <2>5 DEF TypeOK
        <3> QED BY <1>0, <1>1, <1>2, <1>4, <2>3, <3>1, <3>2 DEF TypeOK, w
    <2>7. RoleOK(m)'
        BY <1>0, <1>1, <1>6, <2>3, <2>4, <2>5 DEF RoleOK, KnowsOffset
    <2>8. ConnectionOK(m)'
        BY <1>1, <2>3, ConnectionShut DEF Open
    <2>9. \A n \in Nodes : link'[n].phase = link[n].phase
        BY <2>3
    <2>10. ASSUME NEW n \in Nodes \ {m}
           PROVE  /\ RoleOK(n)' /\ BacklogOK(n)' /\ ConnectionOK(n)'
                  /\ \A k \in Kinds : Made(k, n)' => \/ Made(k, n) /\ Claim(k, n)' = Claim(k, n)
                                                     \/ Claim(k, n)' = Claim("own", m)'
        <3>0. SameNode(n) /\ KnowsOffset(n)' = KnowsOffset(n) /\ backlog'[m].exists
            BY <2>4, <2>5, <2>9 DEF KnowsOffset, SameNode
        <3>1. ASSUME NEW k \in Kinds, k # "stream", Made(k, n)'
              PROVE  Made(k, n) /\ Claim(k, n)' = Claim(k, n)
            <4>1. CASE k = "own"
                BY <3>0, <3>1, <4>1, SameClaims DEF Made, SameNode
            <4>2. CASE k \in {"second", "file"}
                BY <3>0, <3>1, <4>2, SameClaims
            <4> QED BY <3>1, <4>1, <4>2 DEF Kinds
        <3>2. CASE Open(n) /\ masterhost[n] = m /\ link[n].phase # "wait"
            <4>1. Claim("stream", n)' = Claim("own", m)' /\ RoleOK(n)' /\ BacklogOK(n)' /\ ConnectionOK(n)'
                BY <1>1, <1>2, <1>4, <2>3, <2>4, <3>0, <3>2, FedSlave
            <4> QED BY <3>1, <4>1
        <3>3. CASE ~(Open(n) /\ masterhost[n] = m /\ link[n].phase # "wait")
            <4>1. link'[n] = link[n]
                BY <2>3, <3>3
            <4>2. NodeStep(n, m) /\ ConnectionOK(n)'
                BY <2>4, <3>0, <3>3, <4>1, NotFed
            <4>3. Made("stream", n)' => Made("stream", n) /\ Claim("stream", n)' = Claim("stream", n)
                <5>1. Made("stream", n)' = Made("stream", n) /\ (Made("stream", n) => Streaming(n))
                    BY <4>1 DEF Made, Streaming
                <5> QED BY <3>0, <4>1, <5>1, NodeSame, SameLinkItself
            <4> QED BY <3>1, <4>2, <4>3 DEF NodeStep
        <3> QED BY <3>2, <3>3
    <2>11. ASSUME NEW k \in Kinds, Made(k, m)'
           PROVE  \/ Made(k, m) /\ Claim(k, m)' = Claim(k, m)
                  \/ Claim(k, m)' = Claim("own", m)'
        <3>1. CASE k = "own"
            BY <3>1
        <3>2. CASE k = "second"
            <4>1. Made("second", m) /\ replid2[m] # NoId2
                BY <1>6, <2>4, <2>11, <3>2 DEF Made
            <4> QED BY <2>5, <3>2, <4>1
        <3>3. CASE k = "file"
            <4>1. Claim("file", m)' = Claim("file", m) /\ Made("file", m)' = Made("file", m)
                BY <1>1 DEF Claim, Made
            <4> QED BY <2>11, <3>3, <4>1
        <3>4. CASE k = "stream"
            BY <1>1, <2>3, <2>11, <3>4 DEF Made, Streaming
        <3> QED BY <3>1, <3>2, <3>3, <3>4 DEF Kinds
    <2>12. Below(Claim("own", m), Claim("own", m)')
        <3> DEFINE q == <<w>>
        <3>1. q \in Datasets /\ Len(q) = 1 /\ Append(data[m], w) = data[m] \o q
            <4>1. /\ <<>> \in Datasets /\ Append(<<>>, w) = q /\ data[m] \o <<>> = data[m] /\ Datasets = Seq(1..MaxWrites)
                BY <1>0 DEF Datasets
            <4>2. data[m] \o Append(<<>>, w) = Append(data[m] \o <<>>, w)
                BY <1>0, <1>2, <4>1, AppendToConcat
            <4>3. q \in Datasets /\ Len(q) = 1
                BY <1>2, <4>1
            <4> QED BY <4>1, <4>2, <4>3
        <3>2. Claim("own", m) = [id |-> replid[m], offset |-> offset[m], data |-> data[m]]
            BY ClaimOf
        <3> HIDE DEF q
        <3>3. Claim("own", m)' = [id |-> replid[m], offset |-> offset[m] + Len(q), data |-> data[m] \o q]
            BY <1>1, <1>4, <2>4, <3>1 DEF Claim
        <3> QED BY <1>0, <3>1, <3>2, <3>3, BeginningOf
    <2>13. Grows(m)
        <3>1. \A n \in Nodes \ {m} : offset'[n] = offset[n] /\ backlog'[n] = backlog[n]
            BY <2>4 DEF SameNode
        <3>2. \A k \in Kinds, n \in Nodes : Made(k, n)' => \/ Made(k, n) /\ Claim(k, n)' = Claim(k, n)
                                                          \/ Claim(k, n)' = Claim("own", m)'
            BY <2>10, <2>11
        <3>3. backlog'[m].exists
            BY <2>4, <2>5
        <3> QED BY <1>1, <1>6, <2>4, <2>9, <2>12, <3>1, <3>2, <3>3 DEF Grows
    <2>14. \A n \in Nodes : RoleOK(n)' /\ BacklogOK(n)' /\ ConnectionOK(n)'
        BY <2>5, <2>7, <2>8, <2>10
    <2>15. HistoryInv' /\ DrawnInv' /\ MasterInv' /\ PrivateInv'
        BY <2>6, <2>13, <2>14, ClaimsGrow
    <2> QED BY <2>6, <2>14, <2>15 DEF IndInv
<1> QED BY <1>5, <1>6

-----------------------------------------------------------------------------
(* The theorems                                                            *)

\* The invariant holds initially.
LEMMA InitInd == Init => IndInv
<1> SUFFICES ASSUME Init PROVE IndInv
    OBVIOUS
<1>0. <<>> \in Datasets /\ Len(<<>>) = 0 /\ Down \in Links /\ Down.phase = "down" /\ NoBacklog.exists = FALSE
      /\ NoBacklog.hist = <<>> /\ NoBacklog \in [exists : BOOLEAN, hist : Datasets] /\ 1 \in Nat /\ 0 \in Nat
    BY DEF Datasets, Links, Down, NoBacklog
<1>1. TypeOK
    <2>1. masterhost \in [Nodes -> Nodes \cup {NoHost}]
        BY FirstAssumption DEF Init
    <2>2. replid \in [Nodes -> Ids]
        BY DEF Init, Ids
    <2>3. rdb \in [Nodes -> [data : Datasets, id : Ids \cup {NoId}, offset : Nat]]
        BY <1>0 DEF Init
    <2>4. /\ data \in [Nodes -> Datasets] /\ replid2 \in [Nodes -> {NoId2} \cup [id : Ids, upto : Nat]]
          /\ offset \in [Nodes -> Nat] /\ backlog \in [Nodes -> [exists : BOOLEAN, hist : Datasets]]
          /\ cached \in [Nodes -> {NoMaster} \cup [id : Ids, offset : Nat]] /\ link \in [Nodes -> Links]
          /\ drawn \in [Nodes -> Nat] /\ {writes, events} \subseteq Nat
        BY <1>0 DEF Init
    <2> QED BY <2>1, <2>2, <2>3, <2>4 DEF TypeOK
<1>2. ASSUME NEW n \in Nodes
      PROVE  /\ masterhost[n] # n /\ data[n] = <<>> /\ replid[n] = <<n, 1>> /\ offset[n] = 0 /\ drawn[n] = 1
             /\ replid2[n] = NoId2 /\ backlog[n] = NoBacklog /\ cached[n] = NoMaster /\ link[n] = Down
             /\ rdb[n].id = NoId
    BY HostAssumption DEF Init
<1>3. \A n \in Nodes : ~KnowsOffset(n) /\ ~Streaming(n) /\ ~Open(n)
    BY <1>0, <1>2 DEF KnowsOffset, Streaming, Open
<1>4. \A k \in Kinds, n \in Nodes : ~Made(k, n)
    BY <1>0, <1>2, <1>3 DEF Made, Kinds
<1>5. \A n \in Nodes : RoleOK(n)
    BY <1>0, <1>2 DEF RoleOK
<1>6. \A n \in Nodes : BacklogOK(n)
    <2> TAKE n \in Nodes
    <2>1. backlog[n].hist = <<>> /\ ~backlog[n].exists /\ Len(data[n]) = 0 /\ Len(backlog[n].hist) = 0 /\ offset[n] = 0
        BY <1>0, <1>2
    <2> QED BY <2>1 DEF BacklogOK
<1>7. \A n \in Nodes : ConnectionOK(n)
    BY <1>3, OpenConnections
<1>8. HistoryInv /\ DrawnInv
    BY <1>4 DEF HistoryInv, DrawnInv
<1>9. MasterInv
    <2>1. \A n \in Nodes : replid[n][1] = n /\ replid[n][2] <= drawn[n]
        BY <1>2
    <2> QED BY <1>4, <2>1 DEF MasterInv
<1>10. PrivateInv
    BY <1>0, <1>2, <1>4 DEF PrivateInv
<1> QED BY <1>1, <1>5, <1>6, <1>7, <1>8, <1>9, <1>10 DEF IndInv

\* It holds after a step that changes nothing.
LEMMA StutterInd == IndInv /\ UNCHANGED vars => IndInv'
<1> SUFFICES ASSUME IndInv, UNCHANGED vars PROVE IndInv'
    OBVIOUS
<1>1. /\ UNCHANGED <<masterhost, data, replid, replid2, offset, backlog, cached, rdb>> /\ link' = link
      /\ drawn' = drawn /\ writes' = writes /\ events' = events
    BY DEF vars
<1>2. TypeOK'
    BY <1>1 DEF IndInv, TypeOK
<1>3. First \in Nodes
    BY FirstAssumption
<1>4. \A n \in Nodes : SameNode(n) /\ SameLink(link'[n], link[n]) /\ Open(n)' = Open(n)
    BY <1>1, SameLinkItself DEF SameNode, Open
<1>5. ASSUME NEW n \in Nodes PROVE NodeStep(n, First) /\ ConnectionOK(n)'
    <2>1. \A m \in Nodes : Open(n) /\ m = masterhost[n] => Claim("own", m)' = Claim("own", m) /\ backlog'[m].exists
        BY <1>1, <1>4, OpenFacts, SameClaims
    <2> QED BY <1>4, <2>1, NodeSame, ConnectionSame
<1> QED BY <1>1, <1>2, <1>3, <1>5, Assemble

\* Every action keeps it.
LEMMA NextInd == IndInv /\ [Next]_vars => IndInv'
<1> SUFFICES ASSUME IndInv, [Next]_vars PROVE IndInv'
    OBVIOUS
<1>1. CASE UNCHANGED vars
    BY <1>1, StutterInd
<1>2. ASSUME NEW n \in Nodes,
             \/ Write(n) \/ Apply(n) \/ Ask(n) \/ Refuse(n) \/ AcceptPartial(n) \/ AcceptFull(n)
             \/ StartBgsave(n) \/ Continue(n) \/ Load(n) \/ LoadFails(n) \/ LinkClosed(n) \/ LinkBroken(n)
             \/ UnsetMaster(n) \/ Expire(n) \/ Save(n)
      PROVE  IndInv'
    BY <1>2, WriteKeeps, ApplyKeeps, AskKeeps, RefuseKeeps, AcceptPartialKeeps, AcceptFullKeeps,
       StartBgsaveKeeps, ContinueKeeps, LoadKeeps, LoadFailsKeeps, LinkClosedKeeps, LinkBrokenKeeps,
       UnsetMasterKeeps, ExpireKeeps, SaveKeeps
<1>3. ASSUME NEW n \in Nodes, NEW h \in Nodes, SetMaster(n, h) PROVE IndInv'
    BY <1>3, SetMasterKeeps
<1>4. ASSUME NEW n \in Nodes, NEW host \in {NoHost, masterhost[n]}, Restart(n, host) PROVE IndInv'
    BY <1>4, RestartKeeps
<1> QED BY <1>1, <1>2, <1>3, <1>4 DEF Next

\* The invariant of all handlers of replication.c taken together.
THEOREM IndInvHolds == Spec => []IndInv
BY InitInd, NextInd, PTL DEF Spec

\* Every variable has its type.
THEOREM TypeCorrect == Spec => []TypeOK
<1>1. IndInv => TypeOK
    BY DEF IndInv
<1> QED BY <1>1, IndInvHolds, PTL

\* What the assertions of replication.c rely on: no replicas without a backlog, a master
\* or a cached one and never both, and either stands for the server's own ID and offset.
THEOREM CoherentTheorem == Spec => []Coherent
<1>1. IndInv => Coherent
    <2> SUFFICES ASSUME IndInv, NEW n \in Nodes
                 PROVE  /\ Slaves(n) # {} => backlog[n].exists
                        /\ link[n].phase = "online" => /\ cached[n] = NoMaster /\ backlog[n].exists
                                                       /\ link[n].id = replid[n]
                        /\ cached[n] # NoMaster => /\ masterhost[n] # NoHost
                                                   /\ cached[n] = [id |-> replid[n], offset |-> offset[n]]
        BY DEF Coherent
    <2>1. ASSUME NEW r \in Slaves(n) PROVE backlog[n].exists
        <3>1. r \in Nodes /\ masterhost[r] = n /\ Open(r)
            BY <2>1 DEF Slaves, Open
        <3> QED BY <3>1, OpenFacts
    <2>2. RoleOK(n)
        BY DEF IndInv
    <2> QED BY <2>1, <2>2 DEF RoleOK
<1> QED BY <1>1, IndInvHolds, PTL

\* A connected replica that has executed what is in its connection has its master's
\* dataset, whether it went on with +CONTINUE or from a payload.
THEOREM InSyncTheorem == Spec => []InSync
<1>1. IndInv => InSync
    <2> SUFFICES ASSUME IndInv, NEW r \in Nodes,
                        link[r].phase \in {"continue", "online", "full"}, ~link[r].closed
                 PROVE  (IF link[r].phase = "full" THEN link[r].data ELSE data[r]) \o link[r].queue
                            = data[masterhost[r]]
        BY DEF InSync
    <2>1. Claim("stream", r) = Claim("own", masterhost[r])
        BY OpenFacts DEF Open
    <2>2. Claim("own", masterhost[r]).data = data[masterhost[r]]
        BY DEF Claim
    <2>3. CASE link[r].phase = "full"
        <3>1. Claim("stream", r).data = link[r].data \o link[r].queue
            BY <2>3 DEF Claim
        <3> QED BY <2>1, <2>2, <2>3, <3>1
    <2>4. CASE link[r].phase # "full"
        <3>1. Claim("stream", r).data = data[r] \o link[r].queue
            BY <2>4 DEF Claim
        <3> QED BY <2>1, <2>2, <2>4, <3>1
    <2> QED BY <2>3, <2>4
<1> QED BY <1>1, IndInvHolds, PTL

\* A replication ID and an offset name one dataset: across failovers, restarts and
\* REPLICAOF, what a node has at an offset of an ID is a beginning of what any other
\* node or file has at a later offset of that ID.
THEOREM OneHistoryTheorem == Spec => []OneHistory
<1>1. IndInv => OneHistory
    <2> SUFFICES ASSUME IndInv, NEW x \in Named, NEW y \in Named, x.id = y.id, x.offset <= y.offset
                 PROVE  IsPrefix(x.data, y.data)
        BY DEF OneHistory
    <2>1. ASSUME NEW v \in Named PROVE \E k \in Kinds, n \in Nodes : Made(k, n) /\ v = Claim(k, n)
        <3>1. CASE v \in {[id |-> replid[n], offset |-> offset[n], data |-> data[n]] : n \in {k \in Nodes : KnowsOffset(k)}}
            <4>1. PICK n \in Nodes : KnowsOffset(n) /\ v = [id |-> replid[n], offset |-> offset[n], data |-> data[n]]
                BY <3>1
            <4>2. Made("own", n) /\ v = Claim("own", n) /\ "own" \in Kinds
                BY <4>1, MadeOf, ClaimOf DEF Kinds
            <4> QED BY <4>2
        <3>2. CASE v \in {rdb[n] : n \in {k \in Nodes : rdb[k].id # NoId}}
            <4>1. PICK n \in Nodes : rdb[n].id # NoId /\ v = rdb[n]
                BY <3>2
            <4>2. Made("file", n) /\ v = Claim("file", n) /\ "file" \in Kinds
                BY <4>1, MadeOf, ClaimOf DEF Kinds
            <4> QED BY <4>2
        <3> QED BY <2>1, <3>1, <3>2 DEF Named
    <2>2. Compatible(x, y) /\ IsClaim(x) /\ IsClaim(y)
        <3>1. PICK k \in Kinds, n \in Nodes : Made(k, n) /\ x = Claim(k, n)
            BY <2>1
        <3>2. PICK l \in Kinds, m \in Nodes : Made(l, m) /\ y = Claim(l, m)
            BY <2>1
        <3> QED BY <3>1, <3>2, ClaimTypes DEF IndInv, HistoryInv
    <2>3. /\ Len(x.data) \in Nat /\ Len(y.data) \in Nat /\ x.offset \in Int /\ y.offset \in Int
          /\ DOMAIN x.data = 1..Len(x.data) /\ DOMAIN y.data = 1..Len(y.data)
          /\ x.data \in Datasets /\ y.data \in Datasets
        BY <2>2 DEF IsClaim, Datasets
    <2>4. Len(x.data) <= Len(y.data)
        BY <2>2, <2>3 DEF Compatible
    <2>5. \A i \in 1..Len(x.data) : x.data[i] = y.data[i]
        BY <2>2, <2>3, <2>4 DEF Compatible
    <2>6. SubSeq(x.data, 1, Len(x.data)) = SubSeq(y.data, 1, Len(x.data))
        <3> DEFINE s == SubSeq(x.data, 1, Len(x.data))
                   t == SubSeq(y.data, 1, Len(x.data))
                   D == 1..MaxWrites
        <3>1. Len(x.data) <= Len(x.data)
            BY <2>3
        <3>2. /\ s \in Datasets /\ Len(s) = Len(x.data) /\ \A i \in 1..Len(x.data) : s[i] = x.data[i]
              /\ t \in Datasets /\ Len(t) = Len(x.data) /\ \A i \in 1..Len(x.data) : t[i] = y.data[i]
            BY <2>3, <2>4, <3>1, PrefixOf
        <3>3. Datasets = Seq(D)
            BY DEF Datasets
        <3> HIDE DEF s, t, D
        <3>4. s = t
            BY <2>5, <3>2, <3>3, SeqEqual
        <3> QED BY <3>4 DEF s, t
    <2> QED BY <2>3, <2>4, <2>6 DEF IsPrefix
<1> QED BY <1>1, IndInvHolds, PTL
=============================================================================
