------------------------ MODULE ClusterElectionProofs ------------------------
(***************************************************************************)
(* Proofs about ClusterElection, for any masters, replicas, names and      *)
(* bounds: the votes of a majority elect, and nobody owns slots unelected. *)
(***************************************************************************)
EXTENDS ClusterElection, FiniteSetTheorems, TLAPS

(* Operators of the model *)

LEMMA LaterFact ==
    ASSUME NEW x \in Nat, NEW y \in Nat
    PROVE  /\ Later(x, y) \in Nat /\ x <= Later(x, y) /\ y <= Later(x, y)
           /\ x >= y => Later(x, y) = x
           /\ y >= x => Later(x, y) = y
BY DEF Later

\* A step is a step of one node, on one packet.
LEMMA StepCases ==
    ASSUME [Next]_vars
    PROVE  \/ \E n \in Nodes : BeforeSleep(n)
           \/ \E n \in Nodes : Crash(n)
           \/ \E r \in Replicas : Schedule(r)
           \/ \E r \in Replicas : Win(r)
           \/ \E r \in Replicas, force \in BOOLEAN : Ask(r, force)
           \/ \E q \in reqs : Deny(q.to, q)
           \/ \E q \in reqs, early \in BOOLEAN : Vote(q.to, q, early)
           \/ \E a \in acks : ReceiveAck(a.to, a)
           \/ \E a, b \in Nodes : Heartbeat(a, b)
           \/ \E a, b \in Nodes : Update(a, b)
           \/ UNCHANGED vars
BY ForcesAssumption DEF Next

(* Types *)

LEMMA ImageType ==
    ASSUME TypeOK, NEW n \in Nodes
    PROVE  Image(n) \in [epoch : Nat, vote : Nat, owner : Owners]
BY DEF TypeOK, Image

LEMMA TypeInit == Init => TypeOK
BY OldAssumption DEF Init, TypeOK, Owners, Nodes, NoElection

LEMMA TypeStep == TypeOK /\ [Next]_vars => TypeOK'
<1> SUFFICES ASSUME TypeOK, [Next]_vars PROVE TypeOK'
    OBVIOUS
<1>1. ASSUME NEW n \in Nodes, BeforeSleep(n) PROVE TypeOK'
    BY <1>1, ImageType DEF TypeOK, BeforeSleep
<1>2. ASSUME NEW n \in Nodes, Crash(n) PROVE TypeOK'
    <2>1. disk[n].epoch \in Nat /\ disk[n].vote \in Nat /\ disk[n].owner \in Owners
          /\ disk[n].owner.epoch \in Nat
        BY DEF TypeOK, Owners
    <2>2. Later(disk[n].epoch, disk[n].owner.epoch) \in Nat
        BY <2>1, LaterFact
    <2>3. forgotten' \subseteq Nat
        BY <1>2 DEF TypeOK, Crash, Acks
    <2>4. auth' \in [Replicas -> [phase : {"none", "planned", "sent"}, count : Nat, epoch : Nat]]
          /\ counted' \in [Replicas -> SUBSET Masters] /\ stale' \in [Replicas -> BOOLEAN]
        <3>1. CASE n \in Replicas
            <4>1. NoElection \in [phase : {"none", "planned", "sent"}, count : Nat, epoch : Nat]
                BY DEF NoElection
            <4> QED BY <1>2, <3>1, <4>1 DEF TypeOK, Crash
        <3>2. CASE n \notin Replicas
            BY <1>2, <3>2 DEF TypeOK, Crash
        <3> QED BY <3>1, <3>2
    <2> QED BY <1>2, <2>1, <2>2, <2>3, <2>4 DEF TypeOK, Crash, VarsLine
<1>3. ASSUME NEW r \in Replicas, Schedule(r) PROVE TypeOK'
    BY <1>3 DEF TypeOK, Schedule, saved
<1>4. ASSUME NEW r \in Replicas, Win(r) PROVE TypeOK'
    <2>1. r \in Nodes /\ [node |-> r, epoch |-> auth[r].epoch] \in Owners
        BY DEF TypeOK, Owners, Nodes
    <2>2. [Image(r) EXCEPT !.owner = owner'[r]] \in [epoch : Nat, vote : Nat, owner : Owners]
        BY <1>4, <2>1, ImageType DEF Win, TypeOK
    <2>3. [node |-> r, epoch |-> auth[r].epoch, stale |-> stale[r], voters |-> counted[r]]
            \in [node : Replicas, epoch : Nat, stale : BOOLEAN, voters : SUBSET Masters]
        BY DEF TypeOK
    <2> QED BY <1>4, <2>1, <2>2, <2>3 DEF TypeOK, Win
<1>5. ASSUME NEW r \in Replicas, NEW force \in BOOLEAN, Ask(r, force) PROVE TypeOK'
    <2>1. r \in Nodes /\ currentEpoch[r] + 1 \in Nat /\ owner[r].epoch \in Nat
        BY DEF TypeOK, Nodes, Owners
    <2>2. reqs' \subseteq Requests
        BY <1>5, <2>1 DEF TypeOK, Ask, Requests
    <2> QED BY <1>5, <2>1, <2>2 DEF TypeOK, Ask, saved, history
<1>6. ASSUME NEW q \in reqs, Deny(q.to, q) PROVE TypeOK'
    <2>1. q.to \in Nodes /\ q.epoch \in Nat
        BY DEF TypeOK, Requests, Nodes
    <2>2. Later(currentEpoch[q.to], q.epoch) \in Nat
        BY <2>1, LaterFact DEF TypeOK
    <2> QED BY <1>6, <2>1, <2>2 DEF TypeOK, Deny, saved, history
<1>7. ASSUME NEW q \in reqs, NEW early \in BOOLEAN, Vote(q.to, q, early) PROVE TypeOK'
    <2>1. q.to \in Nodes /\ q.epoch \in Nat /\ q.to \in Masters /\ q.from \in Replicas
        BY DEF TypeOK, Requests, Nodes
    <2>2. Later(currentEpoch[q.to], q.epoch) \in Nat
        BY <2>1, LaterFact DEF TypeOK
    <2>3. VoteOf(q.to, q.from, q.epoch) \in Acks
        BY <2>1 DEF VoteOf, Acks
    <2>4. currentEpoch' \in [Nodes -> Nat] /\ lastVoteEpoch' \in [Nodes -> Nat]
          /\ currentEpoch'[q.to] \in Nat /\ lastVoteEpoch'[q.to] \in Nat
        BY <1>7, <2>1, <2>2 DEF TypeOK, Vote
    <2>5. disk' \in [Nodes -> [epoch : Nat, vote : Nat, owner : Owners]]
        BY <1>7, <2>1, <2>4 DEF TypeOK, Vote
    <2> QED BY <1>7, <2>1, <2>3, <2>4, <2>5 DEF TypeOK, Vote
<1>8. ASSUME NEW a \in acks, ReceiveAck(a.to, a) PROVE TypeOK'
    <2>1. a.to \in Nodes /\ a.to \in Replicas /\ a.epoch \in Nat /\ a.from \in Masters
        BY DEF TypeOK, Acks, Nodes
    <2>2. Later(currentEpoch[a.to], a.epoch) \in Nat
        BY <2>1, LaterFact DEF TypeOK
    <2>3. CASE Counts(a.to, a)
        <3>1. stale' \in [Replicas -> BOOLEAN]
            <4> DEFINE late == stale[a.to] \/ auth[a.to].phase # "sent" \/ a.epoch # auth[a.to].epoch
            <4>1. stale' = [stale EXCEPT ![a.to] = late] /\ late \in BOOLEAN
                BY <1>8, <2>3 DEF ReceiveAck
            <4>2. stale \in [Replicas -> BOOLEAN]
                BY DEF TypeOK
            <4> HIDE DEF late
            <4> QED BY <4>1, <4>2
        <3>2. auth' \in [Replicas -> [phase : {"none", "planned", "sent"}, count : Nat, epoch : Nat]]
            <4>1. auth' = [auth EXCEPT ![a.to].count = @ + 1]
                BY <1>8, <2>3 DEF ReceiveAck
            <4> QED BY <4>1, <2>1 DEF TypeOK
        <3>4. counted' \in [Replicas -> SUBSET Masters]
            BY <1>8, <2>1, <2>3 DEF TypeOK, ReceiveAck
        <3>3. currentEpoch' \in [Nodes -> Nat] /\ acks' \subseteq Acks
            BY <1>8, <2>1, <2>2 DEF TypeOK, ReceiveAck
        <3> QED BY <1>8, <3>1, <3>2, <3>3, <3>4 DEF TypeOK, ReceiveAck, saved
    <2>4. CASE ~Counts(a.to, a)
        <3>1. currentEpoch' \in [Nodes -> Nat] /\ acks' \subseteq Acks
            BY <1>8, <2>1, <2>2 DEF TypeOK, ReceiveAck
        <3>2. UNCHANGED <<auth, counted, stale>>
            BY <1>8, <2>4 DEF ReceiveAck
        <3> QED BY <1>8, <3>1, <3>2 DEF TypeOK, ReceiveAck, saved
    <2> QED BY <2>3, <2>4
<1>9. ASSUME NEW a \in Nodes, NEW b \in Nodes, Heartbeat(a, b) PROVE TypeOK'
    <2> DEFINE epoch == Later(currentEpoch[b], currentEpoch[a])
    <2>0. currentEpoch[a] \in Nat /\ currentEpoch[b] \in Nat
        BY DEF TypeOK
    <2>1. epoch \in Nat /\ epoch + 1 \in Nat
        BY <2>0 DEF Later
    <2>2. Collides(a, b) => [node |-> b, epoch |-> epoch + 1] \in Owners
        BY <2>1 DEF Collides, TypeOK, Owners
    <2> HIDE DEF epoch
    <2>3. owner' \in [Nodes -> Owners] /\ currentEpoch' \in [Nodes -> Nat]
        BY <1>9, <2>1, <2>2 DEF TypeOK, Heartbeat, Claim, epoch
    <2>4. disk' \in [Nodes -> [epoch : Nat, vote : Nat, owner : Owners]]
        BY <1>9, <2>1, <2>3 DEF TypeOK, Heartbeat, epoch
    <2>5. todo' \in [Nodes -> BOOLEAN]
        BY <1>9 DEF TypeOK, Heartbeat
    <2> QED BY <1>9, <2>3, <2>4, <2>5 DEF TypeOK, Heartbeat
<1>10. ASSUME NEW a \in Nodes, NEW b \in Nodes, Update(a, b) PROVE TypeOK'
    <2>1. Later(currentEpoch[b], currentEpoch[a]) \in Nat
        BY LaterFact DEF TypeOK
    <2> QED BY <1>10, <2>1 DEF TypeOK, Update, history
<1>11. CASE UNCHANGED vars
    BY <1>11 DEF TypeOK, vars
<1> QED BY <1>1, <1>2, <1>3, <1>4, <1>5, <1>6, <1>7, <1>8, <1>9, <1>10, <1>11, StepCases

(* Epochs *)

LEMMA EpochStep == TypeOK /\ EpochInv /\ [Next]_vars => EpochInv'
<1> SUFFICES ASSUME TypeOK, EpochInv, [Next]_vars PROVE EpochInv'
    OBVIOUS
<1>a. \A n \in Nodes : currentEpoch[n] \in Nat /\ lastVoteEpoch[n] \in Nat /\ disk[n].epoch \in Nat
          /\ disk[n].vote \in Nat /\ disk[n].owner.epoch \in Nat
    BY DEF TypeOK, Owners
<1>b. \A r \in Replicas : r \in Nodes /\ auth[r].epoch \in Nat
    BY DEF TypeOK, Nodes
<1>1. ASSUME NEW n \in Nodes, BeforeSleep(n) PROVE EpochInv'
    BY <1>1, <1>a DEF TypeOK, EpochInv, BeforeSleep, Image
<1>2. ASSUME NEW n \in Nodes, Crash(n) PROVE EpochInv'
    <2> DEFINE e == Later(disk[n].epoch, disk[n].owner.epoch)
    <2>1. e \in Nat /\ e >= disk[n].epoch
        BY <1>a, LaterFact
    <2>2. currentEpoch' = [currentEpoch EXCEPT ![n] = e]
        BY <1>2 DEF Crash, VarsLine
    <2> HIDE DEF e
    <2>3. ASSUME NEW k \in Nodes
          PROVE  /\ currentEpoch'[k] >= 1 /\ disk'[k].epoch >= 1
                 /\ lastVoteEpoch'[k] <= currentEpoch'[k] /\ disk'[k].vote <= disk'[k].epoch
        BY <1>2, <1>a, <2>1, <2>2 DEF TypeOK, EpochInv, Crash, VarsLine
    <2>4. ASSUME NEW r \in Replicas
          PROVE  auth'[r].epoch <= currentEpoch'[r] /\ (auth'[r].phase = "sent" => auth'[r].epoch >= 2)
        <3>1. CASE r = n
            <4>1. auth'[r] = NoElection /\ currentEpoch'[r] = e
                BY <1>2, <1>b, <2>2, <3>1 DEF TypeOK, Crash, VarsLine
            <4> QED BY <4>1, <2>1 DEF NoElection
        <3>2. CASE r # n
            <4>1. auth'[r] = auth[r] /\ currentEpoch'[r] = currentEpoch[r]
                BY <1>2, <1>b, <2>2, <3>2 DEF TypeOK, Crash, VarsLine
            <4> QED BY <4>1 DEF EpochInv
        <3> QED BY <3>1, <3>2
    <2> QED BY <1>2, <2>3, <2>4 DEF EpochInv, Crash, VarsLine
<1>3. ASSUME NEW r \in Replicas, Schedule(r) PROVE EpochInv'
    BY <1>3, <1>a, <1>b DEF TypeOK, EpochInv, Schedule, saved
<1>4. ASSUME NEW r \in Replicas, Win(r) PROVE EpochInv'
    <2>1. \A w \in won' : w.epoch >= 2
        BY <1>4 DEF EpochInv, Win, Elected
    <2>2. disk'[r].epoch = currentEpoch[r] /\ disk'[r].vote = lastVoteEpoch[r]
        BY <1>4, <1>b DEF TypeOK, Win, Image
    <2>3. \A k \in Nodes : k # r => disk'[k] = disk[k]
        BY <1>4 DEF TypeOK, Win
    <2> QED BY <1>4, <1>a, <1>b, <2>1, <2>2, <2>3 DEF EpochInv, Win
<1>5. ASSUME NEW r \in Replicas, NEW force \in BOOLEAN, Ask(r, force) PROVE EpochInv'
    BY <1>5, <1>a, <1>b DEF TypeOK, EpochInv, Ask, saved, history
<1>6. ASSUME NEW q \in reqs, Deny(q.to, q) PROVE EpochInv'
    <2>1. q.to \in Nodes /\ q.epoch \in Nat
        BY DEF TypeOK, Requests, Nodes
    <2>2. Later(currentEpoch[q.to], q.epoch) \in Nat /\ currentEpoch[q.to] <= Later(currentEpoch[q.to], q.epoch)
        BY <2>1, <1>a, LaterFact
    <2> QED BY <1>6, <1>a, <1>b, <2>1, <2>2 DEF TypeOK, EpochInv, Deny, saved, history
<1>7. ASSUME NEW q \in reqs, NEW early \in BOOLEAN, Vote(q.to, q, early) PROVE EpochInv'
    <2> DEFINE e == Later(currentEpoch[q.to], q.epoch)
    <2>1. q.to \in Nodes /\ q.epoch \in Nat
        BY DEF TypeOK, Requests, Nodes
    <2>2. e \in Nat /\ currentEpoch[q.to] <= e
        BY <2>1, <1>a, LaterFact
    <2>3. /\ currentEpoch' = [currentEpoch EXCEPT ![q.to] = e]
          /\ lastVoteEpoch' = [lastVoteEpoch EXCEPT ![q.to] = e]
          /\ disk' = IF early THEN disk ELSE [disk EXCEPT ![q.to] = [epoch |-> e, vote |-> e, owner |-> owner[q.to]]]
        BY <1>7, <2>1 DEF Vote, TypeOK
    <2> HIDE DEF e
    <2>4. UNCHANGED <<auth, won>>
        BY <1>7 DEF Vote
    <2> QED BY <1>a, <1>b, <2>1, <2>2, <2>3, <2>4 DEF TypeOK, EpochInv
<1>8. ASSUME NEW a \in acks, ReceiveAck(a.to, a) PROVE EpochInv'
    <2>1. a.to \in Nodes /\ a.to \in Replicas /\ a.epoch \in Nat
        BY DEF TypeOK, Acks, Nodes
    <2>2. Later(currentEpoch[a.to], a.epoch) \in Nat /\ currentEpoch[a.to] <= Later(currentEpoch[a.to], a.epoch)
        BY <2>1, <1>a, LaterFact
    <2>3. \A r \in Replicas : auth'[r].epoch = auth[r].epoch /\ auth'[r].phase = auth[r].phase
        BY <1>8, <2>1 DEF TypeOK, ReceiveAck
    <2> QED BY <1>8, <1>a, <1>b, <2>1, <2>2, <2>3 DEF TypeOK, EpochInv, ReceiveAck, saved
<1>9. ASSUME NEW a \in Nodes, NEW b \in Nodes, Heartbeat(a, b) PROVE EpochInv'
    <2> DEFINE e == Later(currentEpoch[b], currentEpoch[a])
    <2>1. e \in Nat /\ currentEpoch[b] <= e
        BY <1>a, LaterFact
    <2>2. currentEpoch' = [currentEpoch EXCEPT ![b] = IF Collides(a, b) THEN e + 1 ELSE e]
        BY <1>9 DEF Heartbeat
    <2>3. disk' = IF Collides(a, b) THEN [disk EXCEPT ![b] = [epoch |-> e + 1, vote |-> lastVoteEpoch[b],
                                                             owner |-> owner'[b]]] ELSE disk
        BY <1>9 DEF Heartbeat
    <2> HIDE DEF e
    <2>4. UNCHANGED <<lastVoteEpoch, auth, won>>
        BY <1>9 DEF Heartbeat
    <2>5. \A k \in Nodes : currentEpoch'[k] >= currentEpoch[k] /\ currentEpoch'[k] \in Nat
        BY <1>a, <2>1, <2>2 DEF TypeOK
    <2>6. \A k \in Nodes : disk'[k].epoch >= 1 /\ disk'[k].vote <= disk'[k].epoch
        BY <1>a, <2>1, <2>3 DEF TypeOK, EpochInv
    <2> QED BY <1>a, <1>b, <2>4, <2>5, <2>6 DEF TypeOK, EpochInv
<1>10. ASSUME NEW a \in Nodes, NEW b \in Nodes, Update(a, b) PROVE EpochInv'
    <2>1. Later(currentEpoch[b], currentEpoch[a]) \in Nat /\ currentEpoch[b] <= Later(currentEpoch[b], currentEpoch[a])
        BY <1>a, LaterFact
    <2> QED BY <1>10, <1>a, <1>b, <2>1 DEF TypeOK, EpochInv, Update, history
<1>11. CASE UNCHANGED vars
    BY <1>11 DEF EpochInv, vars
<1> QED BY <1>1, <1>2, <1>3, <1>4, <1>5, <1>6, <1>7, <1>8, <1>9, <1>10, <1>11, StepCases

(* Votes *)

\* Who may vote has voted in no epoch as late as this one that it still remembers.
LEMMA FreshVote ==
    ASSUME TypeOK, EpochInv, VoteInv, NEW q \in reqs, MayVote(q.to, q),
           NEW a \in voted, a.from = q.to, a.epoch \notin forgotten
    PROVE  a.epoch < q.epoch
<1>1. q.to \in Nodes /\ q.epoch \in Nat /\ a.epoch \in Nat
    BY DEF TypeOK, Requests, Acks, Nodes
<1>2. currentEpoch[q.to] \in Nat /\ lastVoteEpoch[q.to] \in Nat
    BY <1>1 DEF TypeOK
<1>3. q.epoch >= currentEpoch[q.to] /\ lastVoteEpoch[q.to] # q.epoch
    BY <1>1, <1>2, LaterFact DEF MayVote
<1>4. a.epoch <= lastVoteEpoch[q.to] /\ lastVoteEpoch[q.to] <= currentEpoch[q.to]
    BY <1>1 DEF VoteInv, EpochInv
<1> QED BY <1>1, <1>2, <1>3, <1>4

\* The steps that neither give, save nor lose a vote.
LEMMA VotesUntouched ==
    ASSUME UNCHANGED <<voted, forgotten, lastVoteEpoch>>, unsaved' = unsaved, disk' = disk, VoteInv
    PROVE  VoteInv'
BY DEF VoteInv

\* A node saves its last vote.
LEMMA VotesSaved ==
    ASSUME TypeOK, VoteInv, NEW n \in Nodes, UNCHANGED <<voted, forgotten, lastVoteEpoch>>,
           unsaved' = {v \in unsaved : v.from # n},
           disk'[n].vote = lastVoteEpoch[n], \A k \in Nodes \ {n} : disk'[k] = disk[k]
    PROVE  VoteInv'
<1> SUFFICES ASSUME NEW a \in voted, a.epoch \notin forgotten
             PROVE  /\ a.epoch <= lastVoteEpoch[a.from]
                    /\ a \in unsaved' \/ a.epoch <= disk'[a.from].vote
    BY DEF VoteInv
<1>1. a.from \in Nodes
    BY DEF TypeOK, Acks, Nodes
<1> QED BY <1>1 DEF VoteInv

LEMMA VoteStep == TypeOK /\ EpochInv /\ VoteInv /\ [Next]_vars => VoteInv'
<1> SUFFICES ASSUME TypeOK, EpochInv, VoteInv, [Next]_vars PROVE VoteInv'
    OBVIOUS
<1>1. ASSUME NEW n \in Nodes, BeforeSleep(n) PROVE VoteInv'
    <2>1. disk'[n].vote = lastVoteEpoch[n] /\ \A k \in Nodes \ {n} : disk'[k] = disk[k]
        BY <1>1 DEF TypeOK, BeforeSleep, Image
    <2> QED BY <1>1, <2>1, VotesSaved DEF BeforeSleep
<1>2. ASSUME NEW n \in Nodes, Crash(n) PROVE VoteInv'
    <2> SUFFICES ASSUME NEW a \in voted, a.epoch \notin forgotten'
                 PROVE  /\ a.epoch <= lastVoteEpoch'[a.from]
                        /\ a \in unsaved' \/ a.epoch <= disk[a.from].vote
        BY <1>2 DEF VoteInv, Crash
    <2>1. a.from \in Nodes /\ a.epoch \notin forgotten /\ ~(a \in unsaved /\ a.from = n)
        BY <1>2 DEF TypeOK, Acks, Nodes, Crash
    <2>2. a.epoch <= lastVoteEpoch[a.from] /\ (a \in unsaved \/ a.epoch <= disk[a.from].vote)
        BY <2>1 DEF VoteInv
    <2>3. lastVoteEpoch' = [lastVoteEpoch EXCEPT ![n] = disk[n].vote]
          /\ unsaved' = unsaved \ {v \in unsaved : v.from = n}
        BY <1>2 DEF Crash, VarsLine
    <2>4. CASE a.from = n
        BY <2>1, <2>2, <2>3, <2>4 DEF TypeOK
    <2>5. CASE a.from # n
        BY <2>1, <2>2, <2>3, <2>5 DEF TypeOK
    <2> QED BY <2>4, <2>5
<1>3. ASSUME NEW r \in Replicas, Schedule(r) PROVE VoteInv'
    BY <1>3, VotesUntouched DEF Schedule, saved
<1>4. ASSUME NEW r \in Replicas, Win(r) PROVE VoteInv'
    <2>1. r \in Nodes
        BY DEF Nodes
    <2>2. disk'[r].vote = lastVoteEpoch[r] /\ \A k \in Nodes \ {r} : disk'[k] = disk[k]
        BY <1>4, <2>1 DEF TypeOK, Win, Image
    <2> QED BY <1>4, <2>1, <2>2, VotesSaved DEF Win
<1>5. ASSUME NEW r \in Replicas, NEW force \in BOOLEAN, Ask(r, force) PROVE VoteInv'
    BY <1>5, VotesUntouched DEF Ask, saved, history
<1>6. ASSUME NEW q \in reqs, Deny(q.to, q) PROVE VoteInv'
    BY <1>6, VotesUntouched DEF Deny, saved, history
<1>7. ASSUME NEW q \in reqs, NEW early \in BOOLEAN, Vote(q.to, q, early) PROVE VoteInv'
    <2> DEFINE m == q.to
               ack == VoteOf(m, q.from, q.epoch)
    <2>1. m \in Nodes /\ q.epoch \in Nat /\ ack.from = m /\ ack.epoch = q.epoch
        BY DEF TypeOK, Requests, Nodes, VoteOf
    <2>2. Later(currentEpoch[m], q.epoch) = q.epoch
        <3>1. currentEpoch[m] \in Nat /\ q.epoch >= currentEpoch[m]
            BY <1>7, <2>1 DEF TypeOK, Vote, MayVote
        <3> QED BY <2>1, <3>1 DEF Later
    <2>3. /\ lastVoteEpoch' = [lastVoteEpoch EXCEPT ![m] = q.epoch]
          /\ disk' = IF early THEN disk ELSE [disk EXCEPT ![m] = [epoch |-> q.epoch, vote |-> q.epoch, owner |-> owner[m]]]
          /\ voted' = voted \cup {ack} /\ forgotten' = forgotten
          /\ unsaved' = IF early THEN unsaved \cup {ack} ELSE {a \in unsaved : a.from # m}
        BY <1>7, <2>1, <2>2 DEF Vote, TypeOK
    <2> SUFFICES ASSUME NEW a \in voted', a.epoch \notin forgotten
                 PROVE  /\ a.epoch <= lastVoteEpoch'[a.from]
                        /\ a \in unsaved' \/ a.epoch <= disk'[a.from].vote
        BY <2>3 DEF VoteInv
    <2>4. CASE a = ack
        <3> HIDE DEF ack, m
        <3> QED BY <2>1, <2>3, <2>4 DEF TypeOK
    <2>5. CASE a # ack
        <3>1. a \in voted /\ a.from \in Nodes /\ a.epoch \in Nat
            BY <2>3, <2>5 DEF TypeOK, Acks, Nodes
        <3>2. a.epoch <= lastVoteEpoch[a.from] /\ (a \in unsaved \/ a.epoch <= disk[a.from].vote)
            BY <3>1 DEF VoteInv
        <3>3. CASE a.from = m
            <4>1. a.epoch < q.epoch
                BY <1>7, <3>1, <3>3, FreshVote DEF Vote
            <4> HIDE DEF ack, m
            <4> QED BY <2>1, <2>3, <3>1, <3>2, <3>3, <4>1 DEF TypeOK
        <3>4. CASE a.from # m
            <4> HIDE DEF ack, m
            <4> QED BY <2>1, <2>3, <3>1, <3>2, <3>4 DEF TypeOK
        <3> QED BY <3>3, <3>4
    <2> QED BY <2>4, <2>5
<1>8. ASSUME NEW a \in acks, ReceiveAck(a.to, a) PROVE VoteInv'
    BY <1>8, VotesUntouched DEF ReceiveAck, saved
<1>9. ASSUME NEW a \in Nodes, NEW b \in Nodes, Heartbeat(a, b) PROVE VoteInv'
    <2>1. CASE Collides(a, b)
        <3>1. disk'[b].vote = lastVoteEpoch[b] /\ \A k \in Nodes \ {b} : disk'[k] = disk[k]
            BY <1>9, <2>1 DEF TypeOK, Heartbeat
        <3> QED BY <1>9, <2>1, <3>1, VotesSaved DEF Heartbeat
    <2>2. CASE ~Collides(a, b)
        BY <1>9, <2>2, VotesUntouched DEF Heartbeat
    <2> QED BY <2>1, <2>2
<1>10. ASSUME NEW a \in Nodes, NEW b \in Nodes, Update(a, b) PROVE VoteInv'
    BY <1>10, VotesUntouched DEF Update, history
<1>11. CASE UNCHANGED vars
    BY <1>11 DEF VoteInv, vars
<1> QED BY <1>1, <1>2, <1>3, <1>4, <1>5, <1>6, <1>7, <1>8, <1>9, <1>10, <1>11, StepCases

\* Only Vote adds to the votes, and no epoch that was forgotten is remembered again.
LEMMA VotedStep ==
    ASSUME [Next]_vars
    PROVE  /\ forgotten \subseteq forgotten' /\ voted \subseteq voted'
           /\ \A a \in voted' \ voted : \E q \in reqs :
                 a = VoteOf(q.to, q.from, q.epoch) /\ MayVote(q.to, q) /\ forgotten' = forgotten
BY StepCases DEF BeforeSleep, Crash, Schedule, Win, Ask, Deny, Vote, ReceiveAck, Heartbeat,
                 Update, history, vars

LEMMA OneVoteStep == TypeOK /\ EpochInv /\ VoteInv /\ OneVotePerEpoch /\ [Next]_vars => OneVotePerEpoch'
<1> SUFFICES ASSUME TypeOK, EpochInv, VoteInv, OneVotePerEpoch, [Next]_vars PROVE OneVotePerEpoch'
    OBVIOUS
<1>1. ASSUME NEW a \in voted', NEW b \in voted', a.from = b.from, a.epoch = b.epoch, a.epoch \notin forgotten'
      PROVE  a.to = b.to
    <2>1. a.epoch \notin forgotten
        BY <1>1, VotedStep
    <2>2. \A x, y \in voted' : x \in voted /\ y \in voted' \ voted /\ x.epoch \notin forgotten /\ x.from = y.from
                               => x.epoch # y.epoch
        <3> SUFFICES ASSUME NEW x \in voted, NEW y \in voted' \ voted, x.epoch \notin forgotten, x.from = y.from
                     PROVE  x.epoch # y.epoch
            OBVIOUS
        <3>1. PICK q \in reqs : y = VoteOf(q.to, q.from, q.epoch) /\ MayVote(q.to, q)
            BY VotedStep
        <3>2. y.from = q.to /\ y.epoch = q.epoch /\ q.epoch \in Nat /\ x.epoch \in Nat
            BY <3>1 DEF VoteOf, TypeOK, Requests, Acks
        <3>3. x.epoch < q.epoch
            BY <3>1, <3>2, FreshVote
        <3> QED BY <3>2, <3>3
    <2>3. CASE a \in voted /\ b \in voted
        BY <1>1, <2>1, <2>3 DEF OneVotePerEpoch
    <2>4. CASE a \notin voted /\ b \notin voted
        <3>1. \A x, y \in voted' \ voted : x = y
            BY StepCases DEF BeforeSleep, Crash, Schedule, Win, Ask, Deny, Vote, ReceiveAck,
                             Heartbeat, Update, history, vars
        <3> QED BY <1>1, <2>4, <3>1
    <2> QED BY <1>1, <2>1, <2>2, <2>3, <2>4
<1>2. \A n \in Nodes : disk'[n].vote <= disk'[n].epoch
    BY EpochStep DEF EpochInv
<1> QED BY <1>1, <1>2 DEF OneVotePerEpoch

(* Counting *)

\* What CountInv says of a replica: its count stands, while no vote of the
\* election is given again, and none that was counted comes back.
CountOf(r) ==
    ~stale[r] =>
      IF auth[r].phase = "sent"
      THEN auth[r].epoch \notin forgotten =>
             /\ auth[r].count = Cardinality(counted[r])
             /\ \A m \in counted[r] : VoteOf(m, r, auth[r].epoch) \in voted \ acks
      ELSE auth[r].count = 0 /\ counted[r] = {}

LEMMA CountInvEquiv == CountInv <=> acks \subseteq voted /\ \A r \in Replicas : CountOf(r)
BY DEF CountInv, CountOf

\* A replica that does nothing keeps its count as long as no ACK comes back.
LEMMA CountKept ==
    ASSUME NEW r \in Replicas, CountOf(r), auth'[r] = auth[r], counted'[r] = counted[r], stale'[r] = stale[r],
           voted \subseteq voted', forgotten \subseteq forgotten',
           \A a \in acks' \ acks : a \in voted => a.epoch \in forgotten'
    PROVE  CountOf(r)'
<1> SUFFICES ASSUME ~stale[r]
             PROVE  IF auth[r].phase = "sent"
                    THEN auth[r].epoch \notin forgotten' =>
                           /\ auth[r].count = Cardinality(counted[r])
                           /\ \A m \in counted[r] : VoteOf(m, r, auth[r].epoch) \in voted' \ acks'
                    ELSE auth[r].count = 0 /\ counted[r] = {}
    BY DEF CountOf
<1>1. CASE auth[r].phase = "sent"
    <2> SUFFICES ASSUME auth[r].epoch \notin forgotten'
                 PROVE  /\ auth[r].count = Cardinality(counted[r])
                        /\ \A m \in counted[r] : VoteOf(m, r, auth[r].epoch) \in voted' \ acks'
        BY <1>1
    <2>1. /\ auth[r].count = Cardinality(counted[r])
          /\ \A m \in counted[r] : VoteOf(m, r, auth[r].epoch) \in voted \ acks
        BY <1>1 DEF CountOf
    <2>2. \A m : VoteOf(m, r, auth[r].epoch).epoch = auth[r].epoch
        BY DEF VoteOf
    <2> QED BY <2>1, <2>2
<1>2. CASE auth[r].phase # "sent"
    BY <1>2 DEF CountOf
<1> QED BY <1>1, <1>2

LEMMA CountStep == TypeOK /\ EpochInv /\ VoteInv /\ CountInv /\ [Next]_vars => CountInv'
<1> SUFFICES ASSUME TypeOK, EpochInv, VoteInv, CountInv, [Next]_vars PROVE CountInv'
    OBVIOUS
<1>a. acks \subseteq voted /\ \A r \in Replicas : CountOf(r)
    BY CountInvEquiv
<1>b. voted \subseteq voted' /\ forgotten \subseteq forgotten'
    BY VotedStep
<1>c. SUFFICES acks' \subseteq voted' /\ \A r \in Replicas : CountOf(r)'
    BY DEF CountInv, CountOf
<1>1. ASSUME NEW n \in Nodes, BeforeSleep(n) PROVE acks' \subseteq voted' /\ \A r \in Replicas : CountOf(r)'
    BY <1>1, <1>a, <1>b, CountKept DEF BeforeSleep
<1>2. ASSUME NEW n \in Nodes, Crash(n) PROVE acks' \subseteq voted' /\ \A r \in Replicas : CountOf(r)'
    <2>1. acks' \subseteq acks
        BY <1>2 DEF Crash
    <2>2. ASSUME NEW r \in Replicas PROVE CountOf(r)'
        <3>1. CASE r = n
            <4>1. auth'[r] = NoElection /\ counted'[r] = {}
                BY <1>2, <3>1 DEF TypeOK, Crash
            <4> QED BY <4>1 DEF CountOf, NoElection
        <3>2. CASE r # n
            <4>1. auth'[r] = auth[r] /\ counted'[r] = counted[r] /\ stale'[r] = stale[r]
                BY <1>2, <3>2 DEF TypeOK, Crash
            <4> QED BY <1>a, <1>b, <2>1, <4>1, CountKept
        <3> QED BY <3>1, <3>2
    <2> QED BY <1>a, <1>b, <2>1, <2>2
<1>3. ASSUME NEW n \in Replicas, Schedule(n) PROVE acks' \subseteq voted' /\ \A r \in Replicas : CountOf(r)'
    <2>1. ASSUME NEW r \in Replicas PROVE CountOf(r)'
        <3>1. CASE r = n
            <4>1. auth'[r].phase = "planned" /\ auth'[r].count = 0 /\ counted'[r] = {}
                BY <1>3, <3>1 DEF TypeOK, Schedule
            <4> QED BY <4>1 DEF CountOf
        <3>2. CASE r # n
            <4>1. auth'[r] = auth[r] /\ counted'[r] = counted[r] /\ stale'[r] = stale[r] /\ acks' = acks
                BY <1>3, <3>2 DEF TypeOK, Schedule
            <4> QED BY <1>a, <1>b, <4>1, CountKept
        <3> QED BY <3>1, <3>2
    <2> QED BY <1>3, <1>a, <2>1 DEF Schedule
<1>4. ASSUME NEW n \in Replicas, Win(n) PROVE acks' \subseteq voted' /\ \A r \in Replicas : CountOf(r)'
    BY <1>4, <1>a, <1>b, CountKept DEF Win
<1>5. ASSUME NEW n \in Replicas, NEW force \in BOOLEAN, Ask(n, force)
      PROVE  acks' \subseteq voted' /\ \A r \in Replicas : CountOf(r)'
    <2>0. UNCHANGED <<acks, voted, forgotten, counted, stale>>
        BY <1>5 DEF Ask, history
    <2>1. ASSUME NEW r \in Replicas PROVE CountOf(r)'
        <3>1. CASE r = n
            <4>1. auth[r].phase = "planned" /\ auth'[r].count = auth[r].count
                BY <1>5, <3>1 DEF TypeOK, Ask
            <4>2. ~stale[r] => auth[r].count = 0 /\ counted[r] = {}
                BY <1>a, <4>1 DEF CountOf
            <4>3. ~stale'[r] => auth'[r].count = 0 /\ counted'[r] = {} /\ Cardinality(counted'[r]) = 0
                BY <2>0, <4>1, <4>2, FS_EmptySet
            <4> QED BY <4>3 DEF CountOf
        <3>2. CASE r # n
            <4>1. auth'[r] = auth[r]
                BY <1>5, <3>2 DEF TypeOK, Ask
            <4> QED BY <1>a, <1>b, <2>0, <4>1, CountKept
        <3> QED BY <3>1, <3>2
    <2> QED BY <1>a, <2>0, <2>1
<1>6. ASSUME NEW q \in reqs, Deny(q.to, q) PROVE acks' \subseteq voted' /\ \A r \in Replicas : CountOf(r)'
    BY <1>6, <1>a, <1>b, CountKept DEF Deny, history
<1>7. ASSUME NEW q \in reqs, NEW early \in BOOLEAN, Vote(q.to, q, early)
      PROVE  acks' \subseteq voted' /\ \A r \in Replicas : CountOf(r)'
    <2> DEFINE ack == VoteOf(q.to, q.from, q.epoch)
    <2>1. acks' = acks \cup {ack} /\ voted' = voted \cup {ack} /\ UNCHANGED <<auth, counted, stale, forgotten>>
        BY <1>7 DEF Vote
    <2>2. ack.from = q.to /\ ack.epoch = q.epoch /\ q.epoch \in Nat
        BY DEF VoteOf, TypeOK, Requests
    <2>3. ack \in voted => ack.epoch \in forgotten
        BY <1>7, <2>2, FreshVote DEF Vote
    <2> HIDE DEF ack
    <2> QED BY <1>a, <1>b, <2>1, <2>3, CountKept
<1>8. ASSUME NEW a \in acks, ReceiveAck(a.to, a) PROVE acks' \subseteq voted' /\ \A r \in Replicas : CountOf(r)'
    <2>0. a.to \in Replicas /\ a.from \in Masters /\ a = VoteOf(a.from, a.to, a.epoch)
        BY DEF TypeOK, Acks, VoteOf
    <2>1. acks' = acks \ {a} /\ UNCHANGED <<voted, forgotten>>
        BY <1>8 DEF ReceiveAck
    <2>2. ASSUME NEW r \in Replicas PROVE CountOf(r)'
        <3>1. CASE r = a.to /\ Counts(r, a)
            <4>1. /\ auth'[r] = [auth[r] EXCEPT !.count = auth[r].count + 1]
                  /\ counted'[r] = counted[r] \cup {a.from}
                  /\ stale'[r] = (stale[r] \/ auth[r].phase # "sent" \/ a.epoch # auth[r].epoch)
                BY <1>8, <3>1 DEF TypeOK, ReceiveAck
            <4>2. /\ auth'[r].phase = auth[r].phase /\ auth'[r].epoch = auth[r].epoch
                  /\ auth'[r].count = auth[r].count + 1
                BY <4>1 DEF TypeOK
            <4> SUFFICES ASSUME ~stale'[r], auth[r].epoch \notin forgotten
                         PROVE  /\ auth'[r].phase = "sent"
                                /\ auth'[r].count = Cardinality(counted'[r])
                                /\ \A m \in counted'[r] : VoteOf(m, r, auth[r].epoch) \in voted \ acks'
                BY <2>1, <4>1, <4>2 DEF CountOf
            <4>3. ~stale[r] /\ auth[r].phase = "sent" /\ a.epoch = auth[r].epoch
                BY <4>1
            <4>4. /\ auth[r].count = Cardinality(counted[r])
                  /\ \A m \in counted[r] : VoteOf(m, r, auth[r].epoch) \in voted \ acks
                BY <1>a, <4>3 DEF CountOf
            <4>5. a = VoteOf(a.from, r, auth[r].epoch) /\ a \in voted \ acks'
                BY <1>a, <2>0, <2>1, <3>1, <4>3
            <4>6. a.from \notin counted[r]
                BY <4>4, <4>5
            <4>7. IsFiniteSet(counted[r])
                BY MastersFinite, FS_Subset DEF TypeOK
            <4>8. Cardinality(counted'[r]) = Cardinality(counted[r]) + 1
                BY <4>1, <4>6, <4>7, FS_AddElement
            <4> QED BY <2>1, <4>1, <4>2, <4>3, <4>4, <4>5, <4>8
        <3>2. CASE ~(r = a.to /\ Counts(r, a))
            <4>1. auth'[r] = auth[r] /\ counted'[r] = counted[r] /\ stale'[r] = stale[r]
                BY <1>8, <3>2 DEF TypeOK, ReceiveAck
            <4> QED BY <1>a, <1>b, <2>1, <4>1, CountKept
        <3> QED BY <3>1, <3>2
    <2> QED BY <1>a, <2>1, <2>2
<1>9. ASSUME NEW a \in Nodes, NEW b \in Nodes, Heartbeat(a, b)
      PROVE  acks' \subseteq voted' /\ \A r \in Replicas : CountOf(r)'
    BY <1>9, <1>a, <1>b, CountKept DEF Heartbeat
<1>10. ASSUME NEW a \in Nodes, NEW b \in Nodes, Update(a, b)
       PROVE  acks' \subseteq voted' /\ \A r \in Replicas : CountOf(r)'
    BY <1>10, <1>a, <1>b, CountKept DEF Update, history
<1>11. ASSUME UNCHANGED vars PROVE acks' \subseteq voted' /\ \A r \in Replicas : CountOf(r)'
    BY <1>11, <1>a, <1>b, CountKept DEF vars
<1> QED BY <1>1, <1>2, <1>3, <1>4, <1>5, <1>6, <1>7, <1>8, <1>9, <1>10, <1>11, StepCases

(* Winners *)

LEMMA QuorumType == needed_quorum \in Nat /\ 2 * needed_quorum > Cardinality(Masters)
<1>1. Cardinality(Masters) \in Nat
    BY MastersFinite, FS_CardinalityType
<1> QED BY <1>1 DEF needed_quorum

\* Only Win adds to the winners.
LEMMA WonStep ==
    ASSUME [Next]_vars
    PROVE  /\ won \subseteq won'
           /\ \A w \in won' \ won : \E r \in Replicas :
                 Win(r) /\ w = [node |-> r, epoch |-> auth[r].epoch, stale |-> stale[r], voters |-> counted[r]]
BY StepCases DEF BeforeSleep, Crash, Schedule, Win, Ask, Deny, Vote, ReceiveAck, Heartbeat,
                 Update, history, vars

LEMMA WinnerStep == TypeOK /\ CountInv /\ WinnerInv /\ [Next]_vars => WinnerInv'
<1> SUFFICES ASSUME TypeOK, CountInv, WinnerInv, [Next]_vars,
                    NEW w \in won', ~w.stale, w.epoch \notin forgotten'
             PROVE  /\ Cardinality(w.voters) >= needed_quorum
                    /\ \A m \in w.voters : VoteOf(m, w.node, w.epoch) \in voted'
    BY DEF WinnerInv, needed_quorum
<1>1. voted \subseteq voted' /\ w.epoch \notin forgotten
    BY VotedStep
<1>2. CASE w \in won
    BY <1>1, <1>2 DEF WinnerInv
<1>3. CASE w \notin won
    <2>1. PICK r \in Replicas :
              Win(r) /\ w = [node |-> r, epoch |-> auth[r].epoch, stale |-> stale[r], voters |-> counted[r]]
        BY <1>3, WonStep
    <2>2. w.node = r /\ w.epoch = auth[r].epoch /\ ~stale[r] /\ w.voters = counted[r]
        BY <2>1
    <2>3. auth[r].phase = "sent" /\ auth[r].count >= needed_quorum
        BY <2>1 DEF Win, Elected
    <2>4. /\ auth[r].count = Cardinality(counted[r])
          /\ \A m \in counted[r] : VoteOf(m, r, auth[r].epoch) \in voted
        BY <1>1, <2>2, <2>3 DEF CountInv
    <2> QED BY <1>1, <2>2, <2>3, <2>4
<1> QED BY <1>2, <1>3

\* Two majorities have a voter in common, and it has voted once.
LEMMA MajorityFact == TypeOK /\ WinnerInv /\ OneVotePerEpoch => MajorityElects
<1> SUFFICES ASSUME TypeOK, WinnerInv, OneVotePerEpoch,
                    NEW v \in won, NEW w \in won, v.epoch = w.epoch, v.epoch \notin forgotten,
                    ~v.stale, ~w.stale
             PROVE  v.node = w.node
    BY DEF MajorityElects
<1>1. v.voters \subseteq Masters /\ w.voters \subseteq Masters
    BY DEF TypeOK
<1>2. /\ Cardinality(v.voters) >= needed_quorum /\ Cardinality(w.voters) >= needed_quorum
      /\ \A m \in v.voters : VoteOf(m, v.node, v.epoch) \in voted
      /\ \A m \in w.voters : VoteOf(m, w.node, w.epoch) \in voted
    BY DEF WinnerInv
<1>3. Cardinality(v.voters) \in Nat /\ Cardinality(w.voters) \in Nat /\ Cardinality(Masters) \in Nat
    BY <1>1, MastersFinite, FS_Subset, FS_CardinalityType
<1>4. Cardinality(v.voters) + Cardinality(w.voters) > Cardinality(Masters)
    BY <1>2, <1>3, QuorumType
<1>5. PICK m : m \in v.voters /\ m \in w.voters
    <2>1. v.voters \cap w.voters # {}
        BY <1>1, <1>4, MastersFinite, FS_MajoritiesIntersect
    <2> QED BY <2>1
<1>6. VoteOf(m, v.node, v.epoch) \in voted /\ VoteOf(m, w.node, v.epoch) \in voted
    BY <1>2, <1>5
<1> QED BY <1>6 DEF OneVotePerEpoch, VoteOf

(* Owners *)

\* An owner's claim, given the elections won.
Earned(W, o) ==
    \/ o = [node |-> Old, epoch |-> 1]
    \/ \E w \in W : w.node = o.node /\ w.epoch <= o.epoch

LEMMA EarnedKept ==
    ASSUME NEW o, Earned(won, o), won \subseteq won'
    PROVE  Earned(won', o)
BY DEF Earned

\* ClaimsWon is kept when every owner, in memory and on disk, was there before or
\* is earned, and is not ahead of its holder's epoch.
LEMMA ClaimsKept ==
    ASSUME ClaimsWon, won \subseteq won',
           \A n \in Nodes : owner'[n].epoch <= currentEpoch'[n],
           \A n \in Nodes : \A o \in {owner'[n], disk'[n].owner} :
              Earned(won', o) \/ \E k \in Nodes : o \in {owner[k], disk[k].owner}
    PROVE  ClaimsWon'
<1>1. \A k \in Nodes : \A o \in {owner[k], disk[k].owner} : Earned(won, o)
    BY DEF ClaimsWon, Earned
<1>2. \A n \in Nodes : \A o \in {owner'[n], disk'[n].owner} : Earned(won', o)
    BY <1>1, EarnedKept
<1> QED BY <1>2 DEF ClaimsWon, Earned

\* Of two masters under one epoch that collide, the one that moves has won an election.
LEMMA CollisionEarned ==
    ASSUME TypeOK, EpochInv, ClaimsWon, NEW a \in Nodes, NEW b \in Nodes, Collides(a, b),
           NEW e \in Nat, e >= owner[b].epoch
    PROVE  Earned(won, [node |-> b, epoch |-> e])
<1>1. owner[a].node = a /\ owner[b].node = b /\ owner[a].epoch = owner[b].epoch /\ Name[a] > Name[b]
    BY DEF Collides
<1>2. a # b
    BY <1>1, NameAssumption DEF Nodes
<1>3. owner[b].epoch \in Nat /\ \A w \in won : w.epoch \in Nat /\ w.epoch >= 2 /\ w.node \in Replicas
    BY DEF TypeOK, Owners, EpochInv
<1>4. b # Old
    <2> SUFFICES ASSUME b = Old PROVE FALSE
        OBVIOUS
    <2>1. Old \notin Replicas
        BY OldAssumption, ReplicasAssumption
    <2>2. owner[b] = [node |-> Old, epoch |-> 1]
        BY <1>1, <1>3, <2>1 DEF ClaimsWon
    <2>3. owner[a].epoch = 1 /\ owner[a].node # Old
        BY <1>1, <1>2, <2>2
    <2>4. \E w \in won : w.epoch <= 1
        BY <2>3 DEF ClaimsWon
    <2> QED BY <1>3, <2>4
<1>5. PICK w \in won : w.node = b /\ w.epoch <= owner[b].epoch
    BY <1>1, <1>4 DEF ClaimsWon
<1> QED BY <1>3, <1>5 DEF Earned

LEMMA ClaimsStep == TypeOK /\ EpochInv /\ ClaimsWon /\ [Next]_vars => ClaimsWon'
<1> SUFFICES ASSUME TypeOK, EpochInv, ClaimsWon, [Next]_vars PROVE ClaimsWon'
    OBVIOUS
<1>a. won \subseteq won'
    BY WonStep
<1>b. \A n \in Nodes : /\ currentEpoch[n] \in Nat /\ owner[n].epoch \in Nat /\ owner[n].epoch <= currentEpoch[n]
                       /\ disk[n].epoch \in Nat /\ disk[n].owner.epoch \in Nat
    BY DEF TypeOK, Owners, ClaimsWon
<1>1. ASSUME NEW n \in Nodes, BeforeSleep(n) PROVE ClaimsWon'
    <2>1. owner' = owner /\ currentEpoch' = currentEpoch
          /\ \A k \in Nodes : disk'[k].owner \in {owner[k], disk[k].owner}
        BY <1>1 DEF TypeOK, BeforeSleep, Image
    <2> QED BY <1>a, <1>b, <2>1, ClaimsKept
<1>2. ASSUME NEW n \in Nodes, Crash(n) PROVE ClaimsWon'
    <2> DEFINE e == Later(disk[n].epoch, disk[n].owner.epoch)
    <2>1. e \in Nat /\ e >= disk[n].owner.epoch
        BY <1>b, LaterFact
    <2>2. /\ currentEpoch' = [currentEpoch EXCEPT ![n] = e]
          /\ owner' = [owner EXCEPT ![n] = disk[n].owner] /\ disk' = disk
        BY <1>2 DEF Crash, VarsLine
    <2> HIDE DEF e
    <2>3. \A k \in Nodes : owner'[k].epoch <= currentEpoch'[k]
        BY <1>b, <2>1, <2>2 DEF TypeOK
    <2>4. \A k \in Nodes : owner'[k] \in {owner[k], disk[k].owner}
        BY <2>2 DEF TypeOK
    <2> QED BY <1>a, <2>2, <2>3, <2>4, ClaimsKept
<1>3. ASSUME NEW r \in Replicas, Schedule(r) PROVE ClaimsWon'
    BY <1>3 DEF ClaimsWon, Schedule, saved
<1>4. ASSUME NEW r \in Replicas, Win(r) PROVE ClaimsWon'
    <2> DEFINE new == [node |-> r, epoch |-> auth[r].epoch]
    <2>0. r \in Nodes /\ auth[r].epoch \in Nat
        BY DEF Nodes, TypeOK
    <2>1. /\ owner' = [owner EXCEPT ![r] = new] /\ currentEpoch' = currentEpoch
          /\ disk'[r].owner = new /\ \A k \in Nodes \ {r} : disk'[k] = disk[k]
        BY <1>4, <2>0 DEF TypeOK, Win, Image
    <2>2. Earned(won', new)
        <3>1. [node |-> r, epoch |-> auth[r].epoch, stale |-> stale[r], voters |-> counted[r]] \in won'
            BY <1>4 DEF Win
        <3> QED BY <2>0, <3>1 DEF Earned
    <2>3. new.epoch <= currentEpoch[r]
        BY DEF EpochInv
    <2> HIDE DEF new
    <2>4. \A k \in Nodes : owner'[k].epoch <= currentEpoch'[k]
        BY <1>b, <2>0, <2>1, <2>3 DEF TypeOK
    <2>5. \A k \in Nodes : owner'[k] \in {new, owner[k]} /\ disk'[k].owner \in {new, disk[k].owner}
        BY <2>0, <2>1 DEF TypeOK
    <2> QED BY <1>a, <2>2, <2>4, <2>5, ClaimsKept
<1>5. ASSUME NEW r \in Replicas, NEW force \in BOOLEAN, Ask(r, force) PROVE ClaimsWon'
    <2>1. UNCHANGED <<owner, disk>> /\ \A k \in Nodes : owner'[k].epoch <= currentEpoch'[k]
        BY <1>5, <1>b DEF TypeOK, Ask, saved, Nodes
    <2> QED BY <1>a, <2>1, ClaimsKept
<1>6. ASSUME NEW q \in reqs, Deny(q.to, q) PROVE ClaimsWon'
    <2>1. q.to \in Nodes /\ q.epoch \in Nat
        BY DEF TypeOK, Requests, Nodes
    <2>2. Later(currentEpoch[q.to], q.epoch) \in Nat /\ currentEpoch[q.to] <= Later(currentEpoch[q.to], q.epoch)
        BY <2>1, <1>b, LaterFact
    <2>3. UNCHANGED <<owner, disk>> /\ \A k \in Nodes : owner'[k].epoch <= currentEpoch'[k]
        BY <1>6, <1>b, <2>1, <2>2 DEF TypeOK, Deny, saved
    <2> QED BY <1>a, <2>3, ClaimsKept
<1>7. ASSUME NEW q \in reqs, NEW early \in BOOLEAN, Vote(q.to, q, early) PROVE ClaimsWon'
    <2>1. q.to \in Nodes /\ q.epoch \in Nat
        BY DEF TypeOK, Requests, Nodes
    <2>2. Later(currentEpoch[q.to], q.epoch) \in Nat /\ currentEpoch[q.to] <= Later(currentEpoch[q.to], q.epoch)
        BY <2>1, <1>b, LaterFact
    <2>3. owner' = owner /\ \A k \in Nodes : owner'[k].epoch <= currentEpoch'[k]
        BY <1>7, <1>b, <2>1, <2>2 DEF TypeOK, Vote
    <2>4. \A k \in Nodes : disk'[k].owner \in {owner[k], disk[k].owner}
        BY <1>7, <2>1 DEF TypeOK, Vote
    <2> QED BY <1>a, <2>3, <2>4, ClaimsKept
<1>8. ASSUME NEW a \in acks, ReceiveAck(a.to, a) PROVE ClaimsWon'
    <2>1. a.to \in Nodes /\ a.epoch \in Nat
        BY DEF TypeOK, Acks, Nodes
    <2>2. Later(currentEpoch[a.to], a.epoch) \in Nat /\ currentEpoch[a.to] <= Later(currentEpoch[a.to], a.epoch)
        BY <2>1, <1>b, LaterFact
    <2>3. UNCHANGED <<owner, disk>> /\ \A k \in Nodes : owner'[k].epoch <= currentEpoch'[k]
        BY <1>8, <1>b, <2>1, <2>2 DEF TypeOK, ReceiveAck, saved
    <2> QED BY <1>a, <2>3, ClaimsKept
<1>9. ASSUME NEW a \in Nodes, NEW b \in Nodes, Heartbeat(a, b) PROVE ClaimsWon'
    <2> DEFINE e == Later(currentEpoch[b], currentEpoch[a])
               moved == [node |-> b, epoch |-> e + 1]
    <2>1. e \in Nat /\ currentEpoch[b] <= e /\ currentEpoch[a] <= e
        BY <1>b, LaterFact
    <2>2. /\ currentEpoch' = [currentEpoch EXCEPT ![b] = IF Collides(a, b) THEN e + 1 ELSE e]
          /\ disk' = IF Collides(a, b) THEN [disk EXCEPT ![b] = [epoch |-> e + 1, vote |-> lastVoteEpoch[b],
                                                                 owner |-> owner'[b]]] ELSE disk
        BY <1>9 DEF Heartbeat
    <2>3. \/ owner' = [owner EXCEPT ![b] = owner[a]]
          \/ Collides(a, b) /\ owner' = [owner EXCEPT ![b] = moved]
          \/ owner' = owner
        BY <1>9 DEF Heartbeat, Claim, TypeOK
    <2>4. Collides(a, b) => Earned(won', moved)
        <3>1. e + 1 \in Nat /\ e + 1 >= owner[b].epoch
            BY <1>b, <2>1
        <3> HIDE DEF e
        <3> QED BY <1>a, <3>1, CollisionEarned, EarnedKept
    <2>5. moved.epoch = e + 1
        OBVIOUS
    <2> HIDE DEF e, moved
    <2>6. \A k \in Nodes : owner'[k].epoch <= currentEpoch'[k]
        BY <1>b, <2>1, <2>2, <2>3, <2>5 DEF TypeOK
    <2>7. \A k \in Nodes : /\ owner'[k] \in {owner[k], owner[a]} \/ (Collides(a, b) /\ owner'[k] = moved)
                           /\ disk'[k].owner \in {owner'[k], disk[k].owner}
        BY <2>2, <2>3 DEF TypeOK
    <2> QED BY <1>a, <2>4, <2>6, <2>7, ClaimsKept
<1>10. ASSUME NEW a \in Nodes, NEW b \in Nodes, Update(a, b) PROVE ClaimsWon'
    <2>1. /\ Later(currentEpoch[b], currentEpoch[a]) \in Nat
          /\ currentEpoch[b] <= Later(currentEpoch[b], currentEpoch[a])
          /\ currentEpoch[a] <= Later(currentEpoch[b], currentEpoch[a])
        BY <1>b, LaterFact
    <2>2. disk' = disk /\ \A k \in Nodes : owner'[k] \in {owner[k], owner[a]}
        BY <1>10 DEF TypeOK, Update
    <2>3. \A k \in Nodes : owner'[k].epoch <= currentEpoch'[k]
        BY <1>10, <1>b, <2>1 DEF TypeOK, Update
    <2> QED BY <1>a, <2>2, <2>3, ClaimsKept
<1>11. CASE UNCHANGED vars
    BY <1>11 DEF ClaimsWon, vars
<1> QED BY <1>1, <1>2, <1>3, <1>4, <1>5, <1>6, <1>7, <1>8, <1>9, <1>10, <1>11, StepCases

(* Theorems *)

LEMMA InitInd == Init => IndInv
<1> SUFFICES ASSUME Init PROVE IndInv
    OBVIOUS
<1>1. TypeOK
    BY TypeInit
<1>2. EpochInv /\ VoteInv /\ WinnerInv /\ OneVotePerEpoch
    BY DEF Init, EpochInv, VoteInv, WinnerInv, OneVotePerEpoch, NoElection, Nodes
<1>3. CountInv /\ ClaimsWon
    BY DEF Init, CountInv, ClaimsWon, NoElection
<1> QED BY <1>1, <1>2, <1>3 DEF IndInv

LEMMA Inductive == Spec => []IndInv
<1>1. IndInv /\ [Next]_vars => IndInv'
    BY TypeStep, EpochStep, VoteStep, OneVoteStep, CountStep, WinnerStep, ClaimsStep DEF IndInv
<1> QED BY InitInd, <1>1, PTL DEF Spec

\* Whatever packets are late or lost and whichever nodes crash, epochs are numbers,
\* owners nodes of the shard, and the messages under way well formed.
THEOREM TypeCorrect == Spec => []TypeOK
<1>1. IndInv => TypeOK
    BY DEF IndInv
<1> QED BY Inductive, <1>1, PTL

\* clusterSendFailoverAuthIfNeeded gives one vote per epoch, across crashes too,
\* as long as no vote was sent before it was saved and then undone.
THEOREM OneVoteTheorem == Spec => []OneVotePerEpoch
<1>1. IndInv => OneVotePerEpoch
    BY DEF IndInv
<1> QED BY Inductive, <1>1, PTL

\* Of the elections that count their own ACKs only, an epoch whose votes were all
\* kept has one winner: in any cluster, with any number of elections and crashes.
THEOREM MajorityTheorem == Spec => []MajorityElects
<1>1. IndInv => MajorityElects
    BY MajorityFact DEF IndInv
<1> QED BY Inductive, <1>1, PTL

\* Slots are only ever claimed for Old or for a replica that has won an election,
\* in memory and in nodes.conf, through heartbeats, UPDATEs, collisions and crashes.
THEOREM ClaimsTheorem == Spec => []ClaimsWon
<1>1. IndInv => ClaimsWon
    BY DEF IndInv
<1> QED BY Inductive, <1>1, PTL
=============================================================================
