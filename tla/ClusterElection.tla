-------------------------- MODULE ClusterElection ----------------------------
(***************************************************************************)
(* Redis Cluster (redis-stable/src/cluster_legacy.c): the election by      *)
(* which a replica of a failing master takes over its slots.               *)
(*                                                                         *)
(* The shard under consideration is that of `Old`: its slots change hands  *)
(* as a whole, and the other masters keep theirs.  Every node runs one     *)
(* event loop; a packet handler or a cron step is one action, what it asks *)
(* to be saved is written by clusterBeforeSleep, and a crash takes a node  *)
(* back to its nodes.conf.  Time is not modelled: a delay or a timeout may *)
(* elapse at any moment, and a packet may be late or never arrive.         *)
(***************************************************************************)
EXTENDS Naturals, FiniteSets

CONSTANTS
    Masters,      \* the masters with slots, the failing one included
    Old,          \* the master that fails
    Replicas,     \* its replicas
    Name,         \* the order of the node names
    Forces,       \* the values of CLUSTERMSG_FLAG0_FORCEACK: TRUE in a manual failover
    Busy,         \* whether a link may have packets queued when a vote is cast
    MaxEpoch,     \* bound: no election is started beyond it, no bump after it
    MaxCrashes    \* bound: crashes of all nodes together

ASSUME MastersFinite == IsFiniteSet(Masters)
ASSUME OldAssumption == Old \in Masters
ASSUME ReplicasAssumption == Replicas \cap Masters = {}
ASSUME NameAssumption ==
    /\ Name \in [Masters \cup Replicas -> Nat]
    /\ \A n, k \in Masters \cup Replicas : Name[n] = Name[k] => n = k
ASSUME ForcesAssumption == Forces \subseteq BOOLEAN /\ Busy \subseteq BOOLEAN

VARIABLES
    currentEpoch,    \* server.cluster->currentEpoch
    lastVoteEpoch,   \* server.cluster->lastVoteEpoch
    owner,           \* who serves the shard's slots, with its configEpoch, as a node sees it
    todo,            \* CLUSTER_TODO_SAVE_CONFIG is set
    disk,            \* nodes.conf
    auth,            \* a replica's failover_auth_sent, _count and _epoch
    reqs,            \* FAILOVER_AUTH_REQUESTs under way
    acks,            \* FAILOVER_AUTH_ACKs under way
    crashes,
    voted,           \* history: the votes given
    unsaved,         \* history: votes whose ACK was written before they were saved
    forgotten,       \* history: epochs of such votes that a crash has undone
    counted,         \* history: the voters behind failover_auth_count
    stale,           \* history: it counts an ACK that is not of this election
    won              \* history: the elections won

saved == <<owner, disk>>
history == <<voted, unsaved, forgotten, counted, stale, won>>
vars == <<currentEpoch, lastVoteEpoch, owner, todo, disk, auth, reqs, acks, crashes,
          voted, unsaved, forgotten, counted, stale, won>>

NoElection == [phase |-> "none", count |-> 0, epoch |-> 0]
Nodes == Masters \cup Replicas
Owners == [node : {Old} \cup Replicas, epoch : Nat]
Requests == [from : Replicas, to : Masters, epoch : Nat, config : Nat, force : BOOLEAN]

Acks == [from : Masters, to : Replicas, epoch : Nat]
VoteOf(m, r, epoch) == [from |-> m, to |-> r, epoch |-> epoch]

TypeOK ==
    /\ currentEpoch \in [Nodes -> Nat]
    /\ lastVoteEpoch \in [Nodes -> Nat]
    /\ owner \in [Nodes -> Owners]
    /\ todo \in [Nodes -> BOOLEAN]
    /\ disk \in [Nodes -> [epoch : Nat, vote : Nat, owner : Owners]]
    /\ auth \in [Replicas -> [phase : {"none", "planned", "sent"}, count : Nat, epoch : Nat]]
    /\ reqs \subseteq Requests
    /\ acks \subseteq Acks
    /\ crashes \in Nat
    /\ voted \subseteq Acks
    /\ unsaved \subseteq Acks
    /\ forgotten \subseteq Nat
    /\ counted \in [Replicas -> SUBSET Masters]
    /\ stale \in [Replicas -> BOOLEAN]
    /\ won \subseteq [node : Replicas, epoch : Nat, stale : BOOLEAN, voters : SUBSET Masters]

\* A cluster at rest: one epoch, saved everywhere, and Old serving its slots.
Init ==
    /\ currentEpoch = [n \in Nodes |-> 1]
    /\ lastVoteEpoch = [n \in Nodes |-> 0]
    /\ owner = [n \in Nodes |-> [node |-> Old, epoch |-> 1]]
    /\ todo = [n \in Nodes |-> FALSE]
    /\ disk = [n \in Nodes |-> [epoch |-> 1, vote |-> 0, owner |-> [node |-> Old, epoch |-> 1]]]
    /\ auth = [r \in Replicas |-> NoElection]
    /\ reqs = {} /\ acks = {}
    /\ crashes = 0
    /\ voted = {} /\ unsaved = {} /\ forgotten = {} /\ won = {}
    /\ counted = [r \in Replicas |-> {}]
    /\ stale = [r \in Replicas |-> FALSE]

Later(x, y) == IF x < y THEN y ELSE x

-----------------------------------------------------------------------------
(* Saving, crashing                                                        *)

\* Mutant: nodes.conf is written without the slots.
ImageNoSlots(n) == [epoch |-> currentEpoch[n], vote |-> lastVoteEpoch[n]]

\* What clusterSaveConfig writes: the vars line and the nodes with their slots.
Image(n) == [epoch |-> currentEpoch[n], vote |-> lastVoteEpoch[n], owner |-> owner[n]]

\* clusterBeforeSleep writes nodes.conf and syncs it.
BeforeSleep(n) ==
    /\ todo[n] /\ todo' = [todo EXCEPT ![n] = FALSE]
    /\ disk' = [disk EXCEPT ![n] = Image(n)]
    /\ unsaved' = {a \in unsaved : a.from # n}
    /\ UNCHANGED <<currentEpoch, lastVoteEpoch, owner, auth, reqs, acks, crashes,
                   voted, forgotten, counted, stale, won>>

\* The vars line of nodes.conf.
VarsLine(n) == [epoch |-> disk[n].epoch, vote |-> disk[n].vote]

\* The process dies and comes back with nodes.conf.  Its connections are gone,
\* with what was on its way to it.
Crash(n) ==
    LET lost == {a \in unsaved : a.from = n}
    IN  /\ crashes < MaxCrashes
        /\ crashes' = crashes + 1
        /\ currentEpoch' = [currentEpoch EXCEPT ![n] = Later(VarsLine(n).epoch, disk[n].owner.epoch)]
        /\ lastVoteEpoch' = [lastVoteEpoch EXCEPT ![n] = VarsLine(n).vote]
        /\ owner' = [owner EXCEPT ![n] = disk[n].owner]
        /\ todo' = [todo EXCEPT ![n] = FALSE]
        /\ reqs' = {q \in reqs : q.to # n}
        /\ acks' = {a \in acks : a.to # n}
        /\ IF n \in Replicas
           THEN /\ auth' = [auth EXCEPT ![n] = NoElection]
                /\ counted' = [counted EXCEPT ![n] = {}]
                /\ stale' = [stale EXCEPT ![n] = FALSE]
           ELSE UNCHANGED <<auth, counted, stale>>
        /\ unsaved' = unsaved \ lost
        /\ forgotten' = forgotten \cup {a.epoch : a \in lost}
        /\ UNCHANGED <<disk, voted, won>>

-----------------------------------------------------------------------------
(* clusterHandleSlaveFailover                                              *)

\* Still a replica of the failing master, which has slots.
Candidate(r) == owner[r].node = Old

\* The retry time has elapsed: a new election is planned.
Schedule(r) ==
    /\ Candidate(r)
    /\ auth' = [auth EXCEPT ![r].phase = "planned", ![r].count = 0]
    /\ counted' = [counted EXCEPT ![r] = {}]
    /\ stale' = [stale EXCEPT ![r] = FALSE]
    /\ UNCHANGED <<currentEpoch, lastVoteEpoch, saved, todo, reqs, acks, crashes,
                   voted, unsaved, forgotten, won>>

\* The planned time has come: ask for votes in the next epoch.  The request is
\* sent to every node; one that is no voter only learns the epoch, as it does
\* from a heartbeat.  When this runs inside clusterBeforeSleep the save waits for
\* its next call, so the request can be under way before the epoch is saved.
Ask(r, force) ==
    /\ Candidate(r)
    /\ auth[r].phase = "planned"
    /\ currentEpoch[r] < MaxEpoch
    /\ currentEpoch' = [currentEpoch EXCEPT ![r] = @ + 1]
    /\ auth' = [auth EXCEPT ![r].phase = "sent", ![r].epoch = currentEpoch[r] + 1]
    /\ reqs' = reqs \cup {[from |-> r, to |-> m, epoch |-> currentEpoch[r] + 1,
                           config |-> owner[r].epoch, force |-> force] :
                          m \in {v \in Masters : v # Old \/ force}}
    /\ todo' = [todo EXCEPT ![r] = TRUE]
    /\ UNCHANGED <<lastVoteEpoch, saved, acks, crashes, history>>

\* Mutant: half of the masters are enough.
NeededQuorumHalf == Cardinality(Masters) \div 2

needed_quorum == Cardinality(Masters) \div 2 + 1

\* The votes counted since the election was planned reach the quorum.
Elected(r) ==
    /\ Candidate(r)
    /\ auth[r].phase = "sent" /\ auth[r].count >= needed_quorum

\* clusterFailoverReplaceYourMaster claims the slots under the epoch of the
\* election and saves at once.
Win(r) ==
    /\ Elected(r)
    /\ owner' = [owner EXCEPT ![r] = [node |-> r, epoch |-> auth[r].epoch]]
    /\ disk' = [disk EXCEPT ![r] = [Image(r) EXCEPT !.owner = owner'[r]]]
    /\ todo' = [todo EXCEPT ![r] = FALSE]
    /\ unsaved' = {a \in unsaved : a.from # r}
    /\ won' = won \cup {[node |-> r, epoch |-> auth[r].epoch, stale |-> stale[r], voters |-> counted[r]]}
    /\ UNCHANGED <<currentEpoch, lastVoteEpoch, auth, reqs, acks, crashes,
                   voted, forgotten, counted, stale>>

-----------------------------------------------------------------------------
(* clusterProcessPacket                                                    *)

\* Mutant: the last vote is not looked at.
MayVoteAgain(m, q) ==
    /\ q.epoch >= currentEpoch[m]
    /\ owner[m].node # q.from
    /\ m # Old \/ (owner[Old].node = Old /\ q.force)
    /\ owner[m].epoch <= q.config

\* clusterSendFailoverAuthIfNeeded: a master with slots, not past the epoch, that
\* has not voted in it; the requester is a replica of a master that is flagged
\* FAIL (nobody flags itself) unless the request is forced; and no slot claimed is
\* known to be served under a newer configuration.
MayVote(m, q) ==
    /\ q.epoch >= currentEpoch[m]
    /\ lastVoteEpoch[m] # Later(currentEpoch[m], q.epoch)
    /\ owner[m].node # q.from
    /\ m # Old \/ (owner[Old].node = Old /\ q.force)
    /\ owner[m].epoch <= q.config

\* The epoch of a request is adopted before anything else.  As a rule the ACK is
\* written in the turn after clusterBeforeSleep has saved the vote, and a crash
\* before that loses both.  But AE_BARRIER orders the two events of one
\* descriptor only: a link that had packets queued can be writable in the same
\* poll as the request is read, and its handler then drains the queue, the
\* ACK included, before anything is saved (`early`).
Vote(m, q, early) ==
    LET ack == VoteOf(m, q.from, q.epoch)
    IN  /\ q \in reqs /\ q.to = m
        /\ MayVote(m, q)
        /\ reqs' = reqs \ {q}
        /\ currentEpoch' = [currentEpoch EXCEPT ![m] = Later(@, q.epoch)]
        /\ lastVoteEpoch' = [lastVoteEpoch EXCEPT ![m] = currentEpoch'[m]]
        /\ todo' = [todo EXCEPT ![m] = early]
        /\ disk' = IF early THEN disk
                   ELSE [disk EXCEPT ![m] = [epoch |-> currentEpoch'[m], vote |-> lastVoteEpoch'[m],
                                             owner |-> owner[m]]]
        /\ acks' = acks \cup {ack}
        /\ voted' = voted \cup {ack}
        /\ unsaved' = IF early THEN unsaved \cup {ack} ELSE {a \in unsaved : a.from # m}
        /\ UNCHANGED <<owner, auth, crashes, forgotten, counted, stale, won>>

\* Denied by a guard, or because the last vote about this master is too recent.
Deny(m, q) ==
    /\ q \in reqs /\ q.to = m
    /\ ~MayVote(m, q) \/ lastVoteEpoch[m] > 0
    /\ reqs' = reqs \ {q}
    /\ currentEpoch' = [currentEpoch EXCEPT ![m] = Later(@, q.epoch)]
    /\ UNCHANGED <<lastVoteEpoch, saved, todo, auth, acks, crashes, history>>

\* A vote counts when its sender is a master with slots and not behind the
\* epoch of the last election of this replica.
Counts(r, a) ==
    /\ a.from # Old \/ owner[r].node = Old
    /\ a.epoch >= auth[r].epoch

\* FAILOVER_AUTH_ACK.
ReceiveAck(r, a) ==
    /\ a \in acks /\ a.to = r
    /\ acks' = acks \ {a}
    /\ currentEpoch' = [currentEpoch EXCEPT ![r] = Later(@, a.epoch)]
    /\ IF Counts(r, a)
       THEN /\ auth' = [auth EXCEPT ![r].count = @ + 1]
            /\ counted' = [counted EXCEPT ![r] = @ \cup {a.from}]
            /\ stale' = [stale EXCEPT ![r] = @ \/ auth[r].phase # "sent" \/ a.epoch # auth[r].epoch]
       ELSE UNCHANGED <<auth, counted, stale>>
    /\ UNCHANGED <<lastVoteEpoch, saved, todo, reqs, crashes, voted, unsaved, forgotten, won>>

\* Mutant: the slots in the header are taken for the sender's own.
ClaimSender(a) == [node |-> a, epoch |-> owner[a].epoch]

\* clusterBuildMessageHdr: a replica sends the slots and configEpoch of its master.
Claim(a) == owner[a]

\* clusterUpdateSlotsConfigWith: the slots go to the claim with the greater configEpoch.
Newer(a, b) == owner[a].epoch > owner[b].epoch

\* clusterHandleConfigEpochCollision: of two masters under one configEpoch the one
\* with the smaller name has to move.
Collides(a, b) ==
    /\ owner[a].node = a /\ owner[b].node = b
    /\ owner[a].epoch = owner[b].epoch /\ Name[a] > Name[b]

\* A PING or PONG of a is processed by b.  The epoch is adopted, not saved.  A
\* claim is taken up when it is the sender's own or, where b still took a for the
\* master, that of the master a now follows.  After a collision b takes an epoch
\* of its own and saves at once.
Heartbeat(a, b) ==
    LET epoch == Later(currentEpoch[b], currentEpoch[a])
        news == (owner[a].node = a \/ owner[b].node = a) /\ Newer(a, b)
        collides == Collides(a, b)
    IN  /\ a # b
        /\ currentEpoch[a] > currentEpoch[b] \/ news \/ collides
        /\ collides => epoch <= MaxEpoch
        /\ currentEpoch' = [currentEpoch EXCEPT ![b] = IF collides THEN epoch + 1 ELSE epoch]
        /\ owner' = [owner EXCEPT ![b] = IF news THEN Claim(a)
                                        ELSE IF collides THEN [node |-> b, epoch |-> epoch + 1] ELSE @]
        /\ todo' = [todo EXCEPT ![b] = (@ \/ news) /\ ~collides]
        /\ disk' = IF collides THEN [disk EXCEPT ![b] = [epoch |-> epoch + 1, vote |-> lastVoteEpoch[b],
                                                        owner |-> owner'[b]]] ELSE disk
        /\ unsaved' = IF collides THEN {v \in unsaved : v.from # b} ELSE unsaved
        /\ UNCHANGED <<lastVoteEpoch, auth, reqs, acks, crashes, voted, forgotten, counted, stale, won>>

\* The header of b, a node of the shard, claims the slots for an owner that a
\* knows to be outdated: a answers with an UPDATE, which b applies.
Update(a, b) ==
    /\ b \in {Old} \cup Replicas /\ owner[a].node \notin {a, b}
    /\ Newer(a, b)
    /\ currentEpoch' = [currentEpoch EXCEPT ![b] = Later(@, currentEpoch[a])]
    /\ owner' = [owner EXCEPT ![b] = owner[a]]
    /\ todo' = [todo EXCEPT ![b] = TRUE]
    /\ UNCHANGED <<lastVoteEpoch, disk, auth, reqs, acks, crashes, history>>

Next ==
    \/ \E n \in Nodes : BeforeSleep(n) \/ Crash(n)
    \/ \E r \in Replicas : Schedule(r) \/ Win(r)
    \/ \E r \in Replicas, force \in Forces : Ask(r, force)
    \/ \E q \in reqs : Deny(q.to, q) \/ \E early \in Busy : Vote(q.to, q, early)
    \/ \E a \in acks : ReceiveAck(a.to, a)
    \/ \E a, b \in Nodes : Heartbeat(a, b) \/ Update(a, b)

Spec == Init /\ [][Next]_vars

-----------------------------------------------------------------------------
(* Properties                                                              *)

\* What the comment above clusterHandleConfigEpochCollision says: "It is not
\* possible that different slaves get the same config epoch during a failover
\* election, because the slaves need to get voted by a majority."
OneWinnerPerEpoch == \A v, w \in won : v.epoch = w.epoch => v.node = w.node

\* There are exactly two ways around the majority: failover_auth_count is not
\* cleared when the election starts, so it may hold an ACK of another election;
\* and a crash may undo a vote whose ACK has left.  Without these, however
\* elections, late packets, heartbeats and crashes interleave, an epoch has one winner.
MajorityElects ==
    \A v, w \in won :
        /\ v.epoch = w.epoch /\ v.epoch \notin forgotten
        /\ ~v.stale /\ ~w.stale
        => v.node = w.node

\* A voter gives one vote per epoch, apart from the epochs in which some voter's
\* crash undid a vote that had left before it was saved; and what a voter has saved
\* never claims a vote in an epoch it has not reached.
OneVotePerEpoch ==
    /\ \A a, b \in voted :
          a.from = b.from /\ a.epoch = b.epoch /\ a.epoch \notin forgotten => a.to = b.to
    /\ \A n \in Nodes : disk[n].vote <= disk[n].epoch

\* Whoever is taken for the owner of the slots, by any node or any nodes.conf, is
\* Old under its first epoch or has won an election, under that epoch or a later
\* one it moved to after a collision; no claim is ahead of the epoch of its holder.
ClaimsWon ==
    \A n \in Nodes :
        /\ \A o \in {owner[n], disk[n].owner} :
              \/ o = [node |-> Old, epoch |-> 1]
              \/ \E w \in won : w.node = o.node /\ w.epoch <= o.epoch
        /\ owner[n].epoch <= currentEpoch[n]

-----------------------------------------------------------------------------
(* The inductive invariant                                                 *)

\* Epochs start at one and an election's epoch is a later one; a node is never
\* behind its last vote or its last election.
EpochInv ==
    /\ \A n \in Nodes :
          /\ currentEpoch[n] >= 1 /\ disk[n].epoch >= 1
          /\ lastVoteEpoch[n] <= currentEpoch[n] /\ disk[n].vote <= disk[n].epoch
    /\ \A r \in Replicas :
          /\ auth[r].epoch <= currentEpoch[r]
          /\ auth[r].phase = "sent" => auth[r].epoch >= 2
    /\ \A w \in won : w.epoch >= 2

\* A vote is remembered by its voter, on disk too unless it is still unsaved, or
\* its epoch is one of those a crash has undone.
VoteInv ==
    \A a \in voted :
        a.epoch \notin forgotten =>
            /\ a.epoch <= lastVoteEpoch[a.from]
            /\ a \in unsaved \/ a.epoch <= disk[a.from].vote

\* The count of an election is the number of its voters, each of which has voted
\* for it once: the ACK that was counted is not under way any more.
CountInv ==
    /\ acks \subseteq voted
    /\ \A r \in Replicas :
          ~stale[r] =>
            IF auth[r].phase = "sent"
            THEN auth[r].epoch \notin forgotten =>
                   /\ auth[r].count = Cardinality(counted[r])
                   /\ \A m \in counted[r] : VoteOf(m, r, auth[r].epoch) \in voted \ acks
            ELSE auth[r].count = 0 /\ counted[r] = {}

\* Who has won was voted for by a majority.
WinnerInv ==
    \A w \in won :
        ~w.stale /\ w.epoch \notin forgotten =>
            /\ Cardinality(w.voters) >= needed_quorum
            /\ \A m \in w.voters : VoteOf(m, w.node, w.epoch) \in voted

IndInv ==
    /\ TypeOK
    /\ EpochInv
    /\ VoteInv
    /\ CountInv
    /\ WinnerInv
    /\ OneVotePerEpoch
    /\ ClaimsWon
=============================================================================
