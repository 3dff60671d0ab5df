-------------------------------- MODULE Psync --------------------------------
(***************************************************************************)
(* Redis replication (redis-stable/src/replication.c): a replica follows   *)
(* its master's stream of writes, and after a broken link, a failover or a *)
(* restart asks with PSYNC for the part it misses, naming the history it   *)
(* has by replication ID and offset.                                       *)
(*                                                                         *)
(* A write counts for one unit of offset, a dataset is the sequence of the *)
(* writes it results from, and the random replication IDs never repeat.    *)
(* AOF is off, and a payload is loaded from disk.  A link is a connection  *)
(* as its replica sees it: what its master has put into it and the replica *)
(* has not read.  A handler of the single-threaded event loop is one       *)
(* action.                                                                 *)
(***************************************************************************)
EXTENDS Integers, Sequences, SequencesExt, Relation

CONSTANTS
    Nodes,
    First,        \* the master the other nodes are configured to replicate
    BacklogSize,  \* repl-backlog-size: the backlog is not trimmed below it
    MaxWrites,    \* bound: writes of clients
    MaxEvents     \* bound: failures, restarts, saves and commands of the operator

ASSUME FirstAssumption == First \in Nodes
ASSUME BoundsAssumption == BacklogSize \in Nat /\ MaxWrites \in Nat /\ MaxEvents \in Nat

VARIABLES
    masterhost,      \* server.masterhost
    data,            \* the dataset
    replid,          \* server.replid
    replid2,         \* server.replid2 and second_replid_offset
    offset,          \* server.master_repl_offset
    backlog,         \* server.repl_backlog: its last byte is the one at offset
    cached,          \* server.cached_master: its replid and reploff
    link,            \* the connection to the master
    rdb,             \* dump.rdb: the dataset, with its ID and offset when they are known
    drawn,           \* history: replication IDs drawn by each node
    writes, events

vars == <<masterhost, data, replid, replid2, offset, backlog, cached, link, rdb,
          drawn, writes, events>>

NoHost == "no one"
ASSUME HostAssumption == NoHost \notin Nodes

NoBacklog == [exists |-> FALSE, hist |-> <<>>]
Backlog(hist) == [exists |-> TRUE, hist |-> hist]
NoId == <<>>
NoId2 == [id |-> NoId, upto |-> -1]
NoMaster == [id |-> NoId, offset |-> -2]     \* PSYNC ? -1
Down == [phase |-> "down"]

Init ==
    /\ masterhost = [n \in Nodes |-> IF n = First THEN NoHost ELSE First]
    /\ data = [n \in Nodes |-> <<>>]
    /\ drawn = [n \in Nodes |-> 1]
    /\ replid = [n \in Nodes |-> <<n, 1>>]
    /\ replid2 = [n \in Nodes |-> NoId2]
    /\ offset = [n \in Nodes |-> 0]
    /\ backlog = [n \in Nodes |-> NoBacklog]
    /\ cached = [n \in Nodes |-> NoMaster]
    /\ link = [n \in Nodes |-> Down]
    /\ rdb = [n \in Nodes |-> [data |-> <<>>, id |-> NoId, offset |-> 0]]
    /\ writes = 0 /\ events = 0

\* Mutant: the new ID is left empty.
RandomEmpty(n) == NoId

\* getRandomHexChars
Random(n) == <<n, drawn[n] + 1>>
Draw(n) == drawn' = [drawn EXCEPT ![n] = @ + 1]

Event == events < MaxEvents /\ events' = events + 1

-----------------------------------------------------------------------------
(* The replicas of a node and their output buffers                         *)

\* server.slaves
Slaves(n) == {r \in Nodes : /\ masterhost[r] = n
                            /\ link[r].phase \in {"wait", "full", "continue", "online"}
                            /\ ~link[r].closed}

\* disconnectSlaves: what is in the connection may still arrive.
DisconnectSlaves(n, links) ==
    [k \in Nodes |-> IF k \in Slaves(n) THEN [links[k] EXCEPT !.closed = TRUE] ELSE links[k]]

\* feedReplicationBuffer: to the replicas that are past the start of their BGSAVE.
FeedSlaves(n, w, links) ==
    [k \in Nodes |-> IF k \in Slaves(n) /\ links[k].phase # "wait"
                     THEN [links[k] EXCEPT !.queue = Append(@, w)] ELSE links[k]]

\* incrementalTrimReplicationBacklog: blocks that some replica still refers to
\* stay, so the backlog may keep more than its size, never less.
Trims(hist) ==
    {Backlog(SubSeq(hist, k, Len(hist))) :
        k \in {1} \cup 1..(Len(hist) - BacklogSize + 1)}

\* A write of a client.  Without replicas and backlog the offset stands still.
Write(n) ==
    /\ masterhost[n] = NoHost
    /\ writes < MaxWrites /\ writes' = writes + 1
    /\ data' = [data EXCEPT ![n] = Append(@, writes')]
    /\ IF backlog[n].exists
       THEN /\ offset' = [offset EXCEPT ![n] = @ + 1]
            /\ \E b \in Trims(Append(backlog[n].hist, writes')) : backlog' = [backlog EXCEPT ![n] = b]
            /\ link' = FeedSlaves(n, writes', link)
       ELSE UNCHANGED <<offset, backlog, link>>
    /\ UNCHANGED <<masterhost, replid, replid2, cached, rdb, drawn, events>>

\* A replica executes the next command of its master and passes it on.
Apply(r) ==
    /\ link[r].phase = "online" /\ link[r].queue # <<>>
    /\ LET w == Head(link[r].queue)
       IN  /\ data' = [data EXCEPT ![r] = Append(@, w)]
           /\ offset' = [offset EXCEPT ![r] = @ + 1]
           /\ \E b \in Trims(Append(backlog[r].hist, w)) : backlog' = [backlog EXCEPT ![r] = b]
           /\ link' = FeedSlaves(r, w, [link EXCEPT ![r].queue = Tail(@)])
    /\ UNCHANGED <<masterhost, replid, replid2, cached, rdb, drawn, writes, events>>

-----------------------------------------------------------------------------
(* Synchronization                                                         *)

\* slaveTryPartialResynchronization, writing half, at the end of the handshake.
Ask(r) ==
    /\ masterhost[r] # NoHost
    /\ link[r].phase = "down"
    /\ link' = [link EXCEPT ![r] = [phase |-> "asked", id |-> cached[r].id, from |-> cached[r].offset + 1]]
    /\ UNCHANGED <<masterhost, data, replid, replid2, offset, backlog, cached, rdb, drawn, writes, events>>

Connected(n) == masterhost[n] = NoHost \/ link[n].phase = "online"

\* -NOMASTERLINK: the replica tries again later.
Refuse(r) ==
    /\ link[r].phase = "asked" /\ ~Connected(masterhost[r])
    /\ link' = [link EXCEPT ![r] = Down]
    /\ UNCHANGED <<masterhost, data, replid, replid2, offset, backlog, cached, rdb, drawn, writes, events>>

\* Mutant: the second ID is accepted whatever the offset.
CanContinueId2(m, id, from) ==
    /\ id \in {replid[m], replid2[m].id}
    /\ backlog[m].exists
    /\ from \in (offset[m] - Len(backlog[m].hist) + 1)..(offset[m] + 1)

\* masterTryPartialResynchronization: the history is the one of replid, or of
\* replid2 up to second_replid_offset, and the backlog still reaches back to it.
CanContinue(m, id, from) ==
    /\ id = replid[m] \/ (id = replid2[m].id /\ from <= replid2[m].upto)
    /\ backlog[m].exists
    /\ from \in (offset[m] - Len(backlog[m].hist) + 1)..(offset[m] + 1)

\* addReplyReplicationBacklog: the backlog from an offset on.
Missing(m, from) ==
    LET hist == backlog[m].hist
    IN  SubSeq(hist, from - (offset[m] - Len(hist)), Len(hist))

\* +CONTINUE, followed by the backlog from the offset asked for.
AcceptPartial(r) ==
    LET m == masterhost[r]
    IN  /\ link[r].phase = "asked" /\ Connected(m)
        /\ CanContinue(m, link[r].id, link[r].from)
        /\ link' = [link EXCEPT ![r] = [phase |-> "continue", closed |-> FALSE, id |-> replid[m],
                                        queue |-> Missing(m, link[r].from)]]
        /\ UNCHANGED <<masterhost, data, replid, replid2, offset, backlog, cached, rdb, drawn, writes, events>>

\* Mutant: the backlog is only created by the next write.
createReplicationBacklogLater(m) == UNCHANGED <<replid, replid2, backlog, drawn>>

\* createReplicationBacklogIfNeeded: a backlog from scratch starts a new history.
createReplicationBacklogIfNeeded(m) ==
    IF backlog[m].exists THEN UNCHANGED <<replid, replid2, backlog, drawn>>
    ELSE /\ replid' = [replid EXCEPT ![m] = Random(m)]
         /\ Draw(m)
         /\ replid2' = [replid2 EXCEPT ![m] = NoId2]
         /\ backlog' = [backlog EXCEPT ![m] = Backlog(<<>>)]

\* syncCommand when a full resynchronization is needed: wait for the next BGSAVE,
\* or share the one under way for another replica, with a copy of what is kept for
\* that one since it started.
AcceptFull(r) ==
    LET m == masterhost[r]
        shared == {link[o] : o \in {k \in Slaves(m) : link[k].phase = "full"}}
    IN  /\ link[r].phase = "asked" /\ Connected(m)
        /\ ~CanContinue(m, link[r].id, link[r].from)
        /\ \E l \in {[phase |-> "wait", closed |-> FALSE]} \cup shared :
              link' = [link EXCEPT ![r] = l]
        /\ createReplicationBacklogIfNeeded(m)
        /\ UNCHANGED <<masterhost, data, offset, cached, rdb, writes, events>>

\* rdbPopulateSaveInfo: whether the ID and the offset stand for the dataset.
KnowsOffset(n) ==
    IF masterhost[n] = NoHost /\ backlog[n].exists THEN TRUE
    ELSE link[n].phase = "online" \/ cached[n] # NoMaster

\* What rdbSave writes.
Dump(n) == [data |-> data[n], id |-> IF KnowsOffset(n) THEN replid[n] ELSE NoId,
            offset |-> IF KnowsOffset(n) THEN offset[n] ELSE 0]

\* startBgsaveForReplication: the replicas that wait get +FULLRESYNC, and from
\* here on the writes are kept for them; without replication info they are dropped.
\* With a disk as its target the payload becomes the node's own dump as well.
StartBgsave(m) ==
    LET waiting == {r \in Slaves(m) : link[r].phase = "wait"}
        sync == [phase |-> "full", closed |-> FALSE, data |-> data[m],
                 id |-> replid[m], offset |-> offset[m], queue |-> <<>>]
    IN  /\ waiting # {}
        /\ link' = [k \in Nodes |-> IF k \notin waiting THEN link[k]
                                    ELSE IF KnowsOffset(m) THEN sync ELSE Down]
        /\ \/ UNCHANGED rdb
           \/ KnowsOffset(m) /\ rdb' = [rdb EXCEPT ![m] = Dump(m)]
        /\ UNCHANGED <<masterhost, data, replid, replid2, offset, backlog, cached, drawn, writes, events>>

\* slaveTryPartialResynchronization, reading half: +CONTINUE.  A new ID of the
\* master becomes the ID, the old one is valid up to here, and the sub-replicas
\* have to ask again.
Continue(r) ==
    LET new == link[r].id # cached[r].id
        online == [link EXCEPT ![r].phase = "online"]
    IN  /\ link[r].phase = "continue"
        /\ replid2' = IF new THEN [replid2 EXCEPT ![r] = [id |-> cached[r].id, upto |-> offset[r] + 1]]
                      ELSE replid2
        /\ replid' = IF new THEN [replid EXCEPT ![r] = link[r].id] ELSE replid
        /\ link' = IF new THEN DisconnectSlaves(r, online) ELSE online
        /\ cached' = [cached EXCEPT ![r] = NoMaster]
        /\ backlog' = [backlog EXCEPT ![r].exists = TRUE]
        /\ UNCHANGED <<masterhost, data, offset, rdb, drawn, writes, events>>

\* readSyncBulkPayload: the dataset gives way to the payload, and the
\* sub-replicas and the backlog go with it; the history of the master is taken over.
Load(r) ==
    LET l == link[r]
        online == [link EXCEPT ![r] = [phase |-> "online", closed |-> l.closed, id |-> l.id, queue |-> l.queue]]
    IN  /\ l.phase = "full"
        /\ data' = [data EXCEPT ![r] = l.data]
        /\ rdb' = [rdb EXCEPT ![r] = [data |-> l.data, id |-> l.id, offset |-> l.offset]]
        /\ replid' = [replid EXCEPT ![r] = l.id]
        /\ offset' = [offset EXCEPT ![r] = l.offset]
        /\ replid2' = [replid2 EXCEPT ![r] = NoId2]
        /\ backlog' = [backlog EXCEPT ![r] = Backlog(<<>>)]
        /\ cached' = [cached EXCEPT ![r] = NoMaster]
        /\ link' = DisconnectSlaves(r, online)
        /\ UNCHANGED <<masterhost, drawn, writes, events>>

\* The file cannot be synced or renamed, or is in place and the sync of its directory
\* fails, or the load does: then the old dataset is gone as well.  The ID and the
\* offset are still there.
LoadFails(r) ==
    LET renamed == [rdb EXCEPT ![r] = [data |-> link[r].data, id |-> link[r].id, offset |-> link[r].offset]]
    IN
    /\ Event
    /\ link[r].phase = "full"
    /\ \/ UNCHANGED <<data, rdb>>
       \/ UNCHANGED data /\ rdb' = renamed
       \/ data' = [data EXCEPT ![r] = <<>>] /\ rdb' = renamed
    /\ backlog' = [backlog EXCEPT ![r] = NoBacklog]
    /\ cached' = [cached EXCEPT ![r] = NoMaster]
    /\ link' = DisconnectSlaves(r, [link EXCEPT ![r] = Down])
    /\ UNCHANGED <<masterhost, replid, replid2, offset, drawn, writes>>

-----------------------------------------------------------------------------
(* Losing the master, changing the role                                    *)

\* replicationCacheMaster: what was received and not executed is asked for again.
\* freeClient does not cache a master that is blocked or broke the protocol.
MasterLost(r) ==
    IF link[r].phase = "online" THEN {[id |-> link[r].id, offset |-> offset[r]], NoMaster} ELSE {cached[r]}

\* replicationHandleMasterDisconnection, or the end of a handshake.
LoseMaster(r) ==
    /\ \E c \in MasterLost(r) : cached' = [cached EXCEPT ![r] = c]
    /\ link' = [link EXCEPT ![r] = Down]
    /\ UNCHANGED <<masterhost, data, replid, replid2, offset, backlog, rdb, drawn, writes>>

\* Mutant: the end of the connection goes unnoticed until it is used for commands.
LinkClosedOnline(r) ==
    /\ link[r].phase = "online" /\ link[r].closed
    /\ LoseMaster(r) /\ UNCHANGED events

\* The master has closed the connection.
LinkClosed(r) ==
    /\ link[r].phase \notin {"down", "asked"} /\ link[r].closed
    /\ LoseMaster(r) /\ UNCHANGED events

\* It breaks or times out.
LinkBroken(r) == link[r].phase # "down" /\ Event /\ LoseMaster(r)

\* shiftReplicationId: the old ID is valid up to the first byte not yet received.
SecondId(n) == [id |-> replid[n], upto |-> offset[n] + 1]

\* REPLICAOF NO ONE, a failover: replicationUnsetMaster.
UnsetMaster(n) ==
    /\ Event
    /\ masterhost[n] # NoHost
    /\ masterhost' = [masterhost EXCEPT ![n] = NoHost]
    /\ cached' = [cached EXCEPT ![n] = NoMaster]
    /\ replid2' = [replid2 EXCEPT ![n] = SecondId(n)]
    /\ replid' = [replid EXCEPT ![n] = Random(n)]
    /\ Draw(n)
    /\ link' = DisconnectSlaves(n, [link EXCEPT ![n] = Down])
    /\ UNCHANGED <<data, offset, backlog, rdb, writes>>

\* Whom a node follows, directly or through others.
Follows(r, n) == TransitiveClosure([x, y \in Nodes |-> masterhost[x] = y], Nodes)[r, n]

\* REPLICAOF h: replicationSetMaster.  A master goes on from its own ID and
\* offset.  Nobody is made to follow a node that follows it.
SetMaster(n, h) ==
    /\ Event
    /\ h \notin {n, masterhost[n]}
    /\ ~Follows(h, n)
    /\ masterhost' = [masterhost EXCEPT ![n] = h]
    /\ \E c \in IF masterhost[n] = NoHost THEN {[id |-> replid[n], offset |-> offset[n]]} ELSE MasterLost(n) :
          cached' = [cached EXCEPT ![n] = c]
    /\ link' = [link EXCEPT ![n] = Down]
    /\ UNCHANGED <<data, replid, replid2, offset, backlog, rdb, drawn, writes>>

\* Mutant: the ID outlives the backlog.
ExpireSameId(n) ==
    /\ masterhost[n] = NoHost /\ backlog[n].exists /\ Slaves(n) = {}
    /\ backlog' = [backlog EXCEPT ![n] = NoBacklog]
    /\ UNCHANGED <<masterhost, data, replid, replid2, offset, cached, link, rdb, drawn, writes, events>>

\* replicationCron: the backlog of a master without replicas is freed after a while.
Expire(n) ==
    /\ masterhost[n] = NoHost /\ backlog[n].exists /\ Slaves(n) = {}
    /\ replid' = [replid EXCEPT ![n] = Random(n)]
    /\ Draw(n)
    /\ replid2' = [replid2 EXCEPT ![n] = NoId2]
    /\ backlog' = [backlog EXCEPT ![n] = NoBacklog]
    /\ UNCHANGED <<masterhost, data, offset, cached, link, rdb, writes, events>>

-----------------------------------------------------------------------------
(* Saving, restarting                                                      *)

\* rdbSave with what rdbPopulateSaveInfo knows.
Save(n) ==
    /\ Event
    /\ rdb' = [rdb EXCEPT ![n] = Dump(n)]
    /\ rdb' # rdb
    /\ UNCHANGED <<masterhost, data, replid, replid2, offset, backlog, cached, link, drawn, writes>>

\* loadDataFromDisk after a crash, with replicaof as configured or gone: a replica
\* goes on from the saved ID and offset, a master keeps them as its second ID.
Restart(n, host) ==
    LET known == rdb[n].id # NoId
        replica == host # NoHost
        cut == DisconnectSlaves(n, link)
    IN  /\ Event
        /\ masterhost' = [masterhost EXCEPT ![n] = host]
        /\ data' = [data EXCEPT ![n] = rdb[n].data]
        /\ Draw(n)
        /\ replid' = [replid EXCEPT ![n] = IF known /\ replica THEN rdb[n].id ELSE Random(n)]
        /\ replid2' = [replid2 EXCEPT ![n] = IF known /\ ~replica
                                             THEN [id |-> rdb[n].id, upto |-> rdb[n].offset + 1] ELSE NoId2]
        /\ offset' = [offset EXCEPT ![n] = IF known THEN rdb[n].offset ELSE 0]
        /\ cached' = [cached EXCEPT ![n] = IF known /\ replica
                                           THEN [id |-> rdb[n].id, offset |-> rdb[n].offset] ELSE NoMaster]
        /\ backlog' = [backlog EXCEPT ![n] = IF known /\ ~replica THEN Backlog(<<>>) ELSE NoBacklog]
        /\ link' = [k \in Nodes |-> IF k = n \/ (masterhost[k] = n /\ link[k].phase = "asked")
                                    THEN Down ELSE cut[k]]
        /\ UNCHANGED <<rdb, writes>>

-----------------------------------------------------------------------------

Next ==
    \/ \E n \in Nodes :
          \/ Write(n) \/ Apply(n) \/ Ask(n) \/ Refuse(n) \/ AcceptPartial(n) \/ AcceptFull(n)
          \/ StartBgsave(n) \/ Continue(n) \/ Load(n) \/ LoadFails(n) \/ LinkClosed(n) \/ LinkBroken(n)
          \/ UnsetMaster(n) \/ Expire(n) \/ Save(n)
    \/ \E n, h \in Nodes : SetMaster(n, h)
    \/ \E n \in Nodes : \E host \in {NoHost, masterhost[n]} : Restart(n, host)

Spec == Init /\ [][Next]_vars

\* The event loop of every node goes on: replicationCron reconnects, and what has
\* arrived on a connection, its end included, is read.
Fairness ==
    \A n \in Nodes :
        /\ WF_vars(Apply(n)) /\ WF_vars(Ask(n)) /\ WF_vars(Refuse(n))
        /\ WF_vars(AcceptPartial(n)) /\ WF_vars(AcceptFull(n)) /\ WF_vars(StartBgsave(n))
        /\ WF_vars(Continue(n)) /\ WF_vars(Load(n))
        /\ WF_vars(LinkClosed(n))

FairSpec == Spec /\ Fairness

-----------------------------------------------------------------------------
(* Properties                                                              *)

Ids == Nodes \X Nat
Datasets == Seq(1..MaxWrites)
Links ==
    {Down}
    \cup [phase : {"asked"}, id : Ids \cup {NoId}, from : Nat \cup {-1}]
    \cup [phase : {"wait"}, closed : BOOLEAN]
    \cup [phase : {"full"}, closed : BOOLEAN, data : Datasets, id : Ids, offset : Nat, queue : Datasets]
    \cup [phase : {"continue", "online"}, closed : BOOLEAN, id : Ids, queue : Datasets]

TypeOK ==
    /\ masterhost \in [Nodes -> Nodes \cup {NoHost}]
    /\ data \in [Nodes -> Datasets]
    /\ replid \in [Nodes -> Ids]
    /\ replid2 \in [Nodes -> {NoId2} \cup [id : Ids, upto : Nat]]
    /\ offset \in [Nodes -> Nat]
    /\ backlog \in [Nodes -> [exists : BOOLEAN, hist : Datasets]]
    /\ cached \in [Nodes -> {NoMaster} \cup [id : Ids, offset : Nat]]
    /\ link \in [Nodes -> Links]
    /\ rdb \in [Nodes -> [data : Datasets, id : Ids \cup {NoId}, offset : Nat]]
    /\ drawn \in [Nodes -> Nat] /\ {writes, events} \subseteq Nat

\* What the assertions of replication.c rely on, across the handlers: there are no
\* replicas without a backlog, and a replica has a master or a cached one, never
\* both; either stands for the ID and the offset the server itself goes by.
Coherent ==
    \A n \in Nodes :
        /\ Slaves(n) # {} => backlog[n].exists
        /\ link[n].phase = "online" => /\ cached[n] = NoMaster /\ backlog[n].exists
                                       /\ link[n].id = replid[n]
        /\ cached[n] # NoMaster => /\ masterhost[n] # NoHost
                                   /\ cached[n] = [id |-> replid[n], offset |-> offset[n]]

\* A connected replica, once it has executed what is in the connection, has its
\* master's dataset: neither a partial resynchronization nor a payload with the
\* writes kept since it was taken leaves a gap, a repetition or a write the
\* master does not have.
InSync ==
    \A r \in Nodes :
        /\ masterhost[r] # NoHost /\ link[r].phase \in {"continue", "online", "full"} /\ ~link[r].closed
        => (IF link[r].phase = "full" THEN link[r].data ELSE data[r]) \o link[r].queue = data[masterhost[r]]

\* The datasets that are named by an ID and an offset: of the nodes that know
\* theirs, and of the saved files.
Named ==
    {[id |-> replid[n], offset |-> offset[n], data |-> data[n]] : n \in {k \in Nodes : KnowsOffset(k)}}
    \cup {rdb[n] : n \in {k \in Nodes : rdb[k].id # NoId}}

\* An ID and an offset name one dataset, whoever uses them: what a node has at an
\* offset is the beginning of what any other has at a later offset of that ID.
OneHistory == \A x, y \in Named : x.id = y.id /\ x.offset <= y.offset => IsPrefix(x.data, y.data)

\* Once the clients stop writing, the operator stops changing roles and the
\* failures stop, every replica ends up with its master's dataset for good.
Converges ==
    <>[](\A r \in Nodes : masterhost[r] # NoHost => data[r] = data[masterhost[r]])
-----------------------------------------------------------------------------
(* The inductive invariant                                                 *)

\* A node that follows a master, or will be able to again: REPLICAOF of the master
\* starts from the node's own ID, and the link and the cached master go by it.
RoleOK(n) ==
    /\ masterhost[n] # n
    /\ masterhost[n] = NoHost => link[n].phase = "down" /\ cached[n] = NoMaster
    /\ link[n].phase = "online" => /\ cached[n] = NoMaster /\ backlog[n].exists
                                   /\ link[n].id = replid[n]
    /\ cached[n] # NoMaster => cached[n] = [id |-> replid[n], offset |-> offset[n]]
    /\ link[n].phase = "asked" => link[n].id = cached[n].id /\ link[n].from = cached[n].offset + 1
    /\ link[n].phase = "continue" => cached[n] # NoMaster

\* The backlog is the end of the dataset, and the second ID is about a beginning of it.
BacklogOK(n) ==
    LET hist == backlog[n].hist
        beyond == offset[n] + 1 - replid2[n].upto
    IN  /\ ~backlog[n].exists => hist = <<>>
        /\ Len(hist) <= offset[n] /\ Len(hist) <= Len(data[n])
        /\ \A i \in 1..Len(hist) : hist[i] = data[n][Len(data[n]) - Len(hist) + i]
        /\ backlog[n].exists /\ replid2[n] # NoId2 => 0 <= beyond /\ beyond <= Len(data[n])

\* The claims that an ID and an offset stand for a dataset: of a node, of its second
\* ID, of its file, and of the connection to its master once all of it is read.
Kinds == {"own", "second", "file", "stream"}

Claim(kind, n) ==
    CASE kind = "own"    -> [id |-> replid[n], offset |-> offset[n], data |-> data[n]]
      [] kind = "second" -> [id |-> replid2[n].id, offset |-> replid2[n].upto - 1,
                             data |-> SubSeq(data[n], 1, Len(data[n]) - (offset[n] + 1 - replid2[n].upto))]
      [] kind = "file"   -> rdb[n]
      [] kind = "stream" -> IF link[n].phase = "full"
                            THEN [id |-> link[n].id, offset |-> link[n].offset + Len(link[n].queue),
                                  data |-> link[n].data \o link[n].queue]
                            ELSE [id |-> link[n].id, offset |-> offset[n] + Len(link[n].queue),
                                  data |-> data[n] \o link[n].queue]

Streaming(n) == link[n].phase \in {"full", "continue", "online"}

Made(kind, n) ==
    CASE kind = "own"    -> KnowsOffset(n) \/ backlog[n].exists
      [] kind = "second" -> backlog[n].exists /\ replid2[n] # NoId2
      [] kind = "file"   -> rdb[n].id # NoId
      [] kind = "stream" -> Streaming(n)

\* Claims with the same ID are about beginnings of one history.
Compatible(x, y) ==
    x.id = y.id => /\ x.offset - Len(x.data) = y.offset - Len(y.data)
                   /\ \A i \in DOMAIN x.data \cap DOMAIN y.data : x.data[i] = y.data[i]

HistoryInv ==
    \A k, l \in Kinds, n, m \in Nodes : Made(k, n) /\ Made(l, m) => Compatible(Claim(k, n), Claim(l, m))

\* IDs are not drawn twice.
DrawnInv == \A k \in Kinds, n \in Nodes : Made(k, n) => Claim(k, n).id[2] <= drawn[Claim(k, n).id[1]]

\* A master has drawn its ID itself, and nobody is ahead of it.
MasterInv ==
    \A m \in Nodes : masterhost[m] = NoHost =>
        /\ replid[m][1] = m /\ replid[m][2] <= drawn[m]
        /\ \A k \in Kinds, n \in Nodes :
              Made(k, n) /\ Claim(k, n).id = replid[m] => backlog[m].exists /\ Claim(k, n).offset <= offset[m]

\* A node without a backlog that has, or had, the role of a master under its ID: it
\* has served nobody under that ID.
Private(n) ==
    /\ ~backlog[n].exists
    /\ masterhost[n] = NoHost \/ (cached[n] # NoMaster /\ replid2[n] # NoId2)

PrivateInv ==
    \A n \in Nodes : Private(n) =>
        /\ link[n].phase # "continue"
        /\ \A k \in Kinds, m \in Nodes :
              Made(k, m) /\ Claim(k, m).id = replid[n] => m = n /\ k \in {"own", "file"}

\* An open connection ends where its master is.
ConnectionOK(r) ==
    LET m == masterhost[r]
    IN  r \in Slaves(m) => /\ backlog[m].exists
                           /\ link[r].phase # "wait" => Claim("stream", r) = Claim("own", m)

IndInv ==
    /\ TypeOK
    /\ \A n \in Nodes : RoleOK(n) /\ BacklogOK(n) /\ ConnectionOK(n)
    /\ HistoryInv /\ DrawnInv /\ MasterInv /\ PrivateInv
=============================================================================
