# Slideo.ai: TLA+ specifications

Slideo.ai is an Express/Prisma backend that generates slide decks with an AI
model, stores them in PostgreSQL, shares them by link and lets several people
edit one deck over socket.io. These modules model the parts of it whose
correctness depends on an order of events: several requests of one user in
flight, overlapping database transactions, collaborators that come and go.

The program's own code is `src/backend/src` (about 2600 lines of TypeScript)
and `src/backend/prisma`. `src/backend/redis-stable` is a vendored copy of Redis,
some 198000 lines of C that the application would reach only through an unused
worker queue. It is by far the largest part of the repository, so three of its
mechanisms are modelled too, those whose correctness depends most on the order
of events: the election of a cluster's masters, partial resynchronization, and
the walk of a hash table that is being rehashed. The rest of it is not, which
leaves most lines of the repository without a model; section 5 says which. The
browser client is not in the repository.

## 1. Inventory

| Component | State | Operations | What makes it correct |
|---|---|---|---|
| Monthly quota (`limitMiddleware`, `presentationController`) | `User.presentationsCreatedThisMonth`, `User.lastUsageReset`; a local copy of the row per request | `checkLimits` (read, reset on a new month, test), `createPresentation` (generate, save, increment), `generateSingleSlide` | the limit is overshot by no more than concurrency explains; nobody is charged for, or refused over, decks that were not made |
| Presentation store (`presentationController`, `exportController`) | tables `Presentation`, `Slide` | nested create, `updatePresentation`, `deletePresentation`, list, load, export | decks are replaced whole or not at all; nothing is left behind by a delete; only the owner writes; reads are whole |
| Share links (`shareController`) | table `ShareToken` | `createShareLink`, `resolveShareToken`, `getSharedPresentation` | no link to a deleted deck; expired links are refused |
| Live collaboration (`collaborationSocket`) | the in-memory map `rooms`; socket.io's own membership; colours, cursors | connect, `join-room`, `leave-room`, `slide-update`, `cursor-move`, disconnect | the two memberships agree; every client ends with the server's roster; who leaves disappears |
| Accounts (`authController`, `googleAuthController`, `auth`) | table `User` | signup, login, Google login, token check | one account per e-mail whatever overlaps |
| Slide generation (`aiService`, `checkSlideCountLimit`) | none | prompt, parse, map to layouts and themes, fall back | as many slides as asked and allowed, in the layouts of the template, in the chosen theme |
| Templates (`templateController`, `seedTemplates`) | tables `Template`, `TemplateSlide` | list, get, use; reseed | a deck made from a template has its slides |
| PPTX import (`importController`) | table `ImportedPpt` | upload, convert | one slide per slide of the file |
| Cluster election (`redis-stable/src/cluster_legacy.c`) | `currentEpoch`, `lastVoteEpoch`, `failover_auth_*`, slot owners with their configEpoch; `nodes.conf` | plan, ask, vote, count, take over; heartbeats, UPDATEs, collisions; save, crash | one winner per epoch; one vote per epoch; nobody owns slots unelected |
| Replication (`replication.c`, `rdb.c`) | `replid`, `replid2`, offsets, backlog, cached master, the replicas' buffers; `dump.rdb` | write, apply, PSYNC, full resynchronization, promotion, loss of links, backlog expiry; save, restart | a connected replica misses and repeats nothing; an ID and offset name one dataset; replicas converge |
| Hash table (`dict.c`) | two tables, `rehashidx`, resize policy; a walk's cursor | add, delete, find, rehash step, resize, flush, SCAN | every key is found at any moment; a walk returns what stays, and ends |
| Plan overview, e-mail, image upload, worker, bootstrap | none of their own | single reads, calls to outside services, wiring | - |

How they interact. Every HTTP handler runs on one Node event loop and loses
control at each `await`; requests therefore interleave between statements, and
the database is the only thing they share. `checkLimits` runs before
`createPresentation` and leaves the decision to be acted on many seconds later.
`createPresentation`, `useTemplate` and `convertPptToPresentation` write decks
with the same nested create. `ShareToken` refers to `Presentation` with a
RESTRICT foreign key, so sharing constrains deletion. The socket handlers contain
no `await` and touch no table: each is atomic, and what they emit travels.

What is hard. The quota is a read, a long wait and a write. The editor auto-saves,
so saves of one deck overlap each other, deletes and reads, under READ COMMITTED.
A save and a delete take their locks in opposite orders and can deadlock. A
transaction can fail between its statements. The roster of a room is built by
each client from a snapshot and from events that race with it. `PROJECT.json`
lists the hazards, each at its line, with the properties that would catch it.

## 2. Modules

```
UsageLimits        <- MCUsageLimits, UsageLimitsProofs
DeckStore          (abstract store of whole decks)
DeckTransactions   -- implements DeckStore;  <- MCDeckTransactions, DeckTransactionsProofs
CollabRooms        <- MCCollabRooms, CollabRoomsProofs
SlideGeneration    <- MCSlideGeneration, SlideGenerationProofs
Accounts           <- MCAccounts, AccountsProofs
ClusterElection    <- MCClusterElection, ClusterElectionProofs
Psync              <- MCPsync, PsyncProofs
DictScan           <- MCDictScan, DictScanProofs
```

### UsageLimits

`usage`, `lastReset` and `created` are database columns and rows; `pc`, `kind`,
`row` and `now` are the locals of one request per connection. One action is one
awaited call with the synchronous code up to the next: `ReadUser`
(`findUnique`), `CompareMonth` (the clock is read after the row came back),
`ResetUsage` (the update, the zeroing of the local copy and the test),
`Generate`, `SavePresentation`, `IncrementUsage`. `BadRequest` is the handlers'
400. `StatementFails` is any rejected call: both catch blocks answer 500 and undo
nothing. `Crash` loses what is in flight. The clock is one number for the pair
(year, month), which is what the code compares, and `Presentations.month`
records the month of a row's `createdAt`. `before` and `lost` are history: the decks
that were there when the counter was last reset, and the increments that a failure
or a crash has cost since.

Abstractions: the plan and the users are constants, because no code changes or
deletes them; the AI call cannot fail, because `aiService` answers a failing call
with fallback slides; `checkSlideCountLimit` only shortens the request and does
not touch this state. A call that was executed although its answer was lost is
the call followed by `StatementFails` or `Crash`.

### DeckStore and DeckTransactions

`DeckStore` is the promise: create, save, delete and share take effect at one
instant, a save replaces title and slides together, only the owner writes, a
shared deck cannot be deleted, and a request that fails changes nothing.

`DeckTransactions` is what the handlers do, statement by statement. `status`,
`title`, `slides` and `tokens` are the committed tables; an open transaction is
its `pc`, the rows its `deleteMany` found (`todo`) and those it deleted (`del`).

| Code | Actions |
|---|---|
| nested create | `Create` |
| lookup and owner check before the transaction | `Find` |
| `updatePresentation` | `SaveTitle`, `ListSlides`, `ClearSlides`, `FillSlides`, `CommitSave` |
| `deletePresentation` | `ListSlides`, `ClearSlides`, `UnlinkPresentation`, `CheckReferences`, `CommitDelete` |
| `createShareLink` | `Find`, `Share` |
| `getSharedPresentation`: the lookup of the token, then the reads | `FindToken`, `ReadTitle`, `ReadSlides` |
| `getPresentationById`, `exportToPptx` (two SELECTs of one `findUnique` with `include`) | `ReadTitle`, `ReadSlides` |
| rejected statement, transaction timeout, server crash | `Fail` (rollback) |
| PostgreSQL aborting a waiting cycle | `DeadlockVictim` |

PostgreSQL is external, modelled as these transactions use it. A statement sees
what was committed when it started (`ListSlides`), waits for rows that another
open transaction has written (`Blockers`), and drops rows that are gone when it
goes on (`ClearSlides`). UPDATE and DELETE of the presentation's row conflict;
inserting a row that refers to it conflicts with its deletion and not with the
update of its title; the check of the RESTRICT keys reads the referring rows,
waits for those being deleted, and fails on those that stay. `deleteMany` takes
the locks of its rows in one step: all statements scan them in the same order, so
two of them do not deadlock with each other. The slides inserted by `FillSlides`
are not visible before the commit and nobody can wait for them, so they appear in
`CommitSave`.

Abstractions: a title is the request that wrote it, a slide is its writer and its
position in the body (index, layout and content are copied, never interpreted).
A saving body carries a title; for an undefined one Prisma has no column to
write, and the row lock is then not taken (listed as a hazard, planned). A link
that has expired or never existed is refused, which is `Fail`; `resolveShareToken`
makes the first two reads of `getSharedPresentation` and no more. A crash
of the process is `Fail` of each request in it. A commit whose acknowledgement is
lost counts as `done`. `export` stands for the reads that check no owner.
`stamp` is history: the rank of a commit among all writes.

### CollabRooms

`rooms` is the server's map, `members` is socket.io's membership, `inbox` the
events on their way to each socket, in order. Every handler is one action, in
the code's order: `JoinRoom` joins the socket.io room, picks the colour by the
size of the room before the entry, enters the collaborator, sends `room-state` to
the joiner and `user-joined` to the others; `LeaveRoom`, `SlideUpdate`,
`CursorMove`, `Disconnect` likewise, with their behaviour for rooms the socket is
not in. `Connect` is a socket past the token check. `Restart` loses the map and
all connections. A socket that reconnects has a new id and an empty roster, so a
model socket is a slot that can be reused.

Outside the repository: socket.io (`Others`, `Emit`, `Deliver`) and the
browser. `view` is the roster that a client gets by applying the events in the
order of arrival (`Apply`, and `Read` for all that is on its way); it is what the
server's messages determine, not a model of React code. Absent and empty rooms are one, since the code treats them
alike. `mixed` is history: a socket that joined while in another room.

### SlideGeneration

One request on its way from the body to a deck; nothing here is shared, so the
state is that request: `stage`, `body`, `required` (`requiredLayouts`), `asked`
(the count in the prompt), `deck` (`finalSlides`), `rows` (the index column) and
the history variables `origin` and `sent` (the body before the middleware cut it).

| Code | Actions |
|---|---|
| `checkSlideCountLimit` | `CheckSlideCountLimit` (operator `Cap`) |
| `createPresentation` up to the AI call | `LookupTemplate` |
| `generatePresentationSlides`, answer parsed | `Answer` (`AnswerLayout`, `BlockLayout`, `BlockFills`, `Rotate`) |
| its catch block | `Fallback` (`FallbackLayout`, `FallbackFills`) |
| the nested create | `Save` (`RowIndex`) |
| `generateSingleSlide` | starts at the AI call, ends in `Reply` |

Texts are left out. A slide is its layout, its theme and the set of parts of
`contentJSON` that are filled in (an empty list counts: the properties are about
presence); a block is its type, its number of columns and
items and whether it has a title. Slides in the body keep their own layout, which
nothing reads; their index is a number or absent (`presentationController.ts:56` would
pass a null on to the database, which rejects it). The layouts of a template are not
empty strings, which `aiService.ts:321` would skip; those of the seed are not. Gemini is external: `Answers` is any set of sequences of slides, and
the answer need not have the length that was asked for. A call that fails, an
empty text and bad JSON all lead to `Fallback`. The plan that `checkLimits`
attaches to the request is a field of the body. A rejected save is in
`UsageLimits` and `DeckTransactions`.

### Accounts

`users` is the table; a row is named by the request that inserted it. The other
variables are the locals of a request: its `kind`, the e-mail and secret it
carries, the row it has `found`, and the `session` it was given. One action is
one awaited call: `SignupFind`, `SignupCreate` (after bcrypt), `LoginFind`,
`LoginCompare`, `GoogleFind`, `GoogleLink`, `GoogleCreate`. `Insert` and
`UniqueWith` are the unique columns `email` and `googleId`; a violated one rejects
the call and the catch block answers 500. `Fail` is any other rejection, and the
validation errors.

Google, bcrypt and JWT are outside the repository. `Tickets` are the pairs of
identity and e-mail that Google vouches for; an identity may have had several
e-mails and an e-mail several identities. A hash is the password it is of. The
column `provider` is written and never read, and is left out.

### ClusterElection

One shard of a cluster: its master `Old`, which fails, and the replicas that want
its slots; the other masters only vote. A packet handler or a cron step is one
action.

| Code | Actions |
|---|---|
| `clusterHandleSlaveFailover` | `Schedule`, `Ask`, `Win` |
| `clusterSendFailoverAuthIfNeeded` | `Vote`, `Deny` (`MayVote`) |
| `clusterProcessPacket`: ACK, PING and PONG, UPDATE | `ReceiveAck`, `Heartbeat`, `Update` |
| `clusterBeforeSleep`, `clusterSaveConfig` | `BeforeSleep` (`Image`) |
| the process dies; `clusterLoadConfig` | `Crash` |

`todo` is the flag that asks for a save, `disk` is `nodes.conf`. What is in memory
and what is on disk differ between a handler and the next `clusterBeforeSleep`,
and a crash can fall in between. As a rule an ACK leaves after its vote was saved,
since it is written in a later turn of the loop; but AE_BARRIER orders only the
two events of one descriptor, and the handler of another one, writable in the
same turn, sends what the queue holds by then. `Vote(m, q, TRUE)` is that case.

Abstractions: time and delays are left out (any may elapse at any moment, a packet
may be late or lost, and `Deny` may stand for `voted_time`); failure detection is
left out (the master is flagged FAIL whenever a handler asks); the slots of the
shard are one. A heartbeat is read off its sender's current state, since a header
is built when it is sent and older ones add nothing but older claims, which lose.
A replica that has won would refuse to vote for another one of its shard, whose
configEpoch is older; such requests are left out. `voted`, `unsaved`, `forgotten`,
`counted`, `stale` and `won` are history.

### Psync

Nodes that replicate each other, in chains too. `data` is the dataset as the
sequence of its writes, one of which is one unit of offset. `link[r]` is the
connection of `r` to its master as `r` sees it: what the master has put into it
and `r` has not read. `full` holds the dump and the writes kept since; `closed`
says the master has dropped it, and what is in it may still be read.

| Code | Actions |
|---|---|
| `replicationFeedSlaves`, the stream from the master | `Write`, `Apply` (`FeedSlaves`, `Trims`) |
| `slaveTryPartialResynchronization` | `Ask`, `Continue` |
| `syncCommand`, `masterTryPartialResynchronization` | `Refuse`, `AcceptPartial`, `AcceptFull` (`CanContinue`) |
| `startBgsaveForReplication` | `StartBgsave` |
| `readSyncBulkPayload` | `Load`, `LoadFails` |
| `freeClient` of the master, timeouts | `LinkClosed`, `LinkBroken` |
| `replicationUnsetMaster`, `replicationSetMaster` | `UnsetMaster`, `SetMaster` |
| `replicationCron`, the backlog's time limit | `Expire` |
| `rdbSave`, `loadDataFromDisk` | `Save` (`Dump`), `Restart` |

Random IDs never repeat, and no node is made to follow a node that follows it
(`Follows`).
Writes go to masters; a partial command in the query buffer is not
executed and is asked for again. `MasterLost` is what is left of a lost master: its
ID and offset, or nothing, when it was blocked or broke the protocol
(`networking.c:2118`). A BGSAVE for replicas writes the node's own dump when its
target is the disk, and leaves it alone when it is the socket. `LoadFails` is every
way in which a payload that has arrived does not become the dataset: the file cannot
be synced or renamed, its directory cannot be synced, or the load fails; the backlog,
the cached master and the sub-replicas are gone in all of them. The DELs of keys that
have expired while a master loads its dump (`server.c:7412`) are not in the model,
whose writes do not expire.

### DictScan

`d` is the dict: the keys in its two tables, their size exponents and
`rehashidx`. The bucket of a key follows from its hash, the order in a bucket does
not matter. Every command first pays for a step of rehashing, as in the code, and
then may resize. `dictScan` is the whole of one call: during rehashing the bucket
of the smaller table and all its expansions in the larger one, with the cursor
incremented in its reversed bits. `allowed` is the type's veto on resizing, as
used while a dict is iterated. `owed` is history: the keys that were there when
the walk started, are still there and were not returned.

A hash and a cursor are words of `W` bits, as the set of the bits that are on: the
increment of the reversed cursor and the comparison of two hashes under a mask are
then about sets of bits, for any `W`; `Masked` is the number that indexes the
table. The constants (initial size 4, fill 8, ratio 4, ten empty
visits) are parameters, so that a table of a few keys is resized both ways.

Two switches of the code are left out. A type may ask for the whole rehash at
once (`force_full_rehash`, `dict.c:296`); one type does (`server.c:637`), and its tables
are never seen half rehashed. `pauserehash` (`dict.c:1706`) is held by iterators, between the
two phases of an unlink and during the callbacks of SCAN, and only leaves out steps of
rehashing.

## 3. Runs

| Run | Instance | Shows |
|---|---|---|
| `quota` | 2 connections of a FREE user, limit 2, two changes of month, at most 5 decks | `OvershootBounded`, `DecksBounded`, `FairCharge`, `RefusalJustified`, with failures and crashes anywhere |
| `quota_limit` | 2 connections, limit 2, 1 month | **violation** of `MonthlyLimit`: both requests read the counter before either increments it |
| `decks` | 3 requests of the owner (one with an empty body), 1 of a stranger, on one presentation | `WholeDecks`, `NoOrphans`, `ReadsForward`; `ImplementsStore`: refinement of `DeckStore`; `EveryRequestEnds`, deadlocks included |
| `collab_presence` | 2 sockets, 2 rooms, 1 colour, cursors | `MembershipAgrees`, `RosterConverges`, `LeaversDisappear` |
| `slides_decks` | the real limits 10, 50 and 200 with counts at and around them; templates of 0, 3 and 15 slides; answers with every slide of up to two blocks | `CappedWithoutTemplate`, `TemplateFollowed`, `OneFamily`, `LayoutHasContent` |
| `slides_limit` | the same | **violation** of `PlanCapsGeneration`: with a template its length is the count, past the cap |
| `accounts_requests` | 3 requests, 2 e-mails, 2 passwords, 2 Google identities | `OneAccount`, `SignupOwnsAccount`, `SessionsEarned`, `LinkVouched`, `LinkLostOnlyInRace`, `AccountsKept` |
| `cluster_votes` | 3 masters, 2 replicas of the failing one, one epoch of elections, 2 crashes, early and late ACKs | `MajorityElects`, `OneVotePerEpoch`, `ClaimsWon` |
| `cluster_winner` | the same, two epochs of elections, no crash, every vote saved first | **violation** of `OneWinnerPerEpoch`: ACKs of an expired election are counted in the next one |
| `psync` | 3 nodes, a backlog of 1, 2 writes, 2 failures, commands or saves | `Coherent`, `InSync`, `OneHistory` |
| `psync_converges` | the same with 1 write | `Converges` |
| `dict_walk` | 5 keys in 8 hash values, tables of 2 to 8 buckets | `AllFound`, `FullWalk`, `WalkEnds` |

Results worth knowing.

- The limit of 5 is not a limit. The counter is tested in `checkLimits` and
  incremented after generation, so a user with k connections can reach
  limit - 1 + k; `OvershootBounded` says that this is the worst case, also
  across months, failures and crashes.
- The counter is not the number of decks either. A deck is committed before it is
  counted, so every failure or crash in between is a deck for nothing:
  `DecksBounded` says that these, one each, and the overshoot above are all a user
  can get, and no two increments swallow each other.
- A save is safe under READ COMMITTED only because its transaction *begins* with
  the UPDATE of the title: that row lock keeps two saves apart, and the second
  one's `deleteMany` then takes its snapshot after the first has committed. With
  the two statements exchanged, slides of both saves stay (this is the mutant
  `SaveTitleNoLock`).
- A delete has no such lock when it lists the slides. When a save commits in
  between, its new slides stay, and the RESTRICT foreign key turns the delete into a
  500 instead of orphans.
- Once a deck was shared it can never be deleted, since nothing removes tokens:
  `deletePresentation` answers 500. Nothing in the repository promises otherwise, and
  `DeckStore` takes it as it is.
- A read may return an old title with newer slides, or the title of a deck that
  has just been deleted with no slides; never a mixture of two decks.
- A socket in two rooms gets events that do not name their room, so its roster
  mixes both; `RosterConverges` speaks of sockets that were in no other room when
  they joined.
- Colours repeat as soon as someone has left, because the colour is picked by the
  size of the room.
- The cap on generated slides is lifted by a template: every seeded template has
  15 slides and the FREE plan's cap is 10. Nothing counts the slides Gemini sends.
- The two comments of `checkSlideCountLimit` about the client's own slides contradict
  each other: line 58 says that limits are enforced "not for manual/template slides",
  line 63 "cap the array to the plan limit silently". The code does the latter, against
  line 58: a FREE user who sends eleven slides gets ten saved and no error.
  `CappedWithoutTemplate` says that the slides past the limit, and no others, are lost.
- Slides of a body that carry an index keep it, and the others get their position, so a
  mixture is read back in neither order; `updatePresentation` leaves a missing index to
  the schema's default, 0. Nothing says which order is meant, and no property does.
- The fallback deck has no prepared content for some layouts of templates
  (`three-cards`, for one); `LayoutHasContent` therefore speaks of the layouts
  that the generator picks itself.
- A Google login is decided by the e-mail alone: an account linked to another
  identity with that e-mail is opened. An identity that comes back with a new
  e-mail is refused with 500, because its `googleId` is taken.
- Two Google logins that both read an unlinked account both write `googleId`; the
  second overwrites the first, which was answered 200, although the comment speaks of
  users who "don't have it". `LinkLostOnlyInRace` says that a link is lost in no other
  way. The account's e-mail and password survive this
  (`AccountsKept`), and what is written is always vouched for (`LinkVouched`).
- The text and the test of themes differ from the code: `test_theme.ts:23` expects
  the first slide to have the chosen theme, and does so only for first themes of a
  family. A mapped answer always starts with the first theme of the family
  (`aiService.ts:274`), the prepared deck with the chosen one. `OneFamily` holds of
  both.
- The reader of a share link always gets a whole deck, also while the owner tries
  to delete it: the token's foreign key protects the presentation
  between the two reads.
- Two replicas of a Redis Cluster can win elections with the same epoch.
  `failover_auth_count` is cleared when an election is scheduled and not when it
  starts, so an ACK of the expired election that arrives in between, while
  `failover_auth_epoch` is still the old one, counts in the new election. A vote can
  also be undone by a crash between its ACK and the save of `nodes.conf`.
  `MajorityElects` says that these are the only two ways around the majority.
- A Redis master has to draw a new ID when its backlog is freed, although nothing of
  its data has changed: `replicationCron` says so in a comment, and the mutant that
  keeps the ID lets a replica with a gap back in (`OneHistory`).
- A SCAN is complete over growing, shrinking and half rehashed tables
  only because the cursor counts in reversed bits and both tables are visited from
  the smaller one.

Bounds. Two connections overlap in every way one request can overlap another,
and with a limit of 2 and five decks the counter has room to break its bound (at
most 3) and a refusal room to be unjustified; two changes of month let a reset
meet what another reset left behind. A PRO user's requests only pass through
`next()`. A conflict on a presentation is between two transactions; four requests
allow its creation, two in conflict, and a reader. Two slides per deck make a
partial deletion visible, and an empty body is the skipped `createMany`; several
presentations, which no statement relates, are left to the proofs. Two
sockets suffice for every race of a join with another's events, in two rooms too, and
one colour for who is on the roster; that colours agree, for a palette of any size, is
left to the proofs.
`MaxInbox` is how far a connection may lag; nothing
is lost at it, the sender waits. In `slides_decks` the properties of a
slide depend on one position and on at most two blocks (the last that places it
and one that fills it), so pairs of blocks are enough; a body is tried on both
sides of every comparison it meets. For `Accounts` every race is between two
requests, and a third one makes the account they race for. `MaxCreated` and
`MaxMonth` only keep the state space finite. The proofs below do not depend on
these bounds.

Three masters are the fewest with a quorum smaller than all of them, and two
replicas the fewest that can compete; `MaxEpoch` counts elections, two crashes hit
a voter and a replica, or one of them twice. Three nodes allow a chain of replicas, a
failover inside it and two replicas that share a dump; with a backlog of one, two writes are enough to
fall out of it, and two events to fail over and come back. `Converges` is checked with
one write, which the state space of the fair specification affords: one write is enough
for a replica to be behind, and what keeps it from catching up is connections and roles.
Five keys with three bits of hash fill tables of two to eight
buckets, so that a walk meets growth and shrinking by more than one step.

Symmetry is used over connections (`quota`), the
masters that do not fail (the `cluster` runs) and the first two replicas (`psync`), in
runs without liveness only.

Fairness. `decks` assumes weak fairness of
each request's handler steps: Node runs every continuation that is ready, the
database answers or rejects, and PostgreSQL resolves every deadlock. A request that
waits for a lock becomes enabled for good once its holder has ended. Nothing is
assumed of arrivals and failures. `collab_presence` assumes
that an open connection delivers what was written to it. `psync_converges` assumes that the
event loops go on: `replicationCron` reconnects a replica that has lost its link,
requests are answered, and what has arrived is read. It assumes nothing of writes, failures,
commands and expiry, which are bounded. `dict_walk` assumes that
the client goes on with its SCAN.

Deadlock is checked in all runs but `cluster_votes`, `cluster_winner`, `psync` and
`psync_converges`, where everything may be at rest when the bounds are used up. Where all requests of
`DeckTransactions` or `Accounts` have ended, `AllEnded` stutters, and so does
`Finished` after the single request of `SlideGeneration`.

## 4. Proofs

`UsageLimitsProofs`, for any finite set of connections, users, limit and bounds:

- `TypeCorrect`, `OvershootTheorem`, `DecksTheorem`, `FairChargeTheorem`, `RefusalTheorem`.
- The inductive invariant `IndInv`. The properties are about the counter, which
  moves long after the decision, so each is strengthened by what is pending:
  `AdmissionInv` adds the requests that were admitted, or whose copy of the row
  will admit them, to the counter; `ChargeInv` adds the decks that are saved and
  not yet counted; `LedgerInv` bounds a user's decks by what there was at the reset, what
  is counted, what is still to be counted and what never will be, from which
  `DecksBounded` follows with `AdmissionInv`; `CopyInv` keeps the local copy fair for as long as it can be
  used; `TimesInv` says that no timestamp is ahead of the clock (needed when a
  reset moves `lastReset` forward) and that row ids are fresh. The proofs are
  about the cardinality of sets of requests, one lemma per way a request enters or
  leaves them.

`DeckTransactionsProofs`, for any finite set of requests, any presentations,
owners and deck sizes:

- `TypeCorrect`, `WholeDecksTheorem`, `NoOrphansTheorem`, `ReadsForwardTheorem`, and
  `Refinement` (`Spec => Store!StoreSpec`).
- `IndInv` is the argument for why the locks suffice. `LockInv`: the row lock has
  one holder, and the row exists while it is held. `DelInv`: the rows that open
  transactions have deleted are disjoint, and still committed. `ClearInv`: under
  the row lock, what a save listed and then deleted is all there is; a delete past
  the foreign-key check leaves nothing. `FreshInv`: a fresh id has one creator.
  `ControlInv`: which endpoint can be at which statement, and that the owner check
  is behind it. `StampInv` and `ReadInv` add the order of commits and what a
  read holds between its SELECTs: a share link that was seen stays, and so does
  its presentation.
- The refinement needs `IndInv`: only then does `CommitSave` replace the whole
  deck, and `CommitDelete` remove a deck without links. Every other step leaves
  the mapped state alone or settles one request.

`SlideGenerationProofs`, for any bodies, answers, palette and limits:

- `TypeCorrect`, `CappedTheorem`, `TemplateTheorem`, `OneFamilyTheorem`,
  `LayoutHasContentTheorem`.
- The properties speak of the finished deck, whose cause is some steps back.
  `StageInv` carries what each stage has established: the cap behind the
  middleware, the template and the count behind the lookup. The layout of a slide
  is the one its last placing block chose; that there is a last one is
  `GreatestExists`, like `LeastExists` (the first family) from the well-ordering of the natural numbers.

`AccountsProofs`, for any requests, e-mails, passwords and tickets:

- `TypeCorrect`, `OneAccountTheorem`, `SignupTheorem`, `SessionsTheorem`,
  `LinkTheorem`, `RaceTheorem`, `AccountsKeptTheorem`.
- `IdsInv`: a row's name is that of a finished request, so a new row is new.
  `ControlInv`: what a request carries is a password, or a ticket. `FoundInv`: a
  row that was read is still there with the same e-mail and password, which is
  why comparing and linking may use it after an await. `LinkVouched` rests
  on the last two.
  `RaceInv` adds that who is about to link found no identity; an answered request is
  not touched again, so that login stays the witness of `LinkLostOnlyInRace`.

`CollabRoomsProofs`, for any finite sets of sockets and presentations and any
number of events on their way:

- `TypeCorrect`, `MembershipTheorem`, `RosterTheorem`.
- `RosterConverges` speaks of a client that has read all that is under way, and is
  inductive together with `OneRoom`: a socket that was in no other room when it joined
  is in one room at most, so whatever is emitted to it is about that room. Most of the
  proof is what one more event does to a roster that is read to the end (`ReadAppend`,
  `ReadHead`), and that every event keeps a roster and the room in agreement.

`ClusterElectionProofs`, for any finite set of masters, any replicas and bounds:

- `TypeCorrect`, `OneVoteTheorem`, `MajorityTheorem`, `ClaimsTheorem`.
- `IndInv` follows a vote from the voter to the winner. `EpochInv`: no node is
  behind its last vote or election. `VoteInv`: a vote is remembered in memory, and on
  disk unless it is still unsaved, or its epoch is one that a crash has undone.
  `CountInv`: `failover_auth_count` is the number of different masters
  that voted, since an ACK that was counted is not under way any more; this fails for an election
  that counted ACKs of an earlier one, which `stale` marks. `WinnerInv`:
  a winner was voted for by a quorum. Two quorums meet in a master, which voted once:
  that is `MajorityElects`. The two exceptions in it are the ones of the code
  described in section 3, and the proof shows that there is no third.

`PsyncProofs`, for any set of nodes, any size of the backlog and any number of
writes, failures and commands:

- `TypeCorrect`, `CoherentTheorem`, `InSyncTheorem`, `OneHistoryTheorem`.
- `OneHistory` is about nodes and files, but a replica trusts more than these: its
  connection, and the master's second ID. `Claim` is therefore the dataset that an ID
  and an offset stand for, of four kinds: of a node's own ID, of its second ID
  (a beginning of its dataset), of its file, and of its connection once all of it is
  read. `HistoryInv`: claims with one ID are about beginnings of one history.
  `BacklogOK`: the backlog is the end of the dataset, so that what `+CONTINUE` sends
  continues what the replica has. `ConnectionOK`: an open connection ends where its
  master is, from which `InSync` follows.
- Every action but `Write` makes claims about beginnings of what was claimed before,
  or under an ID that was drawn in that step (`ClaimsStep`); one lemma, `ClaimsKept`,
  shows that this keeps the history, and each action has only to name the source of
  each claim. `Write` alone makes a history longer: `MasterInv` says that
  nobody is ahead of a master under its ID (`ClaimsGrow`).
- `PrivateInv` is why a master may write without a backlog, which does not move its
  offset: it has served nobody under its ID, since `Expire` has drawn that ID when it
  freed the backlog, and nobody will be served under it, since a new backlog starts
  with a new ID. It still holds when that master is turned into a replica.

`DictScanProofs`, for words of any width, any keys and hashes, and any
thresholds:

- `TypeCorrect`, `AllFoundTheorem`, `FullWalkTheorem`.
- `DictOK`: rehashing has not passed a key of the first table, which is why
  a lookup may skip the buckets below `rehashidx`, and why `dictRehash` finds a
  bucket that is not empty before it runs off the table (its assertion).
- `WalkInv`: what the walk still owes is ahead of the cursor. `Ahead` orders words with
  the lowest bit first. This order does not depend on the size of a
  table, so it survives every resize between two calls; one call returns the
  keys of the buckets from the old cursor to the new one in that order, in
  both tables (`ScanWorks`). The loop over the expansions of a bucket is a recursive
  function; that it ends follows from the set of words ahead of the cursor, which
  is finite and shrinks.

Induction over data is avoided in these proofs: where a recursive function has to be
known at every argument (`Read`, `Pow2`, `Masked`, the loop of `dictScan`), the lemma is
proved from the least argument at which it would fail, or from a finite set that
shrinks, without the library's induction theorems.

Assumptions on constants are named where they are declared: the client and the
plan functions have their types, the limit is positive, the sets of requests,
sockets, presentations and masters are finite, `NoRequest` is not a request, deck sizes are natural
numbers, there is at least one presentation id, every plan has a positive limit, the
absent values differ from the present ones, tickets pair identities with e-mails;
node names of a cluster are different and its replicas are no masters; the first
Redis master is a node, and "no host" is none; hashes are words, and a dict has fewer keys than the `2^W` buckets of
the largest table, which for 64 bits is the size of memory.

Only model-checked: the liveness properties (`EveryRequestEnds`, `LeaversDisappear`,
`Converges`, `WalkEnds`), because fairness is out of the prover's reach. Every
invariant that a passing run checks is also a theorem, and so are `AccountsKept` and
the refinement of `DeckStore`. The three violations are TLC's.

## 5. Not modelled

- Most of the vendored Redis: it is some 198,000 lines of C that Slideo.ai does not call
  from its own code, beside 2,600 lines of the application. The three modules
  take from it the parts whose correctness is a matter of order and failure.
  Of those parts, the following is left out: failure detection
  and gossip, slot migration and manual failover (`cluster_legacy.c`); the PSYNC
  FAILOVER handshake, the RDB channel, diskless loading (`replication.c`);
  iterators other than SCAN, and several dicts behind one cursor (`kvstore.c`).
  AOF, Sentinel, the data types and their encodings, the
  modules API, `redis-cli`, scripting and the dependencies (jemalloc, Lua, hiredis) are
  not modelled at all.
- The background worker, which enqueues nothing.
- E-mail, image upload, bootstrap: calls to outside services and wiring, without
  state of their own.
- Wording, HTML, prompts and the drawing of PPTX files.
- When a share link expires: it may at any moment.
- Templates and their seeding, PPTX parsing, saves without a title: planned below.

## 6. Plan

1. `UsageLimits`, `DeckStore`, `DeckTransactions` with share links, `CollabRooms`,
   `SlideGeneration`, `Accounts`, `ClusterElection`, `Psync`, `DictScan` with the runs and
   proofs above: done.
2. `Templates`: the reseed, statement by statement, against `useTemplate` and
   `createPresentation`; saves without a title in `DeckTransactions`.
3. `PptImport`: the order of the slides of a file as a pure operator.
4. Action properties that the invariants make provable: that an epoch never falls in
   memory, that a node's offset under one ID never falls but by a restart.
