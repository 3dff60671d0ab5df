-------------------------- MODULE CollabRoomsProofs --------------------------
(***************************************************************************)
(* Proofs about CollabRooms, for any finite sets of sockets and rooms, any *)
(* cursors, any palette and any bound on what is on its way to a socket.   *)
(***************************************************************************)
EXTENDS CollabRooms, FiniteSetTheorems, WellFoundedInduction, TLAPS

(* Reading a sequence of events *)

\* A nonempty set of natural numbers has a least element.
LEMMA LeastExists ==
    ASSUME NEW K \in SUBSET Nat, K # {}
    PROVE  \E k \in K : \A j \in K : k <= j
<1> DEFINE R == OpToRel(<, Nat)
<1>1. IsWellFoundedOn(R, Nat)
    BY NatLessThanWellFounded, Zenon
<1>2. PICK x \in K : \A y \in K : ~ (<<y, x>> \in R)
    <2> HIDE DEF R
    <2> QED BY <1>1, WFMin
<1>3. \A y \in K : ~ (y < x)
    BY <1>2 DEF OpToRel
<1> QED BY <1>3

\* f lists the rosters of a client that reads the first n events of q.
Rolls(f, roster, q, n) ==
    /\ f = [i \in 0..n |-> f[i]]
    /\ f[0] = roster
    /\ \A i \in 1..n : f[i] = Apply(f[i - 1], q[i])

\* There is such a list for every n ...
LEMMA RollsExist ==
    ASSUME NEW roster, NEW q, NEW n \in Nat
    PROVE  \E f : Rolls(f, roster, q, n)
<1> DEFINE K == {k \in Nat : ~ \E f : Rolls(f, roster, q, k)}
<1>1. SUFFICES ASSUME K # {} PROVE FALSE
    OBVIOUS
<1>2. PICK k \in K : \A j \in K : k <= j
    <2>1. K \in SUBSET Nat
        OBVIOUS
    <2> HIDE DEF K
    <2> QED BY <1>1, <2>1, LeastExists
<1>3. CASE k = 0
    <2> DEFINE f == [i \in 0..0 |-> roster]
    <2>1. Rolls(f, roster, q, 0)
        BY DEF Rolls
    <2> QED BY <1>2, <1>3, <2>1
<1>4. CASE k # 0
    <2>1. k - 1 \in Nat /\ k - 1 \notin K
        BY <1>2, <1>4
    <2>2. PICK g : Rolls(g, roster, q, k - 1)
        BY <2>1
    <2> DEFINE f == [i \in 0..k |-> IF i = k THEN Apply(g[k - 1], q[k]) ELSE g[i]]
    <2>3. f = [i \in 0..k |-> f[i]]
        OBVIOUS
    <2>4. f[0] = roster
        BY <1>2, <1>4, <2>2 DEF Rolls
    <2>5. ASSUME NEW i \in 1..k PROVE f[i] = Apply(f[i - 1], q[i])
        <3>1. CASE i = k
            <4>1. f[i] = Apply(g[k - 1], q[k]) /\ f[i - 1] = g[k - 1]
                BY <1>2, <1>4, <3>1
            <4> QED BY <3>1, <4>1
        <3>2. CASE i # k
            <4>1. i \in 1..(k - 1) /\ f[i] = g[i] /\ f[i - 1] = g[i - 1]
                BY <1>2, <1>4, <2>5, <3>2
            <4>2. g[i] = Apply(g[i - 1], q[i])
                BY <2>2, <4>1 DEF Rolls
            <4> QED BY <4>1, <4>2
        <3> QED BY <3>1, <3>2
    <2>6. Rolls(f, roster, q, k)
        <3> HIDE DEF f
        <3> QED BY <2>3, <2>4, <2>5 DEF Rolls
    <2> QED BY <1>2, <2>6
<1> QED BY <1>3, <1>4

\* ... and only one.
LEMMA RollsUnique ==
    ASSUME NEW roster, NEW q, NEW n \in Nat, NEW f, NEW g,
           Rolls(f, roster, q, n), Rolls(g, roster, q, n)
    PROVE  f = g
<1> DEFINE K == {k \in 0..n : f[k] # g[k]}
<1>1. CASE K = {}
    <2>1. \A k \in 0..n : f[k] = g[k]
        BY <1>1
    <2>2. f = [i \in 0..n |-> f[i]] /\ g = [i \in 0..n |-> g[i]]
        BY DEF Rolls
    <2>3. [i \in 0..n |-> f[i]] = [i \in 0..n |-> g[i]]
        BY <2>1
    <2> QED BY <2>2, <2>3
<1>2. CASE K # {}
    <2>1. PICK k \in K : \A j \in K : k <= j
        <3>1. K \in SUBSET Nat
            OBVIOUS
        <3> HIDE DEF K
        <3> QED BY <1>2, <3>1, LeastExists
    <2>2. k # 0
        BY <2>1 DEF Rolls
    <2>3. k \in 1..n /\ k - 1 \in 0..n /\ k - 1 \notin K
        BY <2>1, <2>2
    <2>4. f[k - 1] = g[k - 1]
        BY <2>3
    <2>5. f[k] = Apply(f[k - 1], q[k]) /\ g[k] = Apply(g[k - 1], q[k])
        BY <2>3 DEF Rolls
    <2>6. f[k] = g[k]
        BY <2>4, <2>5
    <2> QED BY <2>1, <2>6
<1> QED BY <1>1, <1>2

\* Read returns the last roster of the list.
LEMMA ReadRolls ==
    ASSUME NEW roster, NEW q, Len(q) \in Nat, NEW f, Rolls(f, roster, q, Len(q))
    PROVE  Read(roster, q) = f[Len(q)]
<1> DEFINE n == Len(q)
           Step(g) == [i \in 0..n |-> IF i = 0 THEN roster ELSE Apply(g[i - 1], q[i])]
           h == CHOOSE g : g = Step(g)
<1>1. f = Step(f)
    <2>1. ASSUME NEW i \in 0..n PROVE f[i] = Step(f)[i]
        <3>1. CASE i = 0
            BY <3>1 DEF Rolls
        <3>2. CASE i # 0
            <4>1. i \in 1..n
                BY <3>2
            <4>2. f[i] = Apply(f[i - 1], q[i])
                BY <4>1 DEF Rolls
            <4>3. Step(f)[i] = Apply(f[i - 1], q[i])
                BY <3>2
            <4> QED BY <4>2, <4>3
        <3> QED BY <3>1, <3>2
    <2>2. f = [i \in 0..n |-> f[i]]
        BY DEF Rolls
    <2>3. [i \in 0..n |-> f[i]] = Step(f)
        BY <2>1
    <2> QED BY <2>2, <2>3
<1>2. h = Step(h)
    <2>1. \E g : g = Step(g)
        BY <1>1
    <2> HIDE DEF Step
    <2> QED BY <2>1
<1>3. Rolls(h, roster, q, n)
    <2>1. \A i \in 0..n : h[i] = IF i = 0 THEN roster ELSE Apply(h[i - 1], q[i])
        <3> HIDE DEF h
        <3> QED BY <1>2
    <2>2. h = [i \in 0..n |-> h[i]]
        <3> HIDE DEF h
        <3> QED BY <1>2, <2>1
    <2>3. \A i \in 1..n : h[i] = Apply(h[i - 1], q[i])
        <3> HIDE DEF h
        <3> QED BY <2>1
    <2>4. h[0] = roster
        <3> HIDE DEF h
        <3> QED BY <2>1
    <2> HIDE DEF h
    <2> QED BY <2>2, <2>3, <2>4 DEF Rolls
<1>4. h = f
    <2> HIDE DEF h
    <2> QED BY <1>3, RollsUnique
<1>5. Read(roster, q) = h[n]
    BY DEF Read
<1> QED BY <1>4, <1>5

\* Nothing to read.
LEMMA ReadEmpty == ASSUME NEW roster PROVE Read(roster, << >>) = roster
<1> DEFINE f == [i \in 0..0 |-> roster]
<1>1. Rolls(f, roster, << >>, 0) /\ Len(<< >>) = 0
    BY DEF Rolls
<1>2. Read(roster, << >>) = f[0]
    <2> HIDE DEF f
    <2> QED BY <1>1, ReadRolls
<1> QED BY <1>2

\* An event at the end is applied last.
LEMMA ReadAppend ==
    ASSUME NEW roster, NEW q \in Seq(Messages), NEW m \in Messages
    PROVE  Read(roster, Append(q, m)) = Apply(Read(roster, q), m)
<1> DEFINE n == Len(q)
           z == Append(q, m)
<1>1. n \in Nat /\ Len(z) = n + 1 /\ z[n + 1] = m /\ \A i \in 1..n : z[i] = q[i]
    OBVIOUS
<1>2. PICK g : Rolls(g, roster, z, n + 1)
    <2> HIDE DEF z, n
    <2>1. n + 1 \in Nat
        BY <1>1
    <2> QED BY <2>1, RollsExist
<1> DEFINE f == [i \in 0..n |-> g[i]]
<1>3. Rolls(f, roster, q, n)
    <2>1. \A i \in 0..n : f[i] = g[i]
        OBVIOUS
    <2>2. f = [i \in 0..n |-> f[i]]
        OBVIOUS
    <2>3. ASSUME NEW i \in 1..n PROVE f[i] = Apply(f[i - 1], q[i])
        <3>1. i \in 1..(n + 1) /\ i - 1 \in 0..n /\ i \in 0..n
            BY <1>1
        <3>2. g[i] = Apply(g[i - 1], z[i])
            BY <1>2, <3>1 DEF Rolls
        <3> QED BY <1>1, <2>1, <3>1, <3>2
    <2>4. f[0] = roster
        BY <1>1, <1>2 DEF Rolls
    <2> HIDE DEF f
    <2> QED BY <2>2, <2>3, <2>4 DEF Rolls
<1>4. Read(roster, q) = g[n]
    <2>1. f[n] = g[n]
        BY <1>1
    <2> HIDE DEF f
    <2> QED BY <1>1, <1>3, <2>1, ReadRolls
<1>5. Read(roster, z) = g[n + 1]
    <2> HIDE DEF z
    <2> QED BY <1>1, <1>2, ReadRolls
<1>6. g[n + 1] = Apply(g[n], z[n + 1])
    <2>1. n + 1 \in 1..(n + 1) /\ (n + 1) - 1 = n
        BY <1>1
    <2> HIDE DEF z, n
    <2> QED BY <1>2, <2>1 DEF Rolls
<1> QED BY <1>1, <1>4, <1>5, <1>6

\* Applying the first event leaves the rest to be read.
LEMMA ReadHead ==
    ASSUME NEW roster, NEW q \in Seq(Messages), q # << >>
    PROVE  Read(roster, q) = Read(Apply(roster, Head(q)), Tail(q))
<1> DEFINE n == Len(q)
           z == Tail(q)
<1>1. n \in Nat \ {0} /\ Len(z) = n - 1 /\ Head(q) = q[1] /\ \A i \in 1..(n - 1) : z[i] = q[i + 1]
    OBVIOUS
<1>2. PICK g : Rolls(g, roster, q, n)
    <2> HIDE DEF n
    <2> QED BY <1>1, RollsExist
<1> DEFINE f == [i \in 0..(n - 1) |-> g[i + 1]]
<1>3. Rolls(f, Apply(roster, Head(q)), z, n - 1)
    <2>1. \A i \in 0..(n - 1) : f[i] = g[i + 1]
        OBVIOUS
    <2>2. f = [i \in 0..(n - 1) |-> f[i]]
        OBVIOUS
    <2>3. ASSUME NEW i \in 1..(n - 1) PROVE f[i] = Apply(f[i - 1], z[i])
        <3>1. i + 1 \in 1..n /\ i - 1 \in 0..(n - 1) /\ i \in 0..(n - 1) /\ (i + 1) - 1 = i
              /\ (i - 1) + 1 = i
            BY <1>1
        <3>2. g[i + 1] = Apply(g[i], q[i + 1])
            BY <1>2, <3>1 DEF Rolls
        <3>3. f[i] = g[i + 1] /\ f[i - 1] = g[i]
            BY <2>1, <3>1
        <3> QED BY <1>1, <3>2, <3>3
    <2>4. f[0] = Apply(roster, Head(q))
        <3>1. 0 \in 0..(n - 1) /\ 1 \in 1..n /\ 0 + 1 = 1 /\ 1 - 1 = 0
            BY <1>1
        <3>2. g[1] = Apply(g[0], q[1]) /\ g[0] = roster
            BY <1>2, <3>1 DEF Rolls
        <3>3. f[0] = g[1]
            BY <2>1, <3>1
        <3> QED BY <1>1, <3>2, <3>3
    <2> HIDE DEF f
    <2> QED BY <2>2, <2>3, <2>4 DEF Rolls
<1>4. Read(Apply(roster, Head(q)), z) = g[n]
    <2>1. f[n - 1] = g[n] /\ n - 1 \in Nat
        BY <1>1
    <2> HIDE DEF f, z
    <2> QED BY <1>1, <1>3, <2>1, ReadRolls
<1>5. Read(roster, q) = g[n]
    BY <1>1, <1>2, ReadRolls
<1> QED BY <1>4, <1>5

-----------------------------------------------------------------------------
(* What an event does to a roster and to the room it comes from            *)

\* user-joined
LEMMA PutAgrees ==
    ASSUME NEW roster, NEW room, NEW q, NEW s, NEW info, s # q,
           q \in DOMAIN room, Agrees(roster, room, q)
    PROVE  Agrees(Put(roster, s, info), Put(room, s, info), q)
<1>1. DOMAIN roster \ {q} = DOMAIN room \ {q}
    BY DEF Agrees, Without
<1>2. \A x \in DOMAIN roster \ {q} : roster[x] = room[x]
    BY <1>1 DEF Agrees, Without
<1>3. Without(Put(roster, s, info), q) = Without(Put(room, s, info), q)
    BY <1>1, <1>2 DEF Put, Without
<1> QED BY <1>3 DEF Agrees, Put

\* user-left
LEMMA WithoutAgrees ==
    ASSUME NEW roster, NEW room, NEW q, NEW s, s # q, q \in DOMAIN room, Agrees(roster, room, q)
    PROVE  Agrees(Without(roster, s), Without(room, s), q)
<1>1. DOMAIN roster \ {q} = DOMAIN room \ {q}
    BY DEF Agrees, Without
<1>2. \A x \in DOMAIN roster \ {q} : roster[x] = room[x]
    BY <1>1 DEF Agrees, Without
<1>3. Without(Without(roster, s), q) = Without(Without(room, s), q)
    BY <1>1, <1>2 DEF Without
<1> QED BY <1>3 DEF Agrees, Without

\* cursor-move of a collaborator: stored in the room, relayed to the others.
LEMMA CursorAgrees ==
    ASSUME NEW roster, NEW room, NEW q, NEW s, NEW c, s # q,
           q \in DOMAIN room, s \in DOMAIN room, Agrees(roster, room, q)
    PROVE  /\ s \in DOMAIN roster
           /\ Agrees([roster EXCEPT ![s].cursor = c], [room EXCEPT ![s].cursor = c], q)
<1>1. DOMAIN roster \ {q} = DOMAIN room \ {q}
    BY DEF Agrees, Without
<1>2. \A x \in DOMAIN roster \ {q} : roster[x] = room[x]
    BY <1>1 DEF Agrees, Without
<1>3. s \in DOMAIN roster /\ roster[s] = room[s]
    BY <1>1, <1>2
<1> DEFINE i == [room[s] EXCEPT !.cursor = c]
           a == [roster EXCEPT ![s].cursor = c]
           b == [room EXCEPT ![s].cursor = c]
<1>4. /\ a = [x \in DOMAIN roster |-> IF x = s THEN i ELSE roster[x]]
      /\ b = [x \in DOMAIN room |-> IF x = s THEN i ELSE room[x]]
    BY <1>3
<1>5. Without(a, q) = Without(b, q) /\ q \in DOMAIN a /\ a[q] = roster[q] /\ b[q] = room[q]
    <2> HIDE DEF a, b, i
    <2> QED BY <1>1, <1>2, <1>4 DEF Without, Agrees
<1> QED BY <1>3, <1>5 DEF Agrees

\* The sender's own cursor does not matter to it.
LEMMA OwnCursorAgrees ==
    ASSUME NEW roster, NEW room \in Rosters, NEW s \in DOMAIN room, NEW c, Agrees(roster, room, s)
    PROVE  Agrees(roster, [room EXCEPT ![s].cursor = c], s)
<1>1. room[s] \in Infos
    BY DEF Rosters
<1>2. [room[s] EXCEPT !.cursor = c].color = room[s].color
    BY <1>1 DEF Infos
<1> DEFINE i == [room[s] EXCEPT !.cursor = c]
           b == [room EXCEPT ![s].cursor = c]
<1>3. b = [x \in DOMAIN room |-> IF x = s THEN i ELSE room[x]]
    BY DEF Rosters
<1>4. Without(b, s) = Without(room, s) /\ b[s].color = room[s].color
    <2> HIDE DEF b
    <2> QED BY <1>2, <1>3 DEF Without
<1> QED BY <1>4 DEF Agrees

-----------------------------------------------------------------------------
(* Types                                                                   *)

\* Map.set and Map.delete keep a roster a roster.
LEMMA RosterOps ==
    ASSUME NEW roster \in Rosters, NEW s \in Sockets
    PROVE  /\ DOMAIN roster \subseteq Sockets
           /\ \A x \in DOMAIN roster : roster[x] \in Infos
           /\ \A info \in Infos : Put(roster, s, info) \in Rosters
           /\ Without(roster, s) \in Rosters
           /\ DOMAIN Without(roster, s) = DOMAIN roster \ {s}
           /\ \A info : DOMAIN Put(roster, s, info) = DOMAIN roster \cup {s}
<1>1. PICK S \in SUBSET Sockets : roster \in [S -> Infos]
    BY DEF Rosters
<1>2. DOMAIN roster = S /\ \A x \in S : roster[x] \in Infos
    BY <1>1
<1>3. ASSUME NEW info \in Infos PROVE Put(roster, s, info) \in Rosters
    <2>1. Put(roster, s, info) \in [S \cup {s} -> Infos]
        BY <1>2 DEF Put
    <2>2. S \cup {s} \in SUBSET Sockets
        OBVIOUS
    <2> QED BY <2>1, <2>2 DEF Rosters
<1>4. Without(roster, s) \in Rosters
    <2>1. Without(roster, s) \in [S \ {s} -> Infos]
        BY <1>2 DEF Without
    <2>2. S \ {s} \in SUBSET Sockets
        OBVIOUS
    <2> QED BY <2>1, <2>2 DEF Rosters
<1>5. /\ DOMAIN Without(roster, s) = DOMAIN roster \ {s}
      /\ \A info : DOMAIN Put(roster, s, info) = DOMAIN roster \cup {s}
    BY DEF Without, Put
<1> QED BY <1>2, <1>3, <1>4, <1>5

\* Moving a cursor, too.
LEMMA MoveRoster ==
    ASSUME NEW roster \in Rosters, NEW s \in DOMAIN roster, NEW c \in Cursors
    PROVE  /\ [roster EXCEPT ![s].cursor = c] \in Rosters
           /\ DOMAIN [roster EXCEPT ![s].cursor = c] = DOMAIN roster
<1>1. PICK S \in SUBSET Sockets : roster \in [S -> Infos]
    BY DEF Rosters
<1>2. roster[s] \in Infos
    BY <1>1
<1>3. [roster[s] EXCEPT !.cursor = c] \in Infos
    BY <1>2 DEF Infos
<1>4. [roster EXCEPT ![s].cursor = c] \in [S -> Infos]
    BY <1>1, <1>3
<1> QED BY <1>1, <1>4 DEF Rosters

LEMMA NoOneType == NoOne \in Rosters /\ DOMAIN NoOne = {}
<1>1. NoOne \in [{} -> Infos]
    BY DEF NoOne
<1> QED BY <1>1 DEF Rosters, NoOne

\* A client that applies an event has a roster again.
LEMMA ApplyType ==
    ASSUME NEW roster \in Rosters, NEW m \in Messages
    PROVE  Apply(roster, m) \in Rosters
<1>1. CASE m \in [type : {"room-state"}, roster : Rosters]
    BY <1>1 DEF Apply
<1>2. CASE m \in [type : {"user-joined"}, who : Sockets, info : Infos]
    BY <1>2, RosterOps DEF Apply
<1>3. CASE m \in [type : {"user-left", "slide-update"}, who : Sockets]
    <2>1. CASE m.type = "user-left"
        BY <1>3, <2>1, RosterOps DEF Apply
    <2>2. CASE m.type = "slide-update"
        BY <2>2 DEF Apply
    <2> QED BY <1>3, <2>1, <2>2
<1>4. CASE m \in [type : {"cursor-move"}, who : Sockets, cursor : Cursors]
    <2>1. CASE m.who \in DOMAIN roster
        BY <1>4, <2>1, MoveRoster DEF Apply
    <2>2. CASE m.who \notin DOMAIN roster
        BY <1>4, <2>2 DEF Apply
    <2> QED BY <2>1, <2>2
<1> QED BY <1>1, <1>2, <1>3, <1>4 DEF Messages

\* What the handlers emit.
LEMMA MessageTypes ==
    ASSUME NEW s \in Sockets
    PROVE  /\ \A roster \in Rosters : [type |-> "room-state", roster |-> roster] \in Messages
           /\ \A info \in Infos : [type |-> "user-joined", who |-> s, info |-> info] \in Messages
           /\ [type |-> "user-left", who |-> s] \in Messages
           /\ [type |-> "slide-update", who |-> s] \in Messages
           /\ \A c \in Cursors : [type |-> "cursor-move", who |-> s, cursor |-> c] \in Messages
BY DEF Messages

LEMMA EmitType ==
    ASSUME inbox \in [Sockets -> Seq(Messages)], NEW S, NEW m \in Messages
    PROVE  Emit(S, m) \in [Sockets -> Seq(Messages)]
<1>1. ASSUME NEW q \in Sockets PROVE Append(inbox[q], m) \in Seq(Messages)
    OBVIOUS
<1> QED BY <1>1 DEF Emit

\* The palette position of a newcomer.
LEMMA NewInfo ==
    ASSUME NEW roster \in Rosters
    PROVE  [color |-> GetColor(Cardinality(DOMAIN roster)), cursor |-> NoCursor] \in Infos
<1>1. DOMAIN roster \subseteq Sockets
    BY DEF Rosters
<1>2. Cardinality(DOMAIN roster) \in Nat
    BY <1>1, SetsAssumption, FS_Subset, FS_CardinalityType
<1>3. GetColor(Cardinality(DOMAIN roster)) \in 0..(NumColours - 1)
    BY <1>2, BoundsAssumption DEF GetColor
<1> QED BY <1>3 DEF Infos

\* The number of user-left events that a socket gets from one disconnect.
LEMMA ToldType ==
    ASSUME NEW T \in SUBSET Pids
    PROVE  Cardinality(T) \in Nat
BY SetsAssumption, FS_Subset, FS_CardinalityType

LEMMA CopiesType ==
    ASSUME NEW n \in Nat, NEW m \in Messages
    PROVE  [i \in 1..n |-> m] \in Seq(Messages)
OBVIOUS

LEMMA CopiesFew ==
    ASSUME NEW q \in Seq(Messages), NEW m \in Messages
    PROVE  q \o [i \in 1..0 |-> m] = q /\ q \o [i \in 1..1 |-> m] = Append(q, m)
<1>1. q \o [i \in 1..0 |-> m] = q
    OBVIOUS
<1>2. q \o [i \in 1..1 |-> m] = Append(q, m)
    OBVIOUS
<1> QED BY <1>1, <1>2

\* The init state is well typed, every roster empty.
LEMMA InitInd == Init => IndInv
<1> SUFFICES ASSUME Init PROVE IndInv
    OBVIOUS
<1>1. TypeOK
    BY NoOneType DEF Init, TypeOK
<1>2. MembershipAgrees /\ OneRoom /\ RosterConverges
    BY NoOneType DEF Init, MembershipAgrees, OneRoom, RosterConverges
<1> QED BY <1>1, <1>2 DEF IndInv

\* Every handler keeps the types.
LEMMA TypeStep == TypeOK /\ [Next]_vars => TypeOK'
<1> SUFFICES ASSUME TypeOK, [Next]_vars PROVE TypeOK'
    OBVIOUS
<1> USE DEF TypeOK
<1>1. ASSUME NEW s \in Sockets, Connect(s) PROVE TypeOK'
    BY <1>1 DEF Connect
<1>2. ASSUME NEW s \in Sockets, Disconnect(s) PROVE TypeOK'
    <2> DEFINE In == {p \in Pids : s \in DOMAIN rooms[p]}
               T(q) == {p \in In : q \in Others(s, p)}
               left == [type |-> "user-left", who |-> s]
    <2>1. ASSUME NEW q \in Sockets
          PROVE  inbox[q] \o [i \in 1..Cardinality(T(q)) |-> left] \in Seq(Messages)
        <3>1. Cardinality(T(q)) \in Nat
            <4>1. T(q) \in SUBSET Pids
                OBVIOUS
            <4> HIDE DEF T
            <4> QED BY <4>1, ToldType
        <3>2. left \in Messages
            BY MessageTypes
        <3>3. [i \in 1..Cardinality(T(q)) |-> left] \in Seq(Messages)
            <4> HIDE DEF T, left
            <4> QED BY <3>1, <3>2, CopiesType
        <3>4. inbox[q] \in Seq(Messages)
            OBVIOUS
        <3> HIDE DEF T, left
        <3> QED BY <3>3, <3>4
    <2>2. inbox' = [q \in Sockets |-> IF q = s THEN << >>
                                      ELSE inbox[q] \o [i \in 1..Cardinality(T(q)) |-> left]]
        BY <1>2 DEF Disconnect
    <2>3. inbox' \in [Sockets -> Seq(Messages)]
        <3> HIDE DEF T, left
        <3> QED BY <2>1, <2>2
    <2>4. rooms' \in [Pids -> Rosters] /\ view' \in [Sockets -> Rosters]
        BY <1>2, RosterOps, NoOneType DEF Disconnect
    <2>5. open' \subseteq Sockets /\ members' \in [Pids -> SUBSET open'] /\ mixed' \in [Sockets -> BOOLEAN]
        BY <1>2 DEF Disconnect
    <2> QED BY <2>3, <2>4, <2>5
<1>3. ASSUME NEW s \in Sockets, Deliver(s) PROVE TypeOK'
    <2>1. inbox[s] \in Seq(Messages) /\ inbox[s] # << >>
        BY <1>3 DEF Deliver
    <2>2. Head(inbox[s]) \in Messages /\ Tail(inbox[s]) \in Seq(Messages)
        BY <2>1
    <2>3. Apply(view[s], Head(inbox[s])) \in Rosters
        BY <2>2, ApplyType
    <2> QED BY <1>3, <2>2, <2>3 DEF Deliver
<1>4. ASSUME NEW s \in Sockets, NEW p \in Pids, JoinRoom(s, p) PROVE TypeOK'
    <2> DEFINE info == [color |-> GetColor(Cardinality(DOMAIN rooms[p])), cursor |-> NoCursor]
               joined == [type |-> "user-joined", who |-> s, info |-> info]
               state == [type |-> "room-state", roster |-> rooms'[p]]
    <2>1. info \in Infos
        BY NewInfo
    <2>2. rooms' = [rooms EXCEPT ![p] = Put(@, s, info)]
        BY <1>4 DEF JoinRoom
    <2>3. rooms' \in [Pids -> Rosters]
        <3> HIDE DEF info
        <3> QED BY <2>1, <2>2, RosterOps
    <2>4. joined \in Messages /\ state \in Messages
        <3> HIDE DEF info
        <3> QED BY <2>1, <2>3, MessageTypes
    <2>5. inbox' = [q \in Sockets |-> IF q = s THEN Append(inbox[s], state)
                                      ELSE Emit(Others(s, p), joined)[q]]
        BY <1>4 DEF JoinRoom
    <2>6. inbox' \in [Sockets -> Seq(Messages)]
        <3>1. Emit(Others(s, p), joined) \in [Sockets -> Seq(Messages)]
            <4> HIDE DEF joined
            <4> QED BY <2>4, EmitType
        <3>2. Append(inbox[s], state) \in Seq(Messages)
            <4> HIDE DEF state
            <4> QED BY <2>4
        <3> HIDE DEF state, joined
        <3> QED BY <2>5, <3>1, <3>2
    <2>7. mixed' \in [Sockets -> BOOLEAN]
        <3> DEFINE e == \E o \in Pids \ {p} : s \in members[o]
        <3>1. mixed' = [mixed EXCEPT ![s] = e] /\ e \in BOOLEAN
            BY <1>4 DEF JoinRoom
        <3> HIDE DEF e
        <3> QED BY <3>1
    <2>8. open' \subseteq Sockets /\ members' \in [Pids -> SUBSET open'] /\ view' = view
        BY <1>4 DEF JoinRoom
    <2> QED BY <2>3, <2>6, <2>7, <2>8
<1>5. ASSUME NEW s \in Sockets, NEW p \in Pids, LeaveRoom(s, p) PROVE TypeOK'
    <2>1. rooms' \in [Pids -> Rosters]
        BY <1>5, RosterOps DEF LeaveRoom
    <2>2. inbox' \in [Sockets -> Seq(Messages)]
        BY <1>5, MessageTypes, EmitType DEF LeaveRoom
    <2> QED BY <1>5, <2>1, <2>2 DEF LeaveRoom
<1>6. ASSUME NEW s \in Sockets, NEW p \in Pids, SlideUpdate(s, p) PROVE TypeOK'
    <2>1. inbox' \in [Sockets -> Seq(Messages)]
        BY <1>6, MessageTypes, EmitType DEF SlideUpdate
    <2> QED BY <1>6, <2>1 DEF SlideUpdate
<1>7. ASSUME NEW s \in Sockets, NEW p \in Pids, NEW c \in Cursors, CursorMove(s, p, c) PROVE TypeOK'
    <2>1. rooms' \in [Pids -> Rosters]
        <3>1. CASE s \in DOMAIN rooms[p]
            <4>1. [rooms[p] EXCEPT ![s].cursor = c] \in Rosters
                BY <3>1, MoveRoster
            <4>2. rooms' = [rooms EXCEPT ![p] = [rooms[p] EXCEPT ![s].cursor = c]]
                BY <1>7, <3>1 DEF CursorMove
            <4> QED BY <4>1, <4>2
        <3>2. CASE s \notin DOMAIN rooms[p]
            BY <1>7, <3>2 DEF CursorMove
        <3> QED BY <3>1, <3>2
    <2>2. inbox' \in [Sockets -> Seq(Messages)]
        BY <1>7, MessageTypes, EmitType DEF CursorMove
    <2> QED BY <1>7, <2>1, <2>2 DEF CursorMove
<1>8. CASE Restart
    BY <1>8, NoOneType DEF Restart
<1>9. CASE UNCHANGED vars
    BY <1>9 DEF vars
<1> QED BY <1>1, <1>2, <1>3, <1>4, <1>5, <1>6, <1>7, <1>8, <1>9 DEF Next

-----------------------------------------------------------------------------
(* Membership                                                              *)

\* The map and socket.io change together in every handler.
LEMMA MembershipStep == TypeOK /\ MembershipAgrees /\ [Next]_vars => MembershipAgrees'
<1> SUFFICES ASSUME TypeOK, MembershipAgrees, [Next]_vars, NEW p \in Pids
             PROVE  DOMAIN rooms'[p] = members'[p]
    BY DEF MembershipAgrees
<1> USE DEF MembershipAgrees, TypeOK
<1>1. ASSUME NEW s \in Sockets, Connect(s) \/ Deliver(s) PROVE DOMAIN rooms'[p] = members'[p]
    BY <1>1 DEF Connect, Deliver
<1>2. ASSUME NEW s \in Sockets, Disconnect(s) PROVE DOMAIN rooms'[p] = members'[p]
    <2>1. rooms'[p] = Without(rooms[p], s) /\ members'[p] = members[p] \ {s}
        BY <1>2 DEF Disconnect
    <2> QED BY <2>1 DEF Without
<1>3. ASSUME NEW s \in Sockets, NEW o \in Pids, JoinRoom(s, o) PROVE DOMAIN rooms'[p] = members'[p]
    <2>1. CASE o = p
        <3>1. PICK info : rooms'[p] = Put(rooms[p], s, info) /\ members'[p] = members[p] \cup {s}
            BY <1>3, <2>1 DEF JoinRoom
        <3> QED BY <3>1 DEF Put
    <2>2. CASE o # p
        <3>1. rooms'[p] = rooms[p] /\ members'[p] = members[p]
            BY <1>3, <2>2 DEF JoinRoom
        <3> QED BY <3>1
    <2> QED BY <2>1, <2>2
<1>4. ASSUME NEW s \in Sockets, NEW o \in Pids, LeaveRoom(s, o) PROVE DOMAIN rooms'[p] = members'[p]
    <2>1. CASE o = p
        <3>1. rooms'[p] = Without(rooms[p], s) /\ members'[p] = members[p] \ {s}
            BY <1>4, <2>1 DEF LeaveRoom
        <3> QED BY <3>1 DEF Without
    <2>2. CASE o # p
        <3>1. rooms'[p] = rooms[p] /\ members'[p] = members[p]
            BY <1>4, <2>2 DEF LeaveRoom
        <3> QED BY <3>1
    <2> QED BY <2>1, <2>2
<1>5. ASSUME NEW s \in Sockets, NEW o \in Pids, SlideUpdate(s, o) PROVE DOMAIN rooms'[p] = members'[p]
    BY <1>5 DEF SlideUpdate
<1>6. ASSUME NEW s \in Sockets, NEW o \in Pids, NEW c \in Cursors, CursorMove(s, o, c)
      PROVE  DOMAIN rooms'[p] = members'[p]
    <2>1. CASE s \in DOMAIN rooms[o]
        <3>1. rooms' = [rooms EXCEPT ![o] = [rooms[o] EXCEPT ![s].cursor = c]] /\ members' = members
            BY <1>6, <2>1 DEF CursorMove
        <3>2. DOMAIN [rooms[o] EXCEPT ![s].cursor = c] = DOMAIN rooms[o]
            BY <2>1, MoveRoster
        <3> QED BY <3>1, <3>2
    <2>2. CASE s \notin DOMAIN rooms[o]
        BY <1>6, <2>2 DEF CursorMove
    <2> QED BY <2>1, <2>2
<1>7. CASE Restart
    BY <1>7, NoOneType DEF Restart
<1>8. CASE UNCHANGED vars
    BY <1>8 DEF vars
<1> QED BY <1>1, <1>2, <1>3, <1>4, <1>5, <1>6, <1>7, <1>8 DEF Next

\* Only a join enters a room, and it records whether there was another one.
LEMMA OneRoomStep == TypeOK /\ OneRoom /\ [Next]_vars => OneRoom'
<1> SUFFICES ASSUME TypeOK, OneRoom, [Next]_vars,
                    NEW q \in Sockets, NEW a \in Pids, NEW b \in Pids,
                    ~mixed'[q], q \in members'[a], q \in members'[b]
             PROVE  a = b
    BY DEF OneRoom
<1> USE DEF OneRoom, TypeOK
<1>1. ASSUME NEW s \in Sockets, Connect(s) \/ Deliver(s) PROVE a = b
    BY <1>1 DEF Connect, Deliver
<1>2. ASSUME NEW s \in Sockets, Disconnect(s) PROVE a = b
    BY <1>2 DEF Disconnect
<1>3. ASSUME NEW s \in Sockets, NEW p \in Pids, JoinRoom(s, p) PROVE a = b
    <2> DEFINE e == \E x \in Pids \ {p} : s \in members[x]
    <2>1. mixed' = [mixed EXCEPT ![s] = e] /\ members' = [members EXCEPT ![p] = @ \cup {s}]
        BY <1>3 DEF JoinRoom
    <2>2. CASE q = s
        <3>1. ~e
            <4> HIDE DEF e
            <4> QED BY <2>1, <2>2
        <3>2. \A x \in Pids \ {p} : s \notin members'[x]
            BY <2>1, <3>1
        <3> QED BY <2>2, <3>2
    <2>3. CASE q # s
        <3>1. ~mixed[q]
            <4> HIDE DEF e
            <4> QED BY <2>1, <2>3
        <3>2. q \in members[a] /\ q \in members[b]
            BY <2>1, <2>3
        <3> QED BY <3>1, <3>2
    <2> QED BY <2>2, <2>3
<1>4. ASSUME NEW s \in Sockets, NEW p \in Pids, LeaveRoom(s, p) PROVE a = b
    BY <1>4 DEF LeaveRoom
<1>5. ASSUME NEW s \in Sockets, NEW p \in Pids, SlideUpdate(s, p) PROVE a = b
    BY <1>5 DEF SlideUpdate
<1>6. ASSUME NEW s \in Sockets, NEW p \in Pids, NEW c \in Cursors, CursorMove(s, p, c) PROVE a = b
    BY <1>6 DEF CursorMove
<1>7. CASE Restart
    BY <1>7 DEF Restart
<1>8. CASE UNCHANGED vars
    BY <1>8 DEF vars
<1> QED BY <1>1, <1>2, <1>3, <1>4, <1>5, <1>6, <1>7, <1>8 DEF Next

-----------------------------------------------------------------------------
(* The roster                                                              *)

\* An event for everyone else in the room: what the receiver will have read then.
LEMMA ReadEmitted ==
    ASSUME TypeOK, NEW s \in Sockets, NEW p \in Pids, NEW q \in Sockets, NEW m \in Messages,
           NEW box, box = Emit(Others(s, p), m)[q]
    PROVE  Read(view[q], box) =
              IF q \in members[p] /\ q # s THEN Apply(Read(view[q], inbox[q]), m)
              ELSE Read(view[q], inbox[q])
<1>1. inbox[q] \in Seq(Messages)
    BY DEF TypeOK
<1>2. box = IF q \in members[p] /\ q # s THEN Append(inbox[q], m) ELSE inbox[q]
    BY DEF Emit, Others
<1> QED BY <1>1, <1>2, ReadAppend

\* Every handler keeps the receivers' rosters in step with the room.
LEMMA RosterStep == IndInv /\ [Next]_vars => RosterConverges'
<1> SUFFICES ASSUME IndInv, [Next]_vars, NEW q \in open', NEW o \in Pids,
                    q \in members'[o], ~mixed'[q]
             PROVE  Agrees(Read(view'[q], inbox'[q]), rooms'[o], q)
    BY DEF RosterConverges
<1> DEFINE Good == Agrees(Read(view'[q], inbox'[q]), rooms'[o], q)
           now == Read(view[q], inbox[q])
<1> SUFFICES Good
    BY DEF Good
<1> HIDE DEF Good, now
<1>0. /\ TypeOK /\ TypeOK' /\ MembershipAgrees /\ MembershipAgrees' /\ OneRoom /\ q \in Sockets
      /\ rooms[o] \in Rosters /\ inbox[q] \in Seq(Messages) /\ q \in DOMAIN rooms'[o]
    BY TypeStep, MembershipStep DEF IndInv, TypeOK, MembershipAgrees
\* As it was before, when it was there before.
<1>a. ASSUME q \in members[o], ~mixed[q]
      PROVE  Agrees(now, rooms[o], q) /\ q \in DOMAIN rooms[o]
    BY <1>a, <1>0 DEF IndInv, RosterConverges, now, TypeOK, MembershipAgrees
<1>1. ASSUME NEW s \in Sockets, Connect(s) PROVE Good
    <2>1. q \in members[o] /\ ~mixed[q] /\ rooms' = rooms /\ inbox' = inbox /\ view' = view
        BY <1>1 DEF Connect
    <2> QED BY <1>a, <2>1 DEF Good, now
<1>2. ASSUME NEW s \in Sockets, Disconnect(s) PROVE Good
    <2> DEFINE T == {p \in {x \in Pids : s \in DOMAIN rooms[x]} : q \in Others(s, p)}
               left == [type |-> "user-left", who |-> s]
    <2>1. q # s /\ q \in members[o] /\ ~mixed[q] /\ view'[q] = view[q]
          /\ rooms'[o] = Without(rooms[o], s)
        BY <1>2, <1>0 DEF Disconnect, TypeOK
    <2>2. inbox'[q] = inbox[q] \o [i \in 1..Cardinality(T) |-> left]
        BY <1>2, <1>0, <2>1 DEF Disconnect
    <2>3. \A p \in Pids : q \in members[p] => p = o
        BY <1>0, <2>1 DEF OneRoom
    <2>4. left \in Messages
        BY MessageTypes
    <2>5. CASE s \in DOMAIN rooms[o]
        <3>1. T = {o}
            BY <2>1, <2>3, <2>5 DEF Others
        <3>2. Cardinality(T) = 1
            BY <3>1, FS_Singleton
        <3>3. inbox'[q] = Append(inbox[q], left)
            <4> HIDE DEF T, left
            <4> QED BY <1>0, <2>2, <2>4, <3>2, CopiesFew
        <3>4. Read(view'[q], inbox'[q]) = Apply(now, left)
            <4> HIDE DEF left
            <4> QED BY <1>0, <2>1, <2>4, <3>3, ReadAppend DEF now
        <3>5. Apply(now, left) = Without(now, s)
            BY DEF Apply
        <3> QED BY <1>a, <2>1, <3>4, <3>5, WithoutAgrees DEF Good
    <2>6. CASE s \notin DOMAIN rooms[o]
        <3>1. T = {}
            BY <2>3, <2>6 DEF Others
        <3>2. Cardinality(T) = 0
            BY <3>1, FS_EmptySet
        <3>3. inbox'[q] = inbox[q]
            <4> HIDE DEF T, left
            <4> QED BY <1>0, <2>2, <2>4, <3>2, CopiesFew
        <3>4. Without(rooms[o], s) = rooms[o]
            BY <1>0, <2>6 DEF Without, Rosters
        <3> QED BY <1>a, <2>1, <3>3, <3>4 DEF Good, now
    <2> QED BY <2>5, <2>6
<1>3. ASSUME NEW s \in Sockets, Deliver(s) PROVE Good
    <2>1. q \in members[o] /\ ~mixed[q] /\ rooms' = rooms
        BY <1>3 DEF Deliver
    <2>2. CASE q = s
        <3>1. inbox[q] # << >> /\ view'[q] = Apply(view[q], Head(inbox[q])) /\ inbox'[q] = Tail(inbox[q])
            BY <1>3, <1>0, <2>2 DEF Deliver, TypeOK
        <3>2. Read(view'[q], inbox'[q]) = now
            BY <1>0, <3>1, ReadHead DEF now
        <3> QED BY <1>a, <2>1, <3>2 DEF Good
    <2>3. CASE q # s
        <3>1. view'[q] = view[q] /\ inbox'[q] = inbox[q]
            BY <1>3, <1>0, <2>3 DEF Deliver, TypeOK
        <3> QED BY <1>a, <2>1, <3>1 DEF Good, now
    <2> QED BY <2>2, <2>3
<1>4. ASSUME NEW s \in Sockets, NEW p \in Pids, JoinRoom(s, p) PROVE Good
    <2> DEFINE info == [color |-> GetColor(Cardinality(DOMAIN rooms[p])), cursor |-> NoCursor]
               joined == [type |-> "user-joined", who |-> s, info |-> info]
               state == [type |-> "room-state", roster |-> rooms'[p]]
               e == \E x \in Pids \ {p} : s \in members[x]
    <2>1. /\ rooms' = [rooms EXCEPT ![p] = Put(@, s, info)] /\ view' = view
          /\ members' = [members EXCEPT ![p] = @ \cup {s}]
          /\ mixed' = [mixed EXCEPT ![s] = e]
          /\ inbox'[q] = IF q = s THEN Append(inbox[s], state) ELSE Emit(Others(s, p), joined)[q]
        BY <1>4, <1>0 DEF JoinRoom
    <2>2. info \in Infos
        BY <1>0, NewInfo DEF TypeOK
    <2>3. CASE q = s
        <3>1. o = p
            <4>1. ~e
                <5> HIDE DEF e
                <5> QED BY <1>0, <2>1, <2>3 DEF TypeOK
            <4>2. o # p => q \in members[o]
                <5> HIDE DEF e, info, state, joined
                <5> QED BY <1>0, <2>1 DEF TypeOK
            <4> QED BY <4>1, <4>2, <2>3
        <3>2. state \in Messages
            BY <1>0, MessageTypes DEF TypeOK
        <3>3. Read(view'[q], inbox'[q]) = Apply(now, state)
            <4>1. view'[q] = view[q] /\ inbox'[q] = Append(inbox[q], state)
                <5> HIDE DEF state, joined
                <5> QED BY <2>1, <2>3
            <4> HIDE DEF state
            <4> QED BY <1>0, <3>2, <4>1, ReadAppend DEF now
        <3>4. Apply(now, state) = rooms'[o]
            BY <3>1 DEF Apply
        <3>5. Agrees(rooms'[o], rooms'[o], q)
            BY <1>0 DEF Agrees
        <3> QED BY <3>3, <3>4, <3>5 DEF Good
    <2>4. CASE q # s
        <3>1. q \in members[o] /\ ~mixed[q]
            <4> HIDE DEF e, info, state, joined
            <4> QED BY <1>0, <2>1, <2>4 DEF TypeOK
        <3>2. joined \in Messages
            <4> HIDE DEF info
            <4> QED BY <2>2, MessageTypes
        <3>3. view'[q] = view[q] /\ inbox'[q] = Emit(Others(s, p), joined)[q]
            <4> HIDE DEF state, joined
            <4> QED BY <2>1, <2>4
        <3>4. Read(view'[q], inbox'[q]) = IF q \in members[p] THEN Apply(now, joined) ELSE now
            <4> HIDE DEF joined
            <4> QED BY <1>0, <2>4, <3>2, <3>3, ReadEmitted DEF now
        <3>5. Apply(now, joined) = Put(now, s, info)
            <4> HIDE DEF info
            <4> QED BY DEF Apply
        <3>6. CASE o = p
            <4>1. rooms'[o] = Put(rooms[o], s, info)
                <5> HIDE DEF info
                <5> QED BY <1>0, <2>1, <3>6 DEF TypeOK
            <4> HIDE DEF info, joined
            <4> QED BY <1>a, <2>4, <3>1, <3>4, <3>5, <3>6, <4>1, PutAgrees DEF Good
        <3>7. CASE o # p
            <4>1. rooms'[o] = rooms[o]
                <5> HIDE DEF info
                <5> QED BY <1>0, <2>1, <3>7 DEF TypeOK
            <4>2. q \notin members[p]
                BY <1>0, <3>1, <3>7 DEF OneRoom
            <4> HIDE DEF joined
            <4> QED BY <1>a, <3>1, <3>4, <4>1, <4>2 DEF Good
        <3> QED BY <3>6, <3>7
    <2> QED BY <2>3, <2>4
<1>5. ASSUME NEW s \in Sockets, NEW p \in Pids, LeaveRoom(s, p) PROVE Good
    <2> DEFINE left == [type |-> "user-left", who |-> s]
    <2>1. q \in members[o] /\ ~mixed[q] /\ view' = view /\ ~(q = s /\ o = p)
        BY <1>5, <1>0 DEF LeaveRoom, TypeOK
    <2>2. rooms'[o] = IF o = p THEN Without(rooms[o], s) ELSE rooms[o]
        BY <1>5, <1>0 DEF LeaveRoom, TypeOK
    <2>3. left \in Messages /\ inbox'[q] = Emit(Others(s, p), left)[q]
        BY <1>5, MessageTypes DEF LeaveRoom
    <2>4. Read(view'[q], inbox'[q]) = IF q \in members[p] /\ q # s THEN Apply(now, left) ELSE now
        <3> HIDE DEF left
        <3> QED BY <1>0, <2>1, <2>3, ReadEmitted DEF now
    <2>5. Apply(now, left) = Without(now, s)
        BY DEF Apply
    <2>6. q \in members[p] <=> o = p
        BY <1>0, <2>1 DEF OneRoom
    <2> HIDE DEF left
    <2>7. CASE o = p
        BY <1>a, <2>1, <2>2, <2>4, <2>5, <2>6, <2>7, WithoutAgrees DEF Good
    <2>8. CASE o # p
        BY <1>a, <2>1, <2>2, <2>4, <2>6, <2>8 DEF Good
    <2> QED BY <2>7, <2>8
<1>6. ASSUME NEW s \in Sockets, NEW p \in Pids, SlideUpdate(s, p) PROVE Good
    <2> DEFINE update == [type |-> "slide-update", who |-> s]
    <2>1. q \in members[o] /\ ~mixed[q] /\ view' = view /\ rooms' = rooms
        BY <1>6 DEF SlideUpdate
    <2>2. update \in Messages /\ inbox'[q] = Emit(Others(s, p), update)[q]
        BY <1>6, MessageTypes DEF SlideUpdate
    <2>3. Read(view'[q], inbox'[q]) = IF q \in members[p] /\ q # s THEN Apply(now, update) ELSE now
        <3> HIDE DEF update
        <3> QED BY <1>0, <2>1, <2>2, ReadEmitted DEF now
    <2>4. Apply(now, update) = now
        BY DEF Apply
    <2> HIDE DEF update
    <2> QED BY <1>a, <2>1, <2>3, <2>4 DEF Good
<1>7. ASSUME NEW s \in Sockets, NEW p \in Pids, NEW c \in Cursors, CursorMove(s, p, c) PROVE Good
    <2> DEFINE move == [type |-> "cursor-move", who |-> s, cursor |-> c]
    <2>1. q \in members[o] /\ ~mixed[q] /\ view' = view
        BY <1>7 DEF CursorMove
    <2>2. move \in Messages /\ inbox'[q] = Emit(Others(s, p), move)[q]
        BY <1>7, MessageTypes DEF CursorMove
    <2>3. Read(view'[q], inbox'[q]) = IF q \in members[p] /\ q # s THEN Apply(now, move) ELSE now
        <3> HIDE DEF move
        <3> QED BY <1>0, <2>1, <2>2, ReadEmitted DEF now
    <2>4. Apply(now, move) = IF s \in DOMAIN now THEN [now EXCEPT ![s].cursor = c] ELSE now
        BY DEF Apply
    <2>5. q \in members[p] <=> o = p
        BY <1>0, <2>1 DEF OneRoom
    <2>6. Agrees(now, rooms[o], q) /\ q \in DOMAIN rooms[o]
        BY <1>a, <2>1
    <2>7. q # s => (s \in DOMAIN now <=> s \in DOMAIN rooms[o])
        <3>1. DOMAIN now \ {q} = DOMAIN rooms[o] \ {q}
            BY <2>6 DEF Agrees, Without
        <3> QED BY <3>1
    <2>8. rooms'[o] = IF o = p /\ s \in DOMAIN rooms[o] THEN [rooms[o] EXCEPT ![s].cursor = c]
                      ELSE rooms[o]
        BY <1>7, <1>0 DEF CursorMove, TypeOK
    <2> HIDE DEF move
    <2>9. CASE o # p \/ s \notin DOMAIN rooms[o]
        <3>1. rooms'[o] = rooms[o]
            BY <2>8, <2>9
        <3>2. Read(view'[q], inbox'[q]) = now
            BY <2>3, <2>4, <2>5, <2>7, <2>9
        <3> QED BY <2>6, <3>1, <3>2 DEF Good
    <2>10. CASE o = p /\ s \in DOMAIN rooms[o] /\ q # s
        <3>1. Agrees([now EXCEPT ![s].cursor = c], [rooms[o] EXCEPT ![s].cursor = c], q)
            BY <2>6, <2>10, CursorAgrees
        <3>2. Read(view'[q], inbox'[q]) = [now EXCEPT ![s].cursor = c]
            BY <2>3, <2>4, <2>5, <2>7, <2>10
        <3> QED BY <2>8, <2>10, <3>1, <3>2 DEF Good
    <2>11. CASE o = p /\ s \in DOMAIN rooms[o] /\ q = s
        <3>1. Agrees(now, [rooms[o] EXCEPT ![s].cursor = c], q)
            BY <1>0, <2>6, <2>11, OwnCursorAgrees
        <3> QED BY <2>3, <2>8, <2>11, <3>1 DEF Good
    <2> QED BY <2>9, <2>10, <2>11
<1>8. CASE Restart
    BY <1>8 DEF Restart
<1>9. CASE UNCHANGED vars
    BY <1>9, <1>a DEF vars, Good, now
<1> QED BY <1>1, <1>2, <1>3, <1>4, <1>5, <1>6, <1>7, <1>8, <1>9 DEF Next

-----------------------------------------------------------------------------
(* Theorems                                                                *)

\* The inductive invariant holds throughout.
THEOREM IndInvHolds == Spec => []IndInv
<1>1. IndInv /\ [Next]_vars => IndInv'
    BY TypeStep, MembershipStep, OneRoomStep, RosterStep DEF IndInv
<1> QED BY <1>1, InitInd, PTL DEF Spec

\* Type correctness of the server's map, of what is on its way and of what the
\* clients show; the palette position of a collaborator is always in the palette.
THEOREM TypeCorrect == Spec => []TypeOK
<1>1. IndInv => TypeOK
    BY DEF IndInv
<1> QED BY <1>1, IndInvHolds, PTL

\* The map of the server and socket.io's rooms have the same members after any
\* sequence of joins, leaves, disconnects and restarts.
THEOREM MembershipTheorem == Spec => []MembershipAgrees
<1>1. IndInv => MembershipAgrees
    BY DEF IndInv
<1> QED BY <1>1, IndInvHolds, PTL

\* Whatever is still on its way to a client takes its roster to the server's
\* room, for any number of sockets, rooms and events.
THEOREM RosterTheorem == Spec => []RosterConverges
<1>1. IndInv => RosterConverges
    BY DEF IndInv
<1> QED BY <1>1, IndInvHolds, PTL
=============================================================================
