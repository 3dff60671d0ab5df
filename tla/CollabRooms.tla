---------------------------- MODULE CollabRooms ------------------------------
(***************************************************************************)
(* Live collaboration: the /collab namespace of collaborationSocket.       *)
(*                                                                         *)
(* The server keeps `rooms`, a map from presentation to the collaborators  *)
(* in it, beside socket.io's own room membership.  A handler runs to its   *)
(* end without an await, so it is one action; what it emits travels to     *)
(* each socket over one ordered connection.  The browser is not part of    *)
(* the repository: `view` is the roster a client gets by applying the      *)
(* events in the order in which they arrive.                               *)
(***************************************************************************)
EXTENDS Naturals, Sequences, FiniteSets

CONSTANTS
    Sockets,      \* connections that can be open at the same time
    Pids,         \* presentation ids, which name the rooms
    Cursors,      \* cursor positions
    NoCursor,     \* a collaborator that has not moved yet
    NumColours,   \* COLOURS.length: 8 in the code
    MaxInbox      \* bound: nothing more is emitted to a socket this far behind

ASSUME SetsAssumption == IsFiniteSet(Sockets) /\ IsFiniteSet(Pids)
ASSUME CursorAssumption == NoCursor \notin Cursors
ASSUME BoundsAssumption == NumColours \in Nat \ {0} /\ MaxInbox \in Nat

VARIABLES
    rooms,        \* room -> socket -> CollaboratorInfo (an absent room is empty)
    members,      \* socket.io: the sockets joined to each room
    open,         \* sockets past the authentication middleware
    inbox,        \* events on their way to a socket
    view,         \* the roster a client shows
    mixed         \* history: the socket last joined while in another room

vars == <<rooms, members, open, inbox, view, mixed>>

Infos == [color : 0..(NumColours - 1), cursor : Cursors \cup {NoCursor}]
Rosters == UNION {[S -> Infos] : S \in SUBSET Sockets}
NoOne == [s \in {} |-> NoCursor]
Messages ==
    [type : {"room-state"}, roster : Rosters]
      \cup [type : {"user-joined"}, who : Sockets, info : Infos]
      \cup [type : {"user-left", "slide-update"}, who : Sockets]
      \cup [type : {"cursor-move"}, who : Sockets, cursor : Cursors]

TypeOK ==
    /\ rooms \in [Pids -> Rosters]
    /\ open \subseteq Sockets
    /\ members \in [Pids -> SUBSET open]
    /\ inbox \in [Sockets -> Seq(Messages)]
    /\ view \in [Sockets -> Rosters]
    /\ mixed \in [Sockets -> BOOLEAN]

Init ==
    /\ rooms = [p \in Pids |-> NoOne]
    /\ members = [p \in Pids |-> {}]
    /\ open = {}
    /\ inbox = [s \in Sockets |-> <<>>]
    /\ view = [s \in Sockets |-> NoOne]
    /\ mixed = [s \in Sockets |-> FALSE]

\* Map.set and Map.delete.
Put(roster, s, info) ==
    [q \in DOMAIN roster \cup {s} |-> IF q = s THEN info ELSE roster[q]]
Without(roster, s) == [q \in DOMAIN roster \ {s} |-> roster[q]]

-----------------------------------------------------------------------------
(* Emitting and receiving                                                  *)

HasSpace(S) == \A q \in S : Len(inbox[q]) < MaxInbox

\* socket.to(p).emit: everyone in the room but the sender.
Others(s, p) == members[p] \ {s}
Emit(S, m) == [q \in Sockets |-> IF q \in S THEN Append(inbox[q], m) ELSE inbox[q]]

\* What an event does to a client's roster.
Apply(roster, m) ==
    CASE m.type = "room-state" -> m.roster
      [] m.type = "user-joined" -> Put(roster, m.who, m.info)
      [] m.type = "user-left" -> Without(roster, m.who)
      [] m.type = "cursor-move" /\ m.who \in DOMAIN roster ->
            [roster EXCEPT ![m.who].cursor = m.cursor]
      [] OTHER -> roster

\* The roster of a client that reads the whole of q.
Read(roster, q) ==
    LET after[i \in 0..Len(q)] == IF i = 0 THEN roster ELSE Apply(after[i - 1], q[i])
    IN  after[Len(q)]

Deliver(s) ==
    /\ inbox[s] # <<>>
    /\ view' = [view EXCEPT ![s] = Apply(@, Head(inbox[s]))]
    /\ inbox' = [inbox EXCEPT ![s] = Tail(@)]
    /\ UNCHANGED <<rooms, members, open, mixed>>

-----------------------------------------------------------------------------
(* Handlers                                                                *)

\* A socket that passes the token check.
Connect(s) ==
    /\ s \notin open
    /\ open' = open \cup {s}
    /\ UNCHANGED <<rooms, members, inbox, view, mixed>>

\* Mutant: the palette is taken to have one more colour.
GetColorPastEnd(index) == index % (NumColours + 1)

\* COLOURS[index % COLOURS.length], as the position in the palette.
GetColor(index) == index % NumColours

\* Mutant: room-state is sent before the joining user is entered.
JoinRoomStateFirst(s, p) ==
    LET info == [color |-> GetColor(Cardinality(DOMAIN rooms[p])), cursor |-> NoCursor]
    IN  /\ s \in open
        /\ HasSpace(members[p] \cup {s})
        /\ members' = [members EXCEPT ![p] = @ \cup {s}]
        /\ rooms' = [rooms EXCEPT ![p] = Put(@, s, info)]
        /\ inbox' = [q \in Sockets |->
              IF q = s THEN Append(inbox[s], [type |-> "room-state", roster |-> rooms[p]])
              ELSE Emit(Others(s, p), [type |-> "user-joined", who |-> s, info |-> info])[q]]
        /\ mixed' = [mixed EXCEPT ![s] = \E o \in Pids \ {p} : s \in members[o]]
        /\ UNCHANGED <<open, view>>

\* join-room: the colour is picked by the size of the room before the entry.
JoinRoom(s, p) ==
    LET info == [color |-> GetColor(Cardinality(DOMAIN rooms[p])), cursor |-> NoCursor]
    IN  /\ s \in open
        /\ HasSpace(members[p] \cup {s})
        /\ members' = [members EXCEPT ![p] = @ \cup {s}]
        /\ rooms' = [rooms EXCEPT ![p] = Put(@, s, info)]
        /\ inbox' = [q \in Sockets |->
              IF q = s THEN Append(inbox[s], [type |-> "room-state", roster |-> rooms'[p]])
              ELSE Emit(Others(s, p), [type |-> "user-joined", who |-> s, info |-> info])[q]]
        /\ mixed' = [mixed EXCEPT ![s] = \E o \in Pids \ {p} : s \in members[o]]
        /\ UNCHANGED <<open, view>>

\* slide-update: relayed, not stored, and whether or not the sender is in the room.
SlideUpdate(s, p) ==
    /\ s \in open /\ HasSpace(Others(s, p))
    /\ inbox' = Emit(Others(s, p), [type |-> "slide-update", who |-> s])
    /\ UNCHANGED <<rooms, members, open, view, mixed>>

\* cursor-move: stored for a collaborator of the room, relayed in any case.
CursorMove(s, p, c) ==
    /\ s \in open /\ HasSpace(Others(s, p))
    /\ rooms' = IF s \in DOMAIN rooms[p] THEN [rooms EXCEPT ![p][s].cursor = c] ELSE rooms
    /\ inbox' = Emit(Others(s, p), [type |-> "cursor-move", who |-> s, cursor |-> c])
    /\ UNCHANGED <<members, open, view, mixed>>

\* Mutant: nobody is told.
LeaveRoomDropped(s, p) ==
    /\ s \in open /\ HasSpace(Others(s, p))
    /\ members' = [members EXCEPT ![p] = @ \ {s}]
    /\ rooms' = [rooms EXCEPT ![p] = Without(@, s)]
    /\ UNCHANGED <<inbox, open, view, mixed>>

\* leave-room, also for a room the socket is not in.
LeaveRoom(s, p) ==
    /\ s \in open /\ HasSpace(Others(s, p))
    /\ members' = [members EXCEPT ![p] = @ \ {s}]
    /\ rooms' = [rooms EXCEPT ![p] = Without(@, s)]
    /\ inbox' = Emit(Others(s, p), [type |-> "user-left", who |-> s])
    /\ UNCHANGED <<open, view, mixed>>

\* Mutant: the handler stops at the first room it finds the socket in.
DisconnectFirst(s) ==
    LET In == {p \in Pids : s \in DOMAIN rooms[p]}
        First == IF In = {} THEN {} ELSE {CHOOSE p \in In : TRUE}
    IN  /\ s \in open
        /\ \A p \in First : HasSpace(Others(s, p))
        /\ open' = open \ {s}
        /\ members' = [p \in Pids |-> members[p] \ {s}]
        /\ rooms' = [p \in Pids |-> IF p \in First THEN Without(rooms[p], s) ELSE rooms[p]]
        /\ inbox' = [q \in Sockets |->
              IF q = s THEN <<>>
              ELSE IF \E p \in First : q \in Others(s, p)
                   THEN Append(inbox[q], [type |-> "user-left", who |-> s]) ELSE inbox[q]]
        /\ view' = [view EXCEPT ![s] = NoOne]
        /\ mixed' = [mixed EXCEPT ![s] = FALSE]

\* socket.io takes a closed socket out of its rooms, then the disconnect handler
\* takes it out of every room of the map and tells the others.  A client that
\* reconnects does so under a new socket id, with an empty roster.
Disconnect(s) ==
    LET In == {p \in Pids : s \in DOMAIN rooms[p]}
        Told(q) == Cardinality({p \in In : q \in Others(s, p)})
    IN  /\ s \in open
        /\ \A q \in Sockets \ {s} : Len(inbox[q]) + Told(q) <= MaxInbox
        /\ open' = open \ {s}
        /\ members' = [p \in Pids |-> members[p] \ {s}]
        /\ rooms' = [p \in Pids |-> Without(rooms[p], s)]
        /\ inbox' = [q \in Sockets |->
              IF q = s THEN <<>>
              ELSE inbox[q] \o [i \in 1..Told(q) |-> [type |-> "user-left", who |-> s]]]
        /\ view' = [view EXCEPT ![s] = NoOne]
        /\ mixed' = [mixed EXCEPT ![s] = FALSE]

\* The process restarts: the map lives in memory only, and every connection drops.
Restart ==
    /\ open # {}
    /\ rooms' = [p \in Pids |-> NoOne]
    /\ members' = [p \in Pids |-> {}]
    /\ open' = {}
    /\ inbox' = [s \in Sockets |-> <<>>]
    /\ view' = [s \in Sockets |-> NoOne]
    /\ mixed' = [s \in Sockets |-> FALSE]

Next ==
    \/ \E s \in Sockets : Connect(s) \/ Disconnect(s) \/ Deliver(s)
    \/ \E s \in Sockets, p \in Pids : JoinRoom(s, p) \/ LeaveRoom(s, p) \/ SlideUpdate(s, p)
    \/ \E s \in Sockets, p \in Pids, c \in Cursors : CursorMove(s, p, c)
    \/ Restart

Spec == Init /\ [][Next]_vars

\* An open connection delivers what was written to it.
FairSpec == Spec /\ \A s \in Sockets : WF_vars(Deliver(s))

-----------------------------------------------------------------------------
(* Properties                                                              *)

\* The map and socket.io agree on who is in a room, whatever joins, leaves,
\* disconnects and restarts come in between: nobody is shown who gets no events.
MembershipAgrees == \A p \in Pids : DOMAIN rooms[p] = members[p]

\* The roster of a client is the room: its own cursor is not echoed to it.
Agrees(roster, room, s) ==
    /\ Without(roster, s) = Without(room, s)
    /\ s \in DOMAIN roster /\ roster[s].color = room[s].color

\* Once a client has read what is on its way to it, its roster, with colours and
\* cursors, is the room of the server, although a join reads the roster and the
\* events of others race with it.  Events do not name their room, so this is said
\* of sockets that were in no other room when they joined.
RosterConverges ==
    \A s \in open, p \in Pids :
        s \in members[p] /\ ~mixed[s] => Agrees(Read(view[s], inbox[s]), rooms[p], s)

\* What RosterConverges rests on: a socket that was in no other room when it last
\* joined is in one room at most, so all that is emitted to it is about that room.
OneRoom ==
    \A s \in Sockets, p, o \in Pids :
        ~mixed[s] /\ s \in members[p] /\ s \in members[o] => p = o

IndInv == TypeOK /\ MembershipAgrees /\ OneRoom /\ RosterConverges

\* The roster of s shows q, who is not in the room that s is in.
Ghost(s, q) ==
    \E p \in Pids : s \in members[p] /\ ~mixed[s] /\ q \in DOMAIN view[s] \ members[p]

\* A collaborator who left or whose connection dropped disappears from the screen
\* of those who stay.
LeaversDisappear == \A s \in Sockets : \A q \in Sockets \ {s} : []<>~Ghost(s, q)
=============================================================================
