----------------------------- MODULE CollabRoom -----------------------------
(***************************************************************************)
(* The life of one room in the collaboration engine: the Socket.IO         *)
(* handlers of src/sockets, the in-memory store of loaded rooms, and the   *)
(* rows of the database they read and write.                               *)
(*                                                                         *)
(* The server is one Node process.  A handler runs without interruption    *)
(* from one wait to the next, and what it waits for is a database call, so *)
(* a step of the model is what the code does between two waits, or the     *)
(* moment at which the database carries a call out.  An activation of a    *)
(* handler that is waiting is a record in `task'.                          *)
(*                                                                         *)
(* Rooms do not touch each other: the only handler that spans several is   *)
(* the disconnect loop, and the time it spends on other rooms is a delay   *)
(* of its visit to this one.                                               *)
(***************************************************************************)
EXTENDS Naturals, FiniteSets

CONSTANTS
  Users,        \* the accounts
  Owner,        \* the account that owns the room
  Sockets,      \* the connections clients may open, each at most once
  userOf,       \* the account each socket authenticated as
  Texts,        \* what clients send as the text of an edit
  Empty,        \* the text of a document nobody has written
  Activations,  \* bound: how many handlers may be waiting at a time
  None,         \* undefined, null, or no row
  InitialDocs,  \* the documents the room may have when the server starts
  MaxVersion,   \* bound on the edits of one document
  MaxTimers,    \* bound on the persist timers armed at a time
  Events        \* what may happen besides the clients' use of the sockets

Snapshot == [ver : Nat, text : Texts \cup {Empty}]

\* users maps a user to the socket registered for it; armed is persistTimeout.
ActiveRoom == [ver   : Nat,
               text  : Texts \cup {Empty},
               users : [Users -> Sockets \cup {None}],
               armed : BOOLEAN]

ASSUME UserOfAssumption == userOf \in [Sockets -> Users]
ASSUME OwnerAssumption == Owner \in Users
ASSUME NoneAssumption == None \notin Sockets \cup Snapshot \cup ActiveRoom
ASSUME InitialDocsAssumption == InitialDocs \subseteq Snapshot \cup {None}
ASSUME BoundsAssumption == MaxVersion \in Nat /\ MaxTimers \in Nat
ASSUME EventsAssumption == Events \subseteq {"membership", "deletion", "dbError", "crash"}

VARIABLES
  conn,     \* state of each connection
  channel,  \* per socket: None outside the Socket.IO room, else the document it was last sent
  room,     \* the entry of activeRooms, or None
  strays,   \* armed persist timers whose room object has left activeRooms
  task,     \* what each activation is waiting for
  exists,   \* the row of the room
  members,  \* the membership rows
  doc,      \* the row of the document, or None
  latest,   \* history: the document after the last edit the server accepted
  faults    \* history: the mishaps that have happened so far

vars == <<conn, channel, room, strays, task, exists, members, doc, latest, faults>>
rows == <<exists, members, doc>>

-----------------------------------------------------------------------------
(* State *)

\* Where an activation waits, in the order of room:join and of persistRoom.
Waits == {"idle", "validate", "member", "find", "create", "loaded",
          "sweep", "write", "written"}

\* after tells which caller of persistRoom goes on when the write returns; todo,
\* whether the disconnect loop still has this room ahead of it.
Task == [pc    : Waits,
         sock  : Sockets \cup {None},
         snap  : Snapshot \cup {None},
         after : {"none", "leave", "sweep", "timer"},
         todo  : BOOLEAN]

Idle == [pc |-> "idle", sock |-> None, snap |-> None, after |-> "none", todo |-> FALSE]

\* What can go wrong.  The first five can cost an accepted edit.
Losses == {"failed", "crash", "dropped", "reordered", "staleLoad"}
Faults == Losses \cup {"lateJoin"}

Blank == [ver |-> 0, text |-> Empty]
State(r) == [ver |-> r.ver, text |-> r.text]
Stored == IF doc = None THEN Blank ELSE doc
Participants(r) == {u \in Users : r.users[u] # None}
Free == {a \in Activations : task[a].pc = "idle"}
Armed == room # None /\ room.armed
Lost == faults \cap Losses # {}

Init ==
  /\ conn = [s \in Sockets |-> "new"]
  /\ channel = [s \in Sockets |-> None]
  /\ room = None
  /\ strays = 0
  /\ task = [a \in Activations |-> Idle]
  /\ exists = TRUE
  /\ members \in {m \in SUBSET Users : Owner \in m}
  /\ doc \in InitialDocs
  /\ latest = Stored
  /\ faults = {}

-----------------------------------------------------------------------------
(* room:join *)

Connect(s) ==
  /\ conn[s] = "new"
  /\ conn' = [conn EXCEPT ![s] = "open"]
  /\ UNCHANGED <<channel, room, strays, task, rows, latest, faults>>

RoomJoin(s, a) ==
  /\ conn[s] = "open"
  /\ a \in Free
  /\ task' = [task EXCEPT ![a] = [Idle EXCEPT !.pc = "validate", !.sock = s]]
  /\ UNCHANGED <<conn, channel, room, strays, rows, latest, faults>>

\* The membership row is read; a user without one is refused.
ValidateMembership(a) ==
  /\ task[a].pc = "validate"
  /\ task' = [task EXCEPT ![a] = IF userOf[task[a].sock] \in members
                                 THEN [@ EXCEPT !.pc = "member"]
                                 ELSE Idle]
  /\ UNCHANGED <<conn, channel, room, strays, rows, latest, faults>>

\* Registers socket s in the room object r, which becomes the active one, and
\* sends it the document.  Socket.IO makes join a no-op on a closed socket.
Enter(s, r) ==
  /\ room' = [r EXCEPT !.users[userOf[s]] = s]
  /\ channel' = IF conn[s] = "open" THEN [channel EXCEPT ![s] = State(r)] ELSE channel

LateJoin(s) == IF conn[s] = "open" THEN {} ELSE {"lateJoin"}

\* The membership answer has arrived and the room is in memory.
JoinLoaded(a) ==
  /\ task[a].pc = "member"
  /\ room # None
  /\ Enter(task[a].sock, room)
  /\ task' = [task EXCEPT ![a] = Idle]
  /\ faults' = faults \cup LateJoin(task[a].sock)
  /\ UNCHANGED <<conn, strays, rows, latest>>

\* The membership answer has arrived and the room has to be loaded.
JoinUnloaded(a) ==
  /\ task[a].pc = "member"
  /\ room = None
  /\ task' = [task EXCEPT ![a].pc = "find"]
  /\ UNCHANGED <<conn, channel, room, strays, rows, latest, faults>>

\* Mutant: the row is used without asking whether there is one.
FindDocument_Unchecked(a) ==
  /\ task[a].pc = "find"
  /\ task' = [task EXCEPT ![a].pc = "loaded", ![a].snap = doc]
  /\ UNCHANGED <<conn, channel, room, strays, rows, latest, faults>>

FindDocument(a) ==
  /\ task[a].pc = "find"
  /\ task' = [task EXCEPT ![a] = IF doc = None
                                 THEN [@ EXCEPT !.pc = "create"]
                                 ELSE [@ EXCEPT !.pc = "loaded", !.snap = doc]]
  /\ UNCHANGED <<conn, channel, room, strays, rows, latest, faults>>

\* The row needs its room and is unique per room; when it cannot be inserted
\* the join fails.
CreateDocument(a) ==
  /\ task[a].pc = "create"
  /\ IF exists /\ doc = None
     THEN /\ doc' = Blank
          /\ task' = [task EXCEPT ![a].pc = "loaded", ![a].snap = Blank]
     ELSE /\ task' = [task EXCEPT ![a] = Idle]
          /\ UNCHANGED doc
  /\ UNCHANGED <<conn, channel, room, strays, exists, members, latest, faults>>

\* A loop that is running meets an entry inserted behind it, not one replaced.
Insert(tasks) ==
  [b \in Activations |-> IF room = None /\ tasks[b].pc # "idle" /\ tasks[b].after = "sweep"
                         THEN [tasks[b] EXCEPT !.todo = TRUE] ELSE tasks[b]]

\* A new object becomes the active one, whatever was there; the timer of the
\* object it replaces stays armed.
InstallRoom(a) ==
  /\ task[a].pc = "loaded"
  /\ Enter(task[a].sock, [ver   |-> task[a].snap.ver,
                          text  |-> task[a].snap.text,
                          users |-> [u \in Users |-> None],
                          armed |-> FALSE])
  /\ strays' = IF Armed THEN strays + 1 ELSE strays
  /\ task' = Insert([task EXCEPT ![a] = Idle])
  /\ faults' = faults \cup LateJoin(task[a].sock)
                      \cup (IF task[a].snap = latest THEN {} ELSE {"staleLoad"})
  /\ UNCHANGED <<conn, rows, latest>>

\* A query of room:join throws and the handler reports it.
JoinFails(a) ==
  /\ "dbError" \in Events
  /\ task[a].pc \in {"validate", "find", "create"}
  /\ task' = [task EXCEPT ![a] = Idle]
  /\ UNCHANGED <<conn, channel, room, strays, rows, latest, faults>>

-----------------------------------------------------------------------------
(* room:edit *)

CanEdit(s) == conn[s] = "open" /\ room # None /\ room.users[userOf[s]] # None

\* Mutant: the version is not incremented.
Apply_SameVersion(r, x) == [r EXCEPT !.text = x]
Apply(r, x) == [r EXCEPT !.ver = @ + 1, !.text = x]

\* Mutant: no timer is set.
Schedule_Never(r) == r
\* schedulePersist: the timer is set, or set again.
Schedule(r) == [r EXCEPT !.armed = TRUE]

\* Mutant: the others are not sent the edit.
Broadcast_Omitted(s, d) ==
  channel' = IF channel[s] = None THEN channel ELSE [channel EXCEPT ![s] = d]
\* Every socket in the channel holds d from now on; the sender has it already.
Broadcast(s, d) == channel' = [t \in Sockets |-> IF channel[t] = None THEN None ELSE d]

\* The client names the current version, and its text replaces the document.
Edit(s, x) ==
  /\ CanEdit(s)
  /\ room.ver < MaxVersion
  /\ room.armed \/ strays < MaxTimers
  /\ room' = Schedule(Apply(room, x))
  /\ latest' = State(Apply(room, x))
  /\ Broadcast(s, State(Apply(room, x)))
  /\ UNCHANGED <<conn, strays, task, rows, faults>>

\* Mutant: the client is sent the document of the row.
Resync_Stored(s) ==
  /\ CanEdit(s)
  /\ channel[s] # None
  /\ channel' = [channel EXCEPT ![s] = Stored]
  /\ UNCHANGED <<conn, room, strays, task, rows, latest, faults>>

\* The client names another version: it is sent the whole document.
Resync(s) ==
  /\ CanEdit(s)
  /\ channel[s] # None
  /\ channel' = [channel EXCEPT ![s] = State(room)]
  /\ UNCHANGED <<conn, room, strays, task, rows, latest, faults>>

-----------------------------------------------------------------------------
(* Persistence *)

\* persistRoom of room object r up to its query: the timer is cleared and the
\* document is captured.
Persist(a, s, r, after, todo) ==
  /\ room' = [r EXCEPT !.armed = FALSE]
  /\ task' = [task EXCEPT ![a] = [pc |-> "write", sock |-> s, snap |-> State(r),
                                  after |-> after, todo |-> todo]]

\* Mutant: the timer does nothing while another write is on its way.
TimerFires_Skips(a) ==
  /\ Armed
  /\ a \in Free
  /\ IF \E b \in Activations : task[b].pc = "write"
     THEN room' = [room EXCEPT !.armed = FALSE] /\ UNCHANGED task
     ELSE Persist(a, None, room, "timer", FALSE)
  /\ UNCHANGED <<conn, channel, strays, rows, latest, faults>>

TimerFires(a) ==
  /\ Armed
  /\ a \in Free
  /\ Persist(a, None, room, "timer", FALSE)
  /\ UNCHANGED <<conn, channel, strays, rows, latest, faults>>

\* The timer of a replaced or deleted object names the room, not the object.
StrayTimerFires(a) ==
  /\ strays > 0
  /\ strays' = strays - 1
  /\ IF room = None
     THEN UNCHANGED <<room, task>>
     ELSE a \in Free /\ Persist(a, None, room, "timer", FALSE)
  /\ UNCHANGED <<conn, channel, rows, latest, faults>>

Returned(a) == IF task[a].after = "timer" THEN Idle 
               ELSE [task[a] EXCEPT !.pc = "written", !.snap = None]

\* Mutant: the write carries the version of the row and the text of memory.
UpdateDocument_OldVersion(a) ==
  /\ task[a].pc = "write"
  /\ doc # None
  /\ doc' = [task[a].snap EXCEPT !.ver = doc.ver]
  /\ faults' = faults \cup (IF task[a].snap.ver < doc.ver THEN {"reordered"} ELSE {})
  /\ task' = [task EXCEPT ![a] = Returned(a)]
  /\ UNCHANGED <<conn, channel, room, strays, exists, members, latest>>

UpdateDocument(a) ==
  /\ task[a].pc = "write"
  /\ doc # None
  /\ doc' = task[a].snap
  /\ faults' = faults \cup (IF task[a].snap.ver < doc.ver THEN {"reordered"} ELSE {})
  /\ task' = [task EXCEPT ![a] = Returned(a)]
  /\ UNCHANGED <<conn, channel, room, strays, exists, members, latest>>

\* The update throws; persistRoom logs the error and returns as if it had written.
UpdateFails(a) ==
  /\ task[a].pc = "write"
  /\ doc = None \/ "dbError" \in Events
  /\ faults' = faults \cup {"failed"}
  /\ task' = [task EXCEPT ![a] = Returned(a)]
  /\ UNCHANGED <<conn, channel, room, strays, rows, latest>>

\* persistAndRemoveRoom deletes whatever is active by now; then the leave
\* quits the channel, or the disconnect loop goes on.
RemoveRoom(a) ==
  /\ task[a].pc = "written"
  /\ room' = None
  /\ strays' = IF Armed THEN strays + 1 ELSE strays
  /\ faults' = faults \cup (IF Armed THEN {"dropped"} ELSE {})
  /\ LET next == IF task[a].after = "leave" THEN Idle
                 ELSE [task[a] EXCEPT !.pc = "sweep"]
     IN  task' = [b \in Activations |->
                    [(IF b = a THEN next ELSE task[b]) EXCEPT !.todo = FALSE]]
  /\ channel' = IF task[a].after = "leave"
                THEN [channel EXCEPT ![task[a].sock] = None] ELSE channel
  /\ UNCHANGED <<conn, rows, latest>>

-----------------------------------------------------------------------------
(* room:leave, disconnect and room:force-leave *)

Without(u) == [room EXCEPT !.users[u] = None]

\* Mutant: nobody looks whether the room is empty.
Empties_Never(u) == FALSE
\* Taking u out leaves no participant.
Empties(u) == Participants(Without(u)) = {}

\* Mutant: whoever leaves is taken out and the room is looked at no further.
RoomLeave_NoLast(s) ==
  /\ conn[s] = "open"
  /\ room' = IF room = None THEN None ELSE Without(userOf[s])
  /\ channel' = [channel EXCEPT ![s] = None]
  /\ UNCHANGED <<conn, strays, task, rows, latest, faults>>

\* handleLeaveRoom for a room that is not loaded or keeps participants.
RoomLeave(s) ==
  /\ conn[s] = "open"
  /\ IF room = None THEN UNCHANGED room
     ELSE /\ ~Empties(userOf[s])
          /\ room' = Without(userOf[s])
  /\ channel' = [channel EXCEPT ![s] = None]
  /\ UNCHANGED <<conn, strays, task, rows, latest, faults>>

\* handleLeaveRoom when nobody is left: write and unload before quitting.
RoomLeaveLast(s, a) ==
  /\ conn[s] = "open"
  /\ a \in Free
  /\ room # None
  /\ Empties(userOf[s])
  /\ Persist(a, s, Without(userOf[s]), "leave", FALSE)
  /\ UNCHANGED <<conn, channel, strays, rows, latest, faults>>

\* Mutant: the loop runs over the rooms whose channel the socket was in.
LoopMeets_Channels(s) == room # None /\ channel[s] # None
LoopMeets(s) == room # None

\* Socket.IO takes the socket out of its rooms, then the handler starts its
\* loop over activeRooms.
Disconnect(s, a) ==
  /\ conn[s] = "open"
  /\ a \in Free
  /\ conn' = [conn EXCEPT ![s] = "closed"]
  /\ channel' = [channel EXCEPT ![s] = None]
  /\ task' = [task EXCEPT ![a] = [Idle EXCEPT !.pc = "sweep", !.sock = s,
                                               !.after = "sweep", !.todo = LoopMeets(s)]]
  /\ UNCHANGED <<room, strays, rows, latest, faults>>

\* The loop reaches this room.
SweepRoom(a) ==
  /\ task[a].pc = "sweep"
  /\ task[a].todo
  /\ room # None
  /\ LET u == userOf[task[a].sock] IN
     IF room.users[u] # None /\ Empties(u)
     THEN Persist(a, task[a].sock, Without(u), "sweep", FALSE)
     ELSE /\ room' = Without(u)
          /\ task' = [task EXCEPT ![a].todo = FALSE]
  /\ UNCHANGED <<conn, channel, strays, rows, latest, faults>>

SweepDone(a) ==
  /\ task[a].pc = "sweep"
  /\ ~task[a].todo
  /\ task' = [task EXCEPT ![a] = Idle]
  /\ UNCHANGED <<conn, channel, room, strays, rows, latest, faults>>

\* The client takes itself out of the channel; it stays a participant.
ForceLeave(s) ==
  /\ conn[s] = "open"
  /\ channel[s] # None
  /\ channel' = [channel EXCEPT ![s] = None]
  /\ UNCHANGED <<conn, room, strays, task, rows, latest, faults>>

-----------------------------------------------------------------------------
(* The REST side of the same rows, and the process *)

\* One of the three join endpoints inserts a membership.
AddMember(u) ==
  /\ "membership" \in Events
  /\ exists
  /\ u \notin members
  /\ members' = members \cup {u}
  /\ UNCHANGED <<conn, channel, room, strays, task, exists, doc, latest, faults>>

RemoveMember(u) ==
  /\ "membership" \in Events
  /\ u \in members \ {Owner}
  /\ members' = members \ {u}
  /\ UNCHANGED <<conn, channel, room, strays, task, exists, doc, latest, faults>>

\* The delete cascades to the document and the memberships.
DeleteRoom ==
  /\ "deletion" \in Events
  /\ exists
  /\ exists' = FALSE
  /\ members' = {}
  /\ doc' = None
  /\ UNCHANGED <<conn, channel, room, strays, task, latest, faults>>

\* The process ends, in gracefulShutdown or without it, and starts again.
\* Nothing persists the loaded rooms.
Crash ==
  /\ "crash" \in Events
  /\ conn' = [s \in Sockets |-> IF conn[s] = "open" THEN "closed" ELSE conn[s]]
  /\ channel' = [s \in Sockets |-> None]
  /\ room' = None
  /\ strays' = 0
  /\ task' = [a \in Activations |-> Idle]
  /\ faults' = faults \cup (IF Stored = latest THEN {} ELSE {"crash"})
  /\ UNCHANGED <<rows, latest>>

-----------------------------------------------------------------------------
\* What an activation does by itself once it has been started.
Proceed(a) ==
  \/ ValidateMembership(a)
  \/ JoinLoaded(a)
  \/ JoinUnloaded(a)
  \/ FindDocument(a)
  \/ CreateDocument(a)
  \/ InstallRoom(a)
  \/ UpdateDocument(a)
  \/ UpdateFails(a)
  \/ RemoveRoom(a)
  \/ SweepRoom(a)
  \/ SweepDone(a)

\* What a client does.
Client(s) ==
  \/ Connect(s)
  \/ \E a \in Activations : RoomJoin(s, a) \/ RoomLeaveLast(s, a) \/ Disconnect(s, a)
  \/ \E x \in Texts : Edit(s, x)
  \/ Resync(s)
  \/ RoomLeave(s)
  \/ ForceLeave(s)

Timers(a) == TimerFires(a) \/ StrayTimerFires(a)

Next ==
  \/ \E s \in Sockets : Client(s)
  \/ \E a \in Activations : Proceed(a) \/ Timers(a) \/ JoinFails(a)
  \/ \E u \in Users : AddMember(u) \/ RemoveMember(u)
  \/ DeleteRoom
  \/ Crash

Spec == Init /\ [][Next]_vars

\* Node runs every continuation and the database answers every call; a timer
\* that is armed goes off, which asks that clients pause between edits for as
\* long as the debounce lasts.  (Strong, since the callback needs a free slot.)
Fairness ==
  /\ \A a \in Activations : WF_vars(Proceed(a))
  /\ SF_vars(\E a \in Activations : TimerFires(a))

FairSpec == Spec /\ Fairness

-----------------------------------------------------------------------------
(* What holds *)

\* What waits, but for the write of a timer, waits for a socket, and a handler
\* that has read or captured a document has it; only a disconnect loop can have
\* the room ahead of it.
TaskOK(t) ==
  /\ t.pc \in {"loaded", "write"} => t.snap # None
  /\ t.pc # "idle" => t.sock # None \/ (t.pc = "write" /\ t.after = "timer")
  /\ t.todo => t.after = "sweep"
  /\ t.after = "sweep" => t.pc \in {"sweep", "write", "written"}

\* Every variable has its type: conn and channel per socket, the active room
\* object of room-store.ts:6-11, the waiting handlers, and the rows.
TypeOK ==
  /\ conn \in [Sockets -> {"new", "open", "closed"}]
  /\ channel \in [Sockets -> Snapshot \cup {None}]
  /\ room \in ActiveRoom \cup {None}
  /\ strays \in Nat
  /\ task \in [Activations -> Task]
  /\ \A a \in Activations : TaskOK(task[a])
  /\ exists \in BOOLEAN
  /\ members \subseteq Users
  /\ doc \in Snapshot \cup {None}
  /\ latest \in Snapshot
  /\ faults \subseteq Faults

\* A socket that is registered for its user in the active room object, and has
\* not left the channel, holds exactly the document of that object: no join,
\* reload, replacement of the object or edit leaves a registered editor behind.
ParticipantsAgree ==
  room # None =>
    \A s \in Sockets : room.users[userOf[s]] = s /\ channel[s] # None
                        => channel[s] = State(room)

\* A copy of the document is no newer than the last accepted edit, and one that
\* has its version has its text.
NotAhead(c) == c # None => c.ver <= latest.ver /\ (c.ver = latest.ver => c = latest)

\* As long as none of the five losses has happened, a version number compares
\* documents as editor.handler.ts:51 takes it to: the document in the row, in
\* memory, in a client, read by a load or captured by a write is NotAhead.
VersionNamesLatest ==
  ~Lost => /\ NotAhead(doc)
           /\ room # None => NotAhead(State(room))
           /\ \A s \in Sockets : NotAhead(channel[s])
           /\ \A a \in Activations : NotAhead(task[a].snap)

Written == Stored = latest \/ \E a \in Activations : task[a].pc = "write" /\ task[a].snap = latest

\* The five losses are all there are.  While none has happened a loaded room has
\* the last accepted edit, and unless the room has been deleted that edit is in
\* the row, or on its way there, or a timer is armed to write it.
EditsAreKept ==
  ~Lost => /\ room # None => State(room) = latest
           /\ exists => Armed \/ Written

\* A participant whose socket has closed is one that a running disconnect loop
\* still has ahead of it, unless some join finished after its socket had closed.
PresenceIsSwept ==
  "lateJoin" \notin faults /\ room # None =>
    \A s \in Sockets : room.users[userOf[s]] = s /\ conn[s] = "closed" =>
      \E a \in Activations : /\ task[a].pc # "idle" /\ task[a].todo
                             /\ userOf[task[a].sock] = userOf[s]

\* What makes EditsAreKept inductive: a document that a load has read and that
\* is still the latest is the row's, and the missing row of a room nobody has
\* edited stands for the blank document.
LoadsAreCurrent ==
  ~Lost /\ exists =>
    \A a \in Activations : task[a].pc = "loaded" /\ task[a].snap = latest => Stored = latest
NoRowYet == exists /\ doc = None /\ latest.ver = 0 => latest = Blank
EditsInv == VersionNamesLatest /\ EditsAreKept /\ LoadsAreCurrent /\ NoRowYet

\* No client is sent an older document than the one it holds: until one of the
\* five losses happens, a socket that stays in the channel goes forward only,
\* whatever joins, resyncs (editor.handler.ts:52) and edits of others send it.
ClientsGoForward ==
  [][~Lost' => \A s \in Sockets : channel[s] # None /\ channel'[s] # None
                                    => channel[s].ver <= channel'[s].ver]_vars

Writing == {task[a].snap : a \in {b \in Activations : task[b].pc = "write"}}

Durable == INSTANCE DurableDocument WITH
             stored  <- Stored,
             pending <- Armed,
             writing <- Writing,
             broken  <- Lost \/ ~exists

\* README.md:76, "Debounced persistence": until one of the five losses or the
\* deletion of the room, the timers and writes of persistRoom (room-store.ts:52)
\* implement DurableDocument, so that no accepted edit is forgotten, a write
\* carries the last one of its moment, and the row never goes back.
RefinesDurable == Durable!Spec

\* An accepted edit reaches the row, unless one of the five losses or the
\* deletion of the room comes first.
EditsReachTheRow == Stored # latest ~> Stored = latest \/ Lost \/ ~exists

AllClosed == \A s \in Sockets : conn[s] = "closed"
Quiet == Free = Activations /\ strays = 0 /\ ~Armed

\* A room without participants is about to be freed: the leave or the disconnect
\* that took the last one out is still on its way through persistAndRemoveRoom.
EmptyIsLeaving ==
  room # None /\ Participants(room) = {} =>
    \E a \in Activations : \/ task[a].pc = "write" /\ task[a].after # "timer"
                           \/ task[a].pc = "written"

\* README.md:69, "Disconnect -> cleanup presence -> persist if empty -> free
\* memory": when every connection has closed and all handlers have finished, the
\* room is not in memory, unless some join finished after its socket had closed.
RoomsAreFreed == "lateJoin" \notin faults /\ Quiet /\ AllClosed => room = None

\* Once every connection has closed the room leaves memory, unless some join
\* finished after its socket had closed.
EmptyRoomUnloads == AllClosed ~> room = None \/ "lateJoin" \in faults

-----------------------------------------------------------------------------
(* What the README promises and the code does not keep *)

\* README.md:69, "Disconnect -> cleanup presence -> persist if empty -> free
\* memory": RoomsAreFreed without its condition.
DisconnectFreesRoom == Quiet /\ AllClosed => room = None

\* README.md:76, "Debounced persistence ... immediate on last disconnect": when
\* all is quiet after the last disconnect, the row holds the last accepted edit,
\* at least if no object with unsaved edits has been freed or replaced.
LastDisconnectPersists ==
  Quiet /\ AllClosed /\ faults \cap {"dropped", "staleLoad"} = {} => Stored = latest

\* Neither is kept: one last disconnect breaks both promises.
SomeDisconnectPromiseHolds == DisconnectFreesRoom \/ LastDisconnectPersists

\* README.md:69, "persist if empty -> free memory": a room is about to be freed
\* only when it has no participants.
FreedOnlyIfEmpty ==
  \A a \in Activations : task[a].pc = "written" /\ room # None => Participants(room) = {}

\* README.md:75, "Optimistic concurrency - version check, full resync on
\* mismatch": the document of a loaded room is the result of the last accepted
\* edit, so that no edit is undone without a resync telling its author.
LoadedRoomIsLatest == room # None => State(room) = latest

\* Neither is kept: a room that is about to be freed under its participants is one
\* that has undone an edit.
SomeLoadPromiseHolds == FreedOnlyIfEmpty \/ LoadedRoomIsLatest
=============================================================================
