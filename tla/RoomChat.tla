------------------------------ MODULE RoomChat ------------------------------
(***************************************************************************)
(* Chat: the rate limit and the handler of room:chat                       *)
(* (src/sockets/room.handler.ts), the rows it inserts, and a client that   *)
(* enters the channel of a room and then reads the history page by page    *)
(* (src/services/message.service.ts).                                      *)
(*                                                                         *)
(* As in CollabRoom a step is what a handler does between two waits, or a  *)
(* query that the database carries out.  Time is counted in ticks, and     *)
(* several things may happen within one.                                   *)
(***************************************************************************)
EXTENDS Integers, FiniteSets, Sequences

CONSTANTS
  Users,      \* the accounts
  Rooms,      \* the rooms
  Watched,    \* the room the client reads, None if there is no client
  Ids,        \* the ids messages may get, each at most once
  Handlers,   \* bound: how many activations of room:chat may wait at a time
  Window,     \* RATE_LIMIT_WINDOW_MS, in ticks
  Max,        \* RATE_LIMIT_MAX
  PageSize,   \* limit of a page
  None,       \* no entry, no row yet, no cursor
  Deleted,    \* what is left of a row
  OldRows,    \* the rows there may be when the server starts
  MaxTime,    \* bound on the ticks
  MaxSent,    \* bound on the messages of a user that pass the rate limit
  MaxMishaps, \* bound on the errors and restarts
  Events      \* what may happen besides: "dbError", "restart", "membership"

Row == [room : Rooms, user : Users, at : Nat]

ASSUME WatchedAssumption == Watched \in Rooms \cup {None}
ASSUME HandlersAssumption == IsFiniteSet(Handlers)
ASSUME IdsAssumption == IsFiniteSet(Ids)
ASSUME LimitAssumption == Window \in Nat \ {0} /\ Max \in Nat \ {0}
ASSUME PageAssumption == PageSize \in Nat \ {0}
ASSUME NoneAssumption ==
  /\ None \notin Row \cup Ids \cup Nat \cup [count : Nat, resetAt : Nat] \cup {Deleted}
  /\ Deleted \notin Row
ASSUME UserRoomAssumption == None \notin Users \cup Rooms
ASSUME OldRowsAssumption == OldRows \subseteq [Ids -> Row \cup {None}]
ASSUME OldAssumption == \A f \in OldRows, i \in Ids : f[i] # None => f[i].at = 0
ASSUME BoundsAssumption == MaxTime \in Nat /\ MaxSent \in Nat /\ MaxMishaps \in Nat

VARIABLES
  now,      \* the clock
  limits,   \* chatRateLimits
  sent,     \* history: what has passed the rate limit since the process started
  member,   \* the membership rows, as pairs of a user and a room
  row,      \* the message rows
  task,     \* what each activation of room:chat is waiting for
  reader,   \* how far the client has got
  seen,     \* the messages the client has
  late,     \* history: the messages a user has stored in a room since leaving it
  mishaps   \* the number of errors and restarts so far

chatVars == <<now, limits, sent, member, row, task, reader, seen, late, mishaps>>

-----------------------------------------------------------------------------
(* State *)

Task == [pc : {"idle", "member", "insert", "emit"}, user : Users \cup {None},
         room : Rooms \cup {None}, id : Ids \cup {None}]
Idle == [pc |-> "idle", user |-> None, room |-> None, id |-> None]

\* The client enters the channel, then asks for pages until one is not full.
\* edges are the cursors it has been given.
Reader == [phase : {"away", "joined", "reading", "done"}, cursor : Nat \cup {None}, edges : SUBSET Nat]
Away == [phase |-> "away", cursor |-> None, edges |-> {}]

\* The entry of a message that passed the limit: when, and as which of which window.
Entry == [at : Nat, start : Int, n : Nat]

Exists(i) == row[i] \notin {None, Deleted}
Messages(r) == {i \in Ids : Exists(i) /\ row[i].room = r}

ChatInit ==
  /\ now = 0
  /\ limits = [u \in Users |-> None]
  /\ sent = [u \in Users |-> <<>>]
  /\ member = Users \X Rooms
  /\ row \in OldRows
  /\ task = [h \in Handlers |-> Idle]
  /\ reader = Away
  /\ seen = {}
  /\ late = [m \in Users \X Rooms |-> 0]
  /\ mishaps = 0

Tick ==
  /\ now < MaxTime
  /\ now' = now + 1
  /\ UNCHANGED <<limits, sent, member, row, task, reader, seen, late, mishaps>>

-----------------------------------------------------------------------------
(* checkChatRateLimit *)

\* Mutant: a window ends a tick early.
Opens_Early(u) == limits[u] # None => now + 1 >= limits[u].resetAt

\* The first message, and the first after a window has passed, open a window.
Opens(u) == limits[u] # None => now >= limits[u].resetAt

\* The entry of a user with one more message.
Counted(u) ==
  IF Opens(u) THEN [count |-> 1, resetAt |-> now + Window]
  ELSE [limits[u] EXCEPT !.count = @ + 1]

Passes(u) == ~Opens(u) => limits[u].count < Max

-----------------------------------------------------------------------------
(* room:chat *)

\* A message that does not pass the limit is answered with an error and changes
\* nothing.
Chat(h, u, r) ==
  /\ task[h].pc = "idle"
  /\ Len(sent[u]) < MaxSent
  /\ Passes(u)
  /\ limits' = [limits EXCEPT ![u] = Counted(u)]
  /\ sent' = [sent EXCEPT ![u] = Append(@, [at    |-> now,
                                            start |-> Counted(u).resetAt - Window,
                                            n     |-> Counted(u).count])]
  /\ task' = [task EXCEPT ![h] = [pc |-> "member", user |-> u, room |-> r, id |-> None]]
  /\ UNCHANGED <<now, member, row, reader, seen, late, mishaps>>

\* Mutant: everybody is taken for a member.
CheckMembership_Skipped(h) ==
  /\ task[h].pc = "member"
  /\ task' = [task EXCEPT ![h].pc = "insert"]
  /\ UNCHANGED <<now, limits, sent, member, row, reader, seen, late, mishaps>>

CheckMembership(h) ==
  /\ task[h].pc = "member"
  /\ task' = [task EXCEPT ![h] = IF <<task[h].user, task[h].room>> \in member
                                 THEN [@ EXCEPT !.pc = "insert"] ELSE Idle]
  /\ UNCHANGED <<now, limits, sent, member, row, reader, seen, late, mishaps>>

\* The row needs the room and the user, not the membership.
InsertMessage(h, i) ==
  /\ task[h].pc = "insert"
  /\ row[i] = None
  /\ row' = [row EXCEPT ![i] = [room |-> task[h].room, user |-> task[h].user, at |-> now]]
  /\ task' = [task EXCEPT ![h].pc = "emit", ![h].id = i]
  /\ LET m == <<task[h].user, task[h].room>>
     IN  late' = [late EXCEPT ![m] = IF m \in member THEN @ ELSE @ + 1]
  /\ UNCHANGED <<now, limits, sent, member, reader, seen, mishaps>>

\* Mutant: the message goes to those who have read the history.
EmitMessage_ToReaders(h) ==
  /\ task[h].pc = "emit"
  /\ seen' = IF reader.phase = "done" /\ task[h].room = Watched
             THEN seen \cup {task[h].id} ELSE seen
  /\ task' = [task EXCEPT ![h] = Idle]
  /\ UNCHANGED <<now, limits, sent, member, row, reader, late, mishaps>>

\* room:new-message, to all in the channel.
EmitMessage(h) ==
  /\ task[h].pc = "emit"
  /\ seen' = IF reader.phase # "away" /\ task[h].room = Watched
             THEN seen \cup {task[h].id} ELSE seen
  /\ task' = [task EXCEPT ![h] = Idle]
  /\ UNCHANGED <<now, limits, sent, member, row, reader, late, mishaps>>

\* Mutant: the activation is not reset.
ChatFails_NoReset(h) ==
  /\ "dbError" \in Events
  /\ mishaps < MaxMishaps
  /\ task[h].pc \in {"member", "insert"}
  /\ task' = [task EXCEPT ![h].pc = "idle"]
  /\ mishaps' = mishaps + 1
  /\ UNCHANGED <<now, limits, sent, member, row, reader, seen, late>>

\* A query throws; the sender is told.
ChatFails(h) ==
  /\ "dbError" \in Events
  /\ mishaps < MaxMishaps
  /\ task[h].pc \in {"member", "insert"}
  /\ task' = [task EXCEPT ![h] = Idle]
  /\ mishaps' = mishaps + 1
  /\ UNCHANGED <<now, limits, sent, member, row, reader, seen, late>>

\* The owner removes a member, who may join again.
RemoveMember(u, r) ==
  /\ "membership" \in Events
  /\ <<u, r>> \in member
  /\ member' = member \ {<<u, r>>}
  /\ late' = [late EXCEPT ![<<u, r>>] = 0]
  /\ UNCHANGED <<now, limits, sent, row, task, reader, seen, mishaps>>

AddMember(u, r) ==
  /\ "membership" \in Events
  /\ member' = member \cup {<<u, r>>}
  /\ UNCHANGED <<now, limits, sent, row, task, reader, seen, late, mishaps>>

-----------------------------------------------------------------------------
(* getRecentMessages *)

EnterChannel ==
  /\ Watched # None
  /\ reader.phase = "away"
  /\ reader' = [reader EXCEPT !.phase = "joined"]
  /\ UNCHANGED <<now, limits, sent, member, row, task, seen, late, mishaps>>

\* createdAt < cursor, when there is a cursor.
Older(c) == {i \in Messages(Watched) : c = None \/ row[i].at < c}

\* The first PageSize of S by createdAt, the newest first; in any order where two
\* have the same.
IsPage(P, S) ==
  /\ P \subseteq S
  /\ P = S \/ Cardinality(P) = PageSize
  /\ Cardinality(P) <= PageSize
  /\ \A i \in P, j \in S \ P : row[i].at >= row[j].at

\* nextCursor is the createdAt of the last message of a full page.
ReadPage ==
  /\ reader.phase \in {"joined", "reading"}
  /\ \E P \in SUBSET Older(reader.cursor) :
       /\ IsPage(P, Older(reader.cursor))
       /\ seen' = seen \cup P
       /\ \/ /\ Cardinality(P) = PageSize
             /\ \E i \in P : /\ \A j \in P : row[j].at >= row[i].at
                             /\ reader' = [phase |-> "reading", cursor |-> row[i].at,
                                           edges |-> reader.edges \cup {row[i].at}]
          \/ /\ Cardinality(P) # PageSize
             /\ reader' = [reader EXCEPT !.phase = "done"]
  /\ UNCHANGED <<now, limits, sent, member, row, task, late, mishaps>>

-----------------------------------------------------------------------------
\* The process ends: what waited is lost, the limits are forgotten, and the client
\* has to connect and to read again.
ForgetChat ==
  /\ limits' = [u \in Users |-> None]
  /\ sent' = [u \in Users |-> <<>>]
  /\ task' = [h \in Handlers |-> Idle]
  /\ reader' = Away
  /\ seen' = {}
  /\ UNCHANGED <<now, member, row, late>>

RestartChat ==
  /\ "restart" \in Events
  /\ mishaps < MaxMishaps
  /\ ForgetChat
  /\ mishaps' = mishaps + 1

ChatNext ==
  \/ Tick
  \/ \E h \in Handlers : \/ \E u \in Users, r \in Rooms : Chat(h, u, r)
                         \/ CheckMembership(h)
                         \/ \E i \in Ids : InsertMessage(h, i)
                         \/ EmitMessage(h)
                         \/ ChatFails(h)
  \/ \E u \in Users, r \in Rooms : RemoveMember(u, r) \/ AddMember(u, r)
  \/ EnterChannel
  \/ ReadPage

ChatSpec == ChatInit /\ [][ChatNext \/ RestartChat]_chatVars

-----------------------------------------------------------------------------
(* What holds *)

TaskOK(t) ==
  /\ t.pc = "idle" => t = Idle
  /\ t.pc # "idle" => t.user # None /\ t.room # None
  /\ t.pc = "emit" => t.id # None /\ row[t.id] # None

\* Every variable has its type.
ChatTypeOK ==
  /\ now \in Nat
  /\ limits \in [Users -> [count : Nat, resetAt : Nat] \cup {None}]
  /\ sent \in [Users -> Seq(Entry)]
  /\ member \subseteq Users \X Rooms
  /\ row \in [Ids -> Row \cup {None, Deleted}]
  /\ task \in [Handlers -> Task]
  /\ \A h \in Handlers : TaskOK(task[h])
  /\ reader \in Reader
  /\ reader.phase = "reading" => reader.cursor # None
  /\ seen \subseteq Ids
  /\ late \in [Users \X Rooms -> Nat]
  /\ mishaps \in Nat
  /\ \A i \in Ids : Exists(i) => row[i].at <= now

\* README.md:77, "5 messages/sec per user": the windows of the limiter start with a
\* message and do not slide, so that 2 Max - 1 messages may fall into a span of one
\* window (room.handler.ts:22), and never more.
RateHolds ==
  \A u \in Users : \A i \in 1..Len(sent[u]) :
    i + 2 * Max - 1 <= Len(sent[u]) => sent[u][i + 2 * Max - 1].at >= sent[u][i].at + Window

\* A member who is removed between the check and the insert still stores the message
\* (message.service.ts:18): since the removal no more than the handlers that were
\* past the check have stored one.
Storing(u, r) == {h \in Handlers : task[h].pc = "insert" /\ task[h].user = u /\ task[h].room = r}
FewLateMessages ==
  \A u \in Users, r \in Rooms :
    <<u, r>> \notin member => late[<<u, r>>] + Cardinality(Storing(u, r)) <= Cardinality(Handlers)

\* A client that enters the channel before it reads the history has, or will be
\* given, every message of the room but those with the very createdAt of the last
\* message of a page (message.service.ts:44): a message stored after the page that
\* should contain it is still to be emitted or has been received.
Ahead(i) == reader.phase = "joined" \/ (reader.phase = "reading" /\ row[i].at < reader.cursor)
ReaderMissesOnlyTies ==
  reader.phase # "away" => \A i \in Messages(Watched) :
    \/ i \in seen
    \/ Ahead(i)
    \/ \E h \in Handlers : task[h].pc = "emit" /\ task[h].id = i
    \/ row[i].at \in reader.edges
=============================================================================
