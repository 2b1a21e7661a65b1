------------------------- MODULE CollabRoom_proofs -------------------------
(* What TLAPS proves of CollabRoom, for every set of users, sockets, texts  *)
(* and handler slots and for every bound.                                   *)
EXTENDS CollabRoom, TLAPS

(* The assumptions every proof below uses. *)
USE UserOfAssumption, OwnerAssumption, NoneAssumption, InitialDocsAssumption, BoundsAssumption

\* Idle, Blank and the state of a room object have the types of their uses.
LEMMA SmallTypes ==
  /\ Idle \in Task /\ TaskOK(Idle)
  /\ Blank \in Snapshot
  /\ \A r \in ActiveRoom : State(r) \in Snapshot
BY DEF Idle, Task, Waits, TaskOK, Blank, Snapshot, State, ActiveRoom

\* The initial states are typed.
LEMMA TypeInit == Init => TypeOK
<1> SUFFICES ASSUME Init PROVE TypeOK
  OBVIOUS
<1>1. latest \in Snapshot
  BY SmallTypes DEF Init, Stored
<1> QED
  BY <1>1, SmallTypes DEF Init, TypeOK

\* Changing one activation to a typed task keeps all of them typed.
LEMMA TaskStep ==
  ASSUME TypeOK, NEW a \in Activations, NEW t \in Task, TaskOK(t),
         task' = [task EXCEPT ![a] = t]
  PROVE  task' \in [Activations -> Task] /\ \A b \in Activations : TaskOK(task'[b])
BY DEF TypeOK, TaskOK

\* persistRoom captures a document of the right type and leaves a typed room.
LEMMA PersistTypes ==
  ASSUME TypeOK, NEW a \in Activations, NEW s \in Sockets \cup {None}, NEW r \in ActiveRoom,
         NEW after \in {"leave", "sweep", "timer"}, after # "timer" => s # None,
         Persist(a, s, r, after, FALSE)
  PROVE  /\ room' \in ActiveRoom
         /\ task' \in [Activations -> Task]
         /\ \A b \in Activations : TaskOK(task'[b])
<1> DEFINE t == [pc |-> "write", sock |-> s, snap |-> State(r), after |-> after, todo |-> FALSE]
<1>1. t \in Task /\ TaskOK(t)
  BY SmallTypes DEF Task, Waits, TaskOK
<1>2. task' = [task EXCEPT ![a] = t]
  BY DEF Persist
<1>3. room' \in ActiveRoom
  BY DEF Persist, ActiveRoom
<1> QED
  BY <1>1, <1>2, <1>3, TaskStep

\* Taking a user out of the loaded room keeps it typed.
LEMMA WithoutType ==
  ASSUME TypeOK, room # None, NEW u \in Users
  PROVE  Without(u) \in ActiveRoom
BY DEF TypeOK, Without, ActiveRoom

\* Registering a socket in a typed room object keeps room and channel typed.
LEMMA EnterTypes ==
  ASSUME TypeOK, NEW s \in Sockets, NEW r \in ActiveRoom, Enter(s, r)
  PROVE  room' \in ActiveRoom /\ channel' \in [Sockets -> Snapshot \cup {None}]
<1>1. userOf[s] \in Users /\ State(r) \in Snapshot
  BY SmallTypes
<1>2. room' \in ActiveRoom
  BY <1>1 DEF Enter, ActiveRoom
<1>3. channel' \in [Sockets -> Snapshot \cup {None}]
  BY <1>1 DEF Enter, TypeOK
<1> QED
  BY <1>2, <1>3
\* Every step keeps the types.
LEMMA TypeNext == TypeOK /\ [Next]_vars => TypeOK'
<1> SUFFICES ASSUME TypeOK, [Next]_vars PROVE TypeOK'
  OBVIOUS
<1> USE SmallTypes
<1>1. ASSUME NEW s \in Sockets, Connect(s) PROVE TypeOK'
  BY <1>1 DEF Connect, TypeOK, rows, TaskOK
<1>2. ASSUME NEW s \in Sockets, NEW a \in Activations, RoomJoin(s, a) PROVE TypeOK'
  <2> DEFINE t == [Idle EXCEPT !.pc = "validate", !.sock = s]
  <2>1. t \in Task /\ TaskOK(t)
    BY DEF Idle, Task, Waits, TaskOK
  <2>2. task' = [task EXCEPT ![a] = t]
    BY <1>2 DEF RoomJoin
  <2> QED
    BY <1>2, <2>1, <2>2, TaskStep DEF RoomJoin, TypeOK, rows
<1>3. ASSUME NEW a \in Activations, ValidateMembership(a) PROVE TypeOK'
  <2> DEFINE t == IF userOf[task[a].sock] \in members
                  THEN [task[a] EXCEPT !.pc = "member"] ELSE Idle
  <2>1. t \in Task /\ TaskOK(t)
    BY <1>3 DEF TypeOK, Task, Waits, TaskOK, ValidateMembership
  <2>2. task' = [task EXCEPT ![a] = t]
    BY <1>3 DEF ValidateMembership, TypeOK
  <2> QED
    BY <1>3, <2>1, <2>2, TaskStep DEF ValidateMembership, TypeOK, rows
<1>4. ASSUME NEW a \in Activations, JoinLoaded(a) PROVE TypeOK'
  <2>1. task[a].sock \in Sockets
    BY <1>4 DEF JoinLoaded, TypeOK, TaskOK, Task
  <2>2. room' \in ActiveRoom /\ channel' \in [Sockets -> Snapshot \cup {None}]
    BY <1>4, <2>1, EnterTypes DEF JoinLoaded, TypeOK
  <2> QED
    BY <1>4, <2>2, TaskStep DEF JoinLoaded, TypeOK, rows, LateJoin, Faults
<1>5. ASSUME NEW a \in Activations, JoinUnloaded(a) PROVE TypeOK'
  <2> DEFINE t == [task[a] EXCEPT !.pc = "find"]
  <2>1. t \in Task /\ TaskOK(t)
    BY <1>5 DEF TypeOK, Task, Waits, TaskOK, JoinUnloaded
  <2>2. task' = [task EXCEPT ![a] = t]
    BY <1>5 DEF JoinUnloaded, TypeOK
  <2> QED
    BY <1>5, <2>1, <2>2, TaskStep DEF JoinUnloaded, TypeOK, rows
<1>6. ASSUME NEW a \in Activations, FindDocument(a) PROVE TypeOK'
  <2> DEFINE t == IF doc = None THEN [task[a] EXCEPT !.pc = "create"]
                  ELSE [task[a] EXCEPT !.pc = "loaded", !.snap = doc]
  <2>0. task[a].after # "sweep" /\ ~task[a].todo
    BY <1>6 DEF FindDocument, TypeOK, TaskOK
  <2>1. t \in Task /\ TaskOK(t)
    <3>1. CASE doc = None
      BY <1>6, <2>0, <3>1 DEF TypeOK, Task, Waits, TaskOK, FindDocument
    <3>2. CASE doc # None
      BY <1>6, <2>0, <3>2 DEF TypeOK, Task, Waits, TaskOK, FindDocument
    <3> QED
      BY <3>1, <3>2
  <2>2. task' = [task EXCEPT ![a] = t]
    BY <1>6 DEF FindDocument, TypeOK
  <2> QED
    BY <1>6, <2>1, <2>2, TaskStep DEF FindDocument, TypeOK, rows
<1>7. ASSUME NEW a \in Activations, CreateDocument(a) PROVE TypeOK'
  <2> DEFINE t == IF exists /\ doc = None
                  THEN [task[a] EXCEPT !.pc = "loaded", !.snap = Blank] ELSE Idle
  <2>1. t \in Task /\ TaskOK(t)
    <3>1. CASE exists /\ doc = None
      <4> DEFINE v == [task[a] EXCEPT !.pc = "loaded", !.snap = Blank]
      <4>0. task[a].after # "sweep" /\ ~task[a].todo
        BY <1>7 DEF CreateDocument, TypeOK, TaskOK
      <4>1. v \in Task /\ TaskOK(v)
        BY <1>7, <4>0 DEF TypeOK, Task, Waits, TaskOK, CreateDocument
      <4>2. t = v
        BY <3>1
      <4> QED
        BY <4>1, <4>2
    <3>2. CASE ~(exists /\ doc = None)
      BY <3>2
    <3> QED
      BY <3>1, <3>2
  <2>2. task' = [task EXCEPT ![a] = t]
    BY <1>7 DEF CreateDocument, TypeOK
  <2> QED
    BY <1>7, <2>1, <2>2, TaskStep DEF CreateDocument, TypeOK
<1>8. ASSUME NEW a \in Activations, InstallRoom(a) PROVE TypeOK'
  <2> DEFINE r == [ver |-> task[a].snap.ver, text |-> task[a].snap.text,
                   users |-> [u \in Users |-> None], armed |-> FALSE]
             tasks == [task EXCEPT ![a] = Idle]
  <2>1. task[a].sock \in Sockets /\ task[a].snap \in Snapshot
    BY <1>8 DEF InstallRoom, TypeOK, TaskOK, Task
  <2>2. r \in ActiveRoom
    BY <2>1 DEF ActiveRoom, Snapshot
  <2>3. room' \in ActiveRoom /\ channel' \in [Sockets -> Snapshot \cup {None}]
    BY <1>8, <2>1, <2>2, EnterTypes DEF InstallRoom
  <2>4. tasks \in [Activations -> Task] /\ \A b \in Activations : TaskOK(tasks[b])
    BY DEF TypeOK, TaskOK
  <2>5. task' \in [Activations -> Task] /\ \A b \in Activations : TaskOK(task'[b])
    <3>1. ASSUME NEW b \in Activations, tasks[b].pc # "idle", tasks[b].after = "sweep"
          PROVE  [tasks[b] EXCEPT !.todo = TRUE] \in Task /\ TaskOK([tasks[b] EXCEPT !.todo = TRUE])
      BY <2>4, <3>1 DEF Task, TaskOK
    <3>2. task' = Insert(tasks)
      BY <1>8 DEF InstallRoom
    <3> HIDE DEF tasks
    <3> QED
      BY <2>4, <3>1, <3>2 DEF Insert
  <2>6. faults' \subseteq Faults
    BY <1>8 DEF InstallRoom, TypeOK, LateJoin, Faults, Losses
  <2>7. strays' \in Nat
    BY <1>8 DEF InstallRoom, TypeOK
  <2> QED
    BY <1>8, <2>3, <2>5, <2>6, <2>7 DEF InstallRoom, TypeOK, rows
<1>9. ASSUME NEW a \in Activations, JoinFails(a) PROVE TypeOK'
  BY <1>9, TaskStep DEF JoinFails, TypeOK, rows
<1>10. ASSUME NEW s \in Sockets, NEW x \in Texts, Edit(s, x) PROVE TypeOK'
  <2>1. Apply(room, x) \in ActiveRoom
    <3>1. room \in ActiveRoom
      BY <1>10 DEF Edit, CanEdit, TypeOK
    <3>2. room.ver + 1 \in Nat /\ Apply(room, x) = [room EXCEPT !.ver = room.ver + 1, !.text = x]
      BY <3>1 DEF Apply, ActiveRoom
    <3>3. ASSUME NEW n \in Nat PROVE [room EXCEPT !.ver = n, !.text = x] \in ActiveRoom
      BY <3>1 DEF ActiveRoom
    <3> QED
      BY <3>2, <3>3
  <2>2. Schedule(Apply(room, x)) \in ActiveRoom
    BY <2>1 DEF Schedule, ActiveRoom
  <2>3. State(Apply(room, x)) \in Snapshot
    BY <2>1
  <2>4. channel' \in [Sockets -> Snapshot \cup {None}]
    BY <1>10, <2>3 DEF Edit, Broadcast
  <2> QED
    BY <1>10, <2>2, <2>3, <2>4 DEF Edit, TypeOK, rows, TaskOK
<1>11. ASSUME NEW s \in Sockets, Resync(s) PROVE TypeOK'
  <2>1. State(room) \in Snapshot
    BY <1>11 DEF Resync, CanEdit, TypeOK
  <2> QED
    BY <1>11, <2>1 DEF Resync, TypeOK, rows, TaskOK
<1>12. ASSUME NEW a \in Activations, TimerFires(a) PROVE TypeOK'
  BY <1>12, PersistTypes DEF TimerFires, Armed, TypeOK, rows
<1>13. ASSUME NEW a \in Activations, StrayTimerFires(a) PROVE TypeOK'
  <2>1. strays' \in Nat
    BY <1>13 DEF StrayTimerFires, TypeOK
  <2>2. CASE room = None
    BY <1>13, <2>1, <2>2 DEF StrayTimerFires, TypeOK, rows, TaskOK
  <2>3. CASE room # None
    BY <1>13, <2>1, <2>3, PersistTypes DEF StrayTimerFires, TypeOK, rows
  <2> QED
    BY <2>2, <2>3
<1>14. ASSUME NEW a \in Activations, task[a].pc = "write"
       PROVE  Returned(a) \in Task /\ TaskOK(Returned(a))
  BY <1>14 DEF Returned, TypeOK, Task, Waits, TaskOK
<1>15. ASSUME NEW a \in Activations, UpdateDocument(a) PROVE TypeOK'
  <2>1. task[a].snap \in Snapshot
    BY <1>15 DEF UpdateDocument, TypeOK, TaskOK, Task
  <2> QED
    BY <1>14, <1>15, <2>1, TaskStep DEF UpdateDocument, TypeOK, Faults, Losses
<1>16. ASSUME NEW a \in Activations, UpdateFails(a) PROVE TypeOK'
  BY <1>14, <1>16, TaskStep DEF UpdateFails, TypeOK, rows, Faults, Losses
<1>17. ASSUME NEW a \in Activations, RemoveRoom(a) PROVE TypeOK'
  <2> DEFINE next == IF task[a].after = "leave" THEN Idle ELSE [task[a] EXCEPT !.pc = "sweep"]
  <2>1. next \in Task /\ TaskOK(next)
    BY <1>17 DEF RemoveRoom, TypeOK, TaskOK, Task, Waits
  <2>2. task' = [b \in Activations |-> [(IF b = a THEN next ELSE task[b]) EXCEPT !.todo = FALSE]]
    BY <1>17 DEF RemoveRoom
  <2>3. ASSUME NEW b \in Activations
        PROVE  task'[b] \in Task /\ TaskOK(task'[b])
    <3> HIDE DEF next
    <3> DEFINE t == IF b = a THEN next ELSE task[b]
    <3>1. t \in Task /\ TaskOK(t)
      BY <2>1 DEF TypeOK
    <3>2. task'[b] = [t EXCEPT !.todo = FALSE]
      BY <2>2
    <3> HIDE DEF t
    <3> QED
      BY <3>1, <3>2 DEF Task, TaskOK
  <2>4. task' \in [Activations -> Task]
    <3> HIDE DEF next
    <3> QED
      BY <2>2, <2>3
  <2>5. channel' \in [Sockets -> Snapshot \cup {None}]
    BY <1>17 DEF RemoveRoom, TypeOK
  <2> QED
    BY <1>17, <2>3, <2>4, <2>5 DEF RemoveRoom, TypeOK, rows, Faults, Losses
<1>18. ASSUME NEW s \in Sockets, RoomLeave(s) PROVE TypeOK'
  BY <1>18, WithoutType DEF RoomLeave, TypeOK, rows, TaskOK
<1>19. ASSUME NEW s \in Sockets, NEW a \in Activations, RoomLeaveLast(s, a) PROVE TypeOK'
  <2>1. Without(userOf[s]) \in ActiveRoom
    BY <1>19, WithoutType DEF RoomLeaveLast
  <2> QED
    BY <1>19, <2>1, PersistTypes DEF RoomLeaveLast, TypeOK, rows
<1>20. ASSUME NEW s \in Sockets, NEW a \in Activations, Disconnect(s, a) PROVE TypeOK'
  <2> DEFINE t == [Idle EXCEPT !.pc = "sweep", !.sock = s, !.after = "sweep", !.todo = LoopMeets(s)]
  <2>1. t \in Task /\ TaskOK(t)
    BY DEF Idle, Task, Waits, TaskOK, LoopMeets
  <2>2. task' = [task EXCEPT ![a] = t]
    BY <1>20 DEF Disconnect
  <2> QED
    BY <1>20, <2>1, <2>2, TaskStep DEF Disconnect, TypeOK, rows
<1>21. ASSUME NEW a \in Activations, SweepRoom(a) PROVE TypeOK'
  <2>1. task[a].sock \in Sockets
    BY <1>21 DEF SweepRoom, TypeOK, TaskOK, Task
  <2> DEFINE u == userOf[task[a].sock]
  <2>2. Without(u) \in ActiveRoom
    BY <1>21, <2>1, WithoutType DEF SweepRoom
  <2>3. CASE Persist(a, task[a].sock, Without(u), "sweep", FALSE)
    BY <1>21, <2>1, <2>2, <2>3, PersistTypes DEF SweepRoom, TypeOK, rows
  <2>4. CASE room' = Without(u) /\ task' = [task EXCEPT ![a].todo = FALSE]
    <3> DEFINE t == [task[a] EXCEPT !.todo = FALSE]
    <3>1. t \in Task /\ TaskOK(t)
      BY <1>21 DEF SweepRoom, TypeOK, Task, TaskOK
    <3>2. task' = [task EXCEPT ![a] = t]
      BY <2>4 DEF TypeOK
    <3> QED
      BY <1>21, <2>2, <2>4, <3>1, <3>2, TaskStep DEF SweepRoom, TypeOK, rows
  <2> QED
    BY <1>21, <2>3, <2>4 DEF SweepRoom
<1>22. ASSUME NEW a \in Activations, SweepDone(a) PROVE TypeOK'
  BY <1>22, TaskStep DEF SweepDone, TypeOK, rows
<1>23. ASSUME NEW s \in Sockets, ForceLeave(s) PROVE TypeOK'
  BY <1>23 DEF ForceLeave, TypeOK, rows, TaskOK
<1>24. ASSUME NEW u \in Users, AddMember(u) \/ RemoveMember(u) PROVE TypeOK'
  BY <1>24 DEF AddMember, RemoveMember, TypeOK, TaskOK
<1>25. CASE DeleteRoom
  BY <1>25 DEF DeleteRoom, TypeOK, TaskOK
<1>26. CASE Crash
  BY <1>26 DEF Crash, TypeOK, rows, Faults, Losses
<1>27. CASE UNCHANGED vars
  BY <1>27 DEF vars, TypeOK, TaskOK
<1> QED
  BY <1>1, <1>2, <1>3, <1>4, <1>5, <1>6, <1>7, <1>8, <1>9, <1>10, <1>11, <1>12, <1>13,
     <1>15, <1>16, <1>17, <1>18, <1>19, <1>20, <1>21, <1>22, <1>23, <1>24, <1>25, <1>26, <1>27
  DEF Next, Client, Proceed, Timers

\* Type correctness of every reachable state.
THEOREM TypeCorrect == Spec => []TypeOK
  BY TypeInit, TypeNext, PTL DEF Spec
-----------------------------------------------------------------------------
(* Registered editors hold the document *)

\* A step that leaves the document of the loaded room alone, registers nobody and
\* sends at most that document keeps the agreement.
LEMMA AgreeKept ==
  ASSUME TypeOK, ParticipantsAgree,
         room' # None => /\ room # None
                         /\ State(room') = State(room)
                         /\ \A u \in Users : room'.users[u] \in {room.users[u], None},
         \A s \in Sockets : channel'[s] \in {channel[s], None, State(room)}
  PROVE  ParticipantsAgree'
<1> SUFFICES ASSUME room' # None, NEW s \in Sockets, room'.users[userOf[s]] = s,
                    channel'[s] # None
             PROVE  channel'[s] = State(room')
  BY DEF ParticipantsAgree
<1>1. userOf[s] \in Users /\ s # None
  OBVIOUS
<1>2. room.users[userOf[s]] = s
  BY <1>1
<1>3. channel[s] # None => channel[s] = State(room)
  BY <1>2 DEF ParticipantsAgree
<1> QED
  BY <1>3

\* What persistRoom does to the loaded room.
LEMMA PersistKeeps ==
  ASSUME NEW a, NEW s, NEW r \in ActiveRoom, NEW after, Persist(a, s, r, after, FALSE)
  PROVE  room' # None /\ State(room') = State(r) /\ room'.users = r.users
<1>1. room' \in ActiveRoom
  BY DEF Persist, ActiveRoom
<1>2. room' # None
  BY <1>1
<1> QED
  BY <1>2 DEF Persist, ActiveRoom, State

\* What taking a user out does to the loaded room.
LEMMA WithoutKeeps ==
  ASSUME TypeOK, room # None, NEW u \in Users
  PROVE  /\ Without(u) # None
         /\ State(Without(u)) = State(room)
         /\ \A v \in Users : Without(u).users[v] \in {room.users[v], None}
<1>1. Without(u) \in ActiveRoom /\ room \in ActiveRoom
  BY WithoutType DEF TypeOK
<1>2. Without(u) # None
  BY <1>1
<1> QED
  BY <1>1, <1>2 DEF Without, State, ActiveRoom

\* Only an open connection is in the channel.
ChannelIsOpen == \A s \in Sockets : channel[s] # None => conn[s] = "open"
AgreeInv == TypeOK /\ ParticipantsAgree /\ ChannelIsOpen

\* A join registers a socket and, if it is still open, sends it the document.
LEMMA AgreeEnter ==
  ASSUME TypeOK, ChannelIsOpen, NEW s \in Sockets, NEW r \in ActiveRoom, Enter(s, r),
         \A t \in Sockets : r.users[userOf[t]] = t /\ channel[t] # None => channel[t] = State(r)
  PROVE  ParticipantsAgree'
<1> SUFFICES ASSUME NEW t \in Sockets, room'.users[userOf[t]] = t, channel'[t] # None
             PROVE  channel'[t] = State(room')
  BY DEF ParticipantsAgree
<1>1. State(room') = State(r)
  BY DEF Enter, State, ActiveRoom
<1>2. CASE t = s
  BY <1>1, <1>2 DEF Enter, TypeOK, ChannelIsOpen
<1>3. CASE t # s
  <2>1. channel'[t] = channel[t]
    BY <1>3 DEF Enter, TypeOK
  <2>2. r.users[userOf[t]] = t
    BY <1>3 DEF Enter, ActiveRoom
  <2> QED
    BY <1>1, <2>1, <2>2
<1> QED
  BY <1>2, <1>3

\* The channel's members stay open connections.
LEMMA ChannelNext == TypeOK /\ ChannelIsOpen /\ [Next]_vars => ChannelIsOpen'
<1> SUFFICES ASSUME TypeOK, ChannelIsOpen, [Next]_vars PROVE ChannelIsOpen'
  OBVIOUS
<1>1. ASSUME \A s \in Sockets : channel'[s] # None => channel[s] # None,
             UNCHANGED conn
      PROVE  ChannelIsOpen'
  BY <1>1 DEF ChannelIsOpen
<1>2. ASSUME NEW s \in Sockets, Client(s) PROVE ChannelIsOpen'
  BY <1>2 DEF Client, Connect, RoomJoin, RoomLeaveLast, Disconnect, Edit, CanEdit, Broadcast, Resync,
              RoomLeave, ForceLeave, ChannelIsOpen, TypeOK
<1>3. ASSUME NEW a \in Activations, JoinLoaded(a) \/ InstallRoom(a) PROVE ChannelIsOpen'
  BY <1>3 DEF JoinLoaded, InstallRoom, Enter, ChannelIsOpen, TypeOK
<1>4. ASSUME NEW a \in Activations, RemoveRoom(a) PROVE ChannelIsOpen'
  BY <1>4, <1>1 DEF RemoveRoom, TypeOK
<1>5. ASSUME NEW a \in Activations,
             \/ ValidateMembership(a) \/ JoinUnloaded(a) \/ FindDocument(a)
             \/ CreateDocument(a) \/ UpdateDocument(a) \/ UpdateFails(a) \/ SweepRoom(a)
             \/ SweepDone(a) \/ Timers(a) \/ JoinFails(a)
      PROVE  ChannelIsOpen'
  BY <1>5, <1>1 DEF ValidateMembership, JoinUnloaded, FindDocument, CreateDocument, UpdateDocument,
              UpdateFails, SweepRoom, SweepDone, Timers, TimerFires, StrayTimerFires, JoinFails
<1>6. CASE \/ \E u \in Users : AddMember(u) \/ RemoveMember(u)
           \/ DeleteRoom \/ UNCHANGED vars
  BY <1>6, <1>1 DEF AddMember, RemoveMember, DeleteRoom, vars
<1>7. CASE Crash
  BY <1>7 DEF Crash, ChannelIsOpen
<1> QED
  BY <1>2, <1>3, <1>4, <1>5, <1>6, <1>7 DEF Next, Proceed

\* Every step keeps registered editors at the document of the loaded room.
LEMMA AgreeNext == AgreeInv /\ [Next]_vars => ParticipantsAgree'
<1> SUFFICES ASSUME AgreeInv, [Next]_vars PROVE ParticipantsAgree'
  OBVIOUS
<1> USE DEF AgreeInv
<1>1. ASSUME room' = room, \A s \in Sockets : channel'[s] \in {channel[s], None}
      PROVE  ParticipantsAgree'
  BY <1>1 DEF ParticipantsAgree
<1>2. ASSUME NEW s \in Sockets,
             \/ Connect(s) \/ ForceLeave(s)
             \/ \E a \in Activations : RoomJoin(s, a) \/ Disconnect(s, a)
      PROVE  ParticipantsAgree'
  BY <1>1, <1>2 DEF Connect, ForceLeave, RoomJoin, Disconnect, TypeOK
<1>3. ASSUME NEW a \in Activations,
             \/ ValidateMembership(a) \/ JoinUnloaded(a) \/ FindDocument(a) \/ CreateDocument(a)
             \/ UpdateDocument(a) \/ UpdateFails(a) \/ SweepDone(a) \/ JoinFails(a)
      PROVE  ParticipantsAgree'
  BY <1>1, <1>3 DEF ValidateMembership, JoinUnloaded, FindDocument, CreateDocument,
                    UpdateDocument, UpdateFails, SweepDone, JoinFails
<1>4. CASE \/ \E u \in Users : AddMember(u) \/ RemoveMember(u)
           \/ DeleteRoom \/ UNCHANGED vars
  BY <1>1, <1>4 DEF AddMember, RemoveMember, DeleteRoom, vars
<1>5. ASSUME NEW a \in Activations, JoinLoaded(a) PROVE ParticipantsAgree'
  <2>1. task[a].sock \in Sockets
    BY <1>5 DEF JoinLoaded, TypeOK, TaskOK, Task
  <2>2. room \in ActiveRoom
    BY <1>5 DEF JoinLoaded, TypeOK
  <2> QED
    BY <1>5, <2>1, <2>2, AgreeEnter DEF JoinLoaded, ParticipantsAgree
<1>6. ASSUME NEW a \in Activations, InstallRoom(a) PROVE ParticipantsAgree'
  <2> DEFINE r == [ver |-> task[a].snap.ver, text |-> task[a].snap.text,
                   users |-> [u \in Users |-> None], armed |-> FALSE]
  <2>1. task[a].sock \in Sockets /\ task[a].snap \in Snapshot
    BY <1>6 DEF InstallRoom, TypeOK, TaskOK, Task
  <2>2. r \in ActiveRoom
    BY <2>1 DEF ActiveRoom, Snapshot
  <2>3. \A t \in Sockets : r.users[userOf[t]] # t
    OBVIOUS
  <2>4. Enter(task[a].sock, r)
    BY <1>6 DEF InstallRoom
  <2> HIDE DEF r
  <2> QED
    BY <2>1, <2>2, <2>3, <2>4, AgreeEnter
<1>7. ASSUME NEW s \in Sockets, NEW x \in Texts, Edit(s, x) PROVE ParticipantsAgree'
  <2>1. room \in ActiveRoom
    BY <1>7 DEF Edit, CanEdit, TypeOK
  <2>2. State(room') = State(Apply(room, x))
    BY <1>7, <2>1 DEF Edit, State, Schedule, Apply, ActiveRoom
  <2> QED
    BY <1>7, <2>2 DEF Edit, Broadcast, ParticipantsAgree
<1>8. ASSUME NEW s \in Sockets, Resync(s) PROVE ParticipantsAgree'
  BY <1>8 DEF Resync, ParticipantsAgree, TypeOK
<1>9. ASSUME NEW a \in Activations, Timers(a) PROVE ParticipantsAgree'
  <2>1. CASE room = None
    BY <1>1, <1>9, <2>1 DEF Timers, TimerFires, StrayTimerFires, Armed
  <2>2. CASE room # None
    <3>1. Persist(a, None, room, "timer", FALSE) /\ UNCHANGED channel
      BY <1>9, <2>2 DEF Timers, TimerFires, StrayTimerFires
    <3> QED
      BY <2>2, <3>1, PersistKeeps, AgreeKept DEF TypeOK
  <2> QED
    BY <2>1, <2>2
<1>10. ASSUME NEW a \in Activations, RemoveRoom(a) PROVE ParticipantsAgree'
  BY <1>10 DEF RemoveRoom, ParticipantsAgree
<1>11. ASSUME NEW s \in Sockets, RoomLeave(s) PROVE ParticipantsAgree'
  <2>1. CASE room = None
    BY <1>1, <1>11, <2>1 DEF RoomLeave, TypeOK
  <2>2. CASE room # None
    <3>1. userOf[s] \in Users
      OBVIOUS
    <3>2. room' = Without(userOf[s]) /\ \A t \in Sockets : channel'[t] \in {channel[t], None}
      BY <1>11, <2>2 DEF RoomLeave, TypeOK
    <3> QED
      BY <2>2, <3>1, <3>2, WithoutKeeps, AgreeKept
  <2> QED
    BY <2>1, <2>2
<1>12. ASSUME NEW a \in Activations, NEW s \in Sockets, NEW after, room # None, UNCHANGED channel,
              Persist(a, s, Without(userOf[s]), after, FALSE)
       PROVE  ParticipantsAgree'
  <2>1. userOf[s] \in Users
    OBVIOUS
  <2>2. Without(userOf[s]) \in ActiveRoom
    BY <1>12, <2>1, WithoutType
  <2>3. room' # None /\ State(room') = State(Without(userOf[s])) /\ room'.users = Without(userOf[s]).users
    BY <1>12, <2>2, PersistKeeps
  <2> QED
    BY <1>12, <2>1, <2>3, WithoutKeeps, AgreeKept
<1>13. ASSUME NEW s \in Sockets, NEW a \in Activations, RoomLeaveLast(s, a) PROVE ParticipantsAgree'
  BY <1>12, <1>13 DEF RoomLeaveLast
<1>14. ASSUME NEW a \in Activations, SweepRoom(a) PROVE ParticipantsAgree'
  <2>1. task[a].sock \in Sockets /\ userOf[task[a].sock] \in Users
    BY <1>14 DEF SweepRoom, TypeOK, TaskOK, Task
  <2>2. CASE Persist(a, task[a].sock, Without(userOf[task[a].sock]), "sweep", FALSE)
    BY <1>12, <1>14, <2>1, <2>2 DEF SweepRoom
  <2>3. CASE room' = Without(userOf[task[a].sock])
    BY <1>14, <2>1, <2>3, WithoutKeeps, AgreeKept DEF SweepRoom
  <2> QED
    BY <1>14, <2>2, <2>3 DEF SweepRoom
<1>15. CASE Crash
  BY <1>15 DEF Crash, ParticipantsAgree
<1> QED
  BY <1>2, <1>3, <1>4, <1>5, <1>6, <1>7, <1>8, <1>9, <1>10, <1>11, <1>13, <1>14, <1>15
  DEF Next, Client, Proceed

\* A registered editor holds the document of the loaded room, in every
\* reachable state.
THEOREM EditorsAgree == Spec => []ParticipantsAgree
<1>1. Init => AgreeInv
  BY TypeInit DEF Init, AgreeInv, ParticipantsAgree, ChannelIsOpen
<1>2. AgreeInv /\ [Next]_vars => AgreeInv'
  BY TypeNext, ChannelNext, AgreeNext DEF AgreeInv
<1> QED
  BY <1>1, <1>2, PTL DEF Spec, AgreeInv

-----------------------------------------------------------------------------
(* No accepted edit is lost but by one of the five losses *)

\* A step that changes neither the row nor the document and the timer of the
\* loaded room, starts or ends no write, and makes no copy but of what the room
\* holds, loses nothing.
LEMMA EditsQuiet ==
  ASSUME TypeOK, EditsInv, UNCHANGED <<doc, latest>>, exists' => exists, faults \subseteq faults',
         room' # None <=> room # None,
         room # None => State(room') = State(room) /\ room'.armed = room.armed,
         \A s \in Sockets : channel'[s] \in {channel[s], None}
                            \/ (room # None /\ channel'[s] = State(room)),
         \A b \in Activations :
            /\ task'[b].snap \in {task[b].snap, None}
            /\ task[b].pc = "write" => task'[b].pc = "write" /\ task'[b].snap = task[b].snap
            /\ task'[b].pc = "loaded" => task[b].pc = "loaded" /\ task'[b].snap = task[b].snap
  PROVE  EditsInv'
<1>1. ~Lost' => ~Lost
  BY DEF Lost
<1>2. VersionNamesLatest'
  BY <1>1 DEF EditsInv, VersionNamesLatest, NotAhead
<1>3. EditsAreKept'
  BY <1>1 DEF EditsInv, EditsAreKept, Armed, Written, Stored
<1>4. LoadsAreCurrent'
  BY <1>1 DEF EditsInv, LoadsAreCurrent, Stored
<1>5. NoRowYet'
  BY DEF EditsInv, NoRowYet
<1> QED
  BY <1>2, <1>3, <1>4, <1>5 DEF EditsInv

\* persistRoom clears the timer and starts a write of what the room holds.
LEMMA EditsPersist ==
  ASSUME TypeOK, EditsInv, UNCHANGED <<doc, latest, exists, faults, channel>>,
         NEW a \in Activations, task[a].pc # "write", NEW s, NEW after,
         NEW r \in ActiveRoom, room # None, State(r) = State(room), Persist(a, s, r, after, FALSE)
  PROVE  EditsInv'
<1>1. Lost' <=> Lost
  BY DEF Lost
<1>2. /\ room' # None /\ State(room') = State(room)
      /\ task'[a].pc = "write" /\ task'[a].snap = State(room)
      /\ \A b \in Activations : b # a => task'[b] = task[b]
  BY PersistKeeps DEF Persist, TypeOK
<1>3. VersionNamesLatest'
  BY <1>1, <1>2 DEF EditsInv, VersionNamesLatest, NotAhead
<1>4. EditsAreKept'
  BY <1>1, <1>2 DEF EditsInv, EditsAreKept, Armed, Written, Stored
<1>5. LoadsAreCurrent'
  BY <1>1, <1>2 DEF EditsInv, LoadsAreCurrent, Stored
<1>6. NoRowYet'
  BY DEF EditsInv, NoRowYet
<1> QED
  BY <1>3, <1>4, <1>5, <1>6 DEF EditsInv

\* An accepted edit is newer than every copy, and arms the timer.
LEMMA EditsEdit ==
  ASSUME TypeOK, EditsInv, NEW s \in Sockets, NEW x \in Texts, Edit(s, x)
  PROVE  EditsInv'
<1>1. room \in ActiveRoom /\ room # None /\ room.ver \in Nat
  BY DEF Edit, CanEdit, TypeOK, ActiveRoom
<1>2. Apply(room, x) \in ActiveRoom /\ Apply(room, x).ver = room.ver + 1
  <2>1. Apply(room, x) = [room EXCEPT !.ver = room.ver + 1, !.text = x]
    BY DEF Apply
  <2>2. ASSUME NEW n \in Nat
        PROVE  [room EXCEPT !.ver = n, !.text = x] \in ActiveRoom /\ [room EXCEPT !.ver = n, !.text = x].ver = n
    BY <1>1 DEF ActiveRoom
  <2>3. room.ver + 1 \in Nat
    BY <1>1
  <2> QED
    BY <2>1, <2>2, <2>3
<1>3. room' \in ActiveRoom /\ room'.armed /\ State(room') = latest'
  BY <1>2 DEF Edit, Schedule, State, ActiveRoom
<1>4. room' # None
  BY <1>3
<1>5. latest'.ver = room.ver + 1
  BY <1>2 DEF Edit, State
<1>6. UNCHANGED <<doc, exists, task, faults>>
  BY DEF Edit, rows
<1>7. ~Lost => latest.ver = room.ver
  BY <1>1 DEF EditsInv, EditsAreKept, State
<1>8. VersionNamesLatest'
  <2> SUFFICES ASSUME ~Lost' PROVE VersionNamesLatest'
    BY DEF VersionNamesLatest
  <2>1. ~Lost
    BY <1>6 DEF Lost
  <2>2. ASSUME NEW c \in Snapshot \cup {None}, NotAhead(c)
        PROVE  c # None => c.ver <= latest'.ver /\ (c.ver = latest'.ver => c = latest')
    <3>1. CASE c # None
      <4>1. c.ver \in Nat /\ c.ver <= room.ver
        BY <1>7, <2>1, <2>2, <3>1 DEF NotAhead, Snapshot
      <4> QED
        BY <1>1, <1>5, <4>1
    <3> QED
      BY <3>1
  <2>3. NotAhead(doc)'
    BY <1>6, <2>1, <2>2 DEF EditsInv, VersionNamesLatest, NotAhead, TypeOK
  <2>4. NotAhead(State(room))'
    BY <1>1, <1>3, <1>5 DEF NotAhead
  <2>5. ASSUME NEW t \in Sockets PROVE NotAhead(channel[t])'
    BY <1>1, <1>5 DEF Edit, Broadcast, NotAhead
  <2>6. ASSUME NEW b \in Activations PROVE NotAhead(task[b].snap)'
    BY <1>6, <2>1, <2>2 DEF EditsInv, VersionNamesLatest, NotAhead, TypeOK, Task
  <2> QED
    BY <2>3, <2>4, <2>5, <2>6 DEF VersionNamesLatest
<1>9. EditsAreKept'
  BY <1>3, <1>4 DEF EditsAreKept, Armed
<1>10. LoadsAreCurrent'
  <2> SUFFICES ASSUME ~Lost', NEW b \in Activations, task'[b].pc = "loaded", task'[b].snap = latest'
               PROVE  FALSE
    BY DEF LoadsAreCurrent
  <2>1. ~Lost
    BY <1>6 DEF Lost
  <2>2. task[b].snap # None /\ NotAhead(task[b].snap)
    BY <1>6, <2>1 DEF EditsInv, VersionNamesLatest, TypeOK, TaskOK
  <2> QED
    BY <1>1, <1>5, <1>6, <1>7, <2>1, <2>2 DEF NotAhead
<1>11. NoRowYet'
  BY <1>1, <1>5 DEF NoRowYet
<1> QED
  BY <1>8, <1>9, <1>10, <1>11 DEF EditsInv

\* A write that is not flagged as reordered leaves the row at the last edit if
\* it was there, and else the row waits for the write it waited for before.
LEMMA EditsUpdate ==
  ASSUME TypeOK, EditsInv, NEW a \in Activations, UpdateDocument(a)
  PROVE  EditsInv'
<1>1. UNCHANGED <<channel, room, exists, latest>> /\ doc # None /\ doc' = task[a].snap
  BY DEF UpdateDocument
<1>2. task[a].pc = "write" /\ task[a].snap \in Snapshot /\ task[a].snap # None
  BY DEF UpdateDocument, TypeOK, TaskOK, Task
<1>3. /\ task'[a].snap = None /\ task'[a].pc \in {"idle", "written"}
      /\ \A b \in Activations : b # a => task'[b] = task[b]
  BY DEF UpdateDocument, Returned, Idle, TypeOK, Task
<1>4. ~Lost' => ~Lost /\ ~(task[a].snap.ver < doc.ver)
  BY DEF UpdateDocument, Lost, Losses
<1>5. ~Lost /\ ~Lost' /\ doc = latest => doc' = latest
  <2> SUFFICES ASSUME ~Lost, ~Lost', doc = latest PROVE doc' = latest
    OBVIOUS
  <2>1. task[a].snap.ver <= latest.ver /\ (task[a].snap.ver = latest.ver => task[a].snap = latest)
    BY <1>2 DEF EditsInv, VersionNamesLatest, NotAhead
  <2>2. task[a].snap.ver \in Nat /\ latest.ver \in Nat
    BY <1>2 DEF TypeOK, Snapshot
  <2> QED
    BY <1>1, <1>4, <2>1, <2>2
<1>6. VersionNamesLatest'
  BY <1>1, <1>2, <1>3, <1>4 DEF EditsInv, VersionNamesLatest, NotAhead
<1>7. EditsAreKept'
  <2> SUFFICES ASSUME ~Lost' PROVE EditsAreKept'
    BY DEF EditsAreKept
  <2>1. (room # None => State(room) = latest)'
    BY <1>1, <1>4 DEF EditsInv, EditsAreKept
  <2>2. exists => Armed \/ Written
    BY <1>4 DEF EditsInv, EditsAreKept
  <2>3. Armed' <=> Armed
    BY <1>1 DEF Armed
  <2>4. Written => Written'
    <3>1. CASE Stored = latest
      BY <1>1, <1>2, <1>4, <1>5, <3>1 DEF Written, Stored
    <3>2. ASSUME NEW b \in Activations, task[b].pc = "write", task[b].snap = latest
          PROVE  Written'
      <4>1. CASE b = a
        BY <1>1, <1>2, <3>2, <4>1 DEF Written, Stored
      <4>2. CASE b # a
        BY <1>1, <1>3, <3>2, <4>2 DEF Written
      <4> QED
        BY <4>1, <4>2
    <3> QED
      BY <3>1, <3>2 DEF Written
  <2> QED
    BY <1>1, <2>1, <2>2, <2>3, <2>4 DEF EditsAreKept
<1>8. LoadsAreCurrent'
  BY <1>1, <1>2, <1>3, <1>4, <1>5 DEF EditsInv, LoadsAreCurrent, Stored
<1>9. NoRowYet'
  BY <1>1, <1>2 DEF NoRowYet
<1> QED
  BY <1>6, <1>7, <1>8, <1>9 DEF EditsInv

\* A load reads the row, which is as good as the row is.
LEMMA EditsFind ==
  ASSUME TypeOK, EditsInv, NEW a \in Activations, FindDocument(a)
  PROVE  EditsInv'
<1>1. UNCHANGED <<channel, room, exists, doc, latest, faults>> /\ task[a].pc = "find"
  BY DEF FindDocument, rows
<1>2. /\ task'[a].pc # "write"
      /\ task'[a].snap \in {task[a].snap, doc}
      /\ task'[a].pc = "loaded" => task'[a].snap = doc /\ doc # None
      /\ \A b \in Activations : b # a => task'[b] = task[b]
  BY DEF FindDocument, TypeOK, Task
<1>3. Lost' <=> Lost
  BY <1>1 DEF Lost
<1>4. VersionNamesLatest'
  BY <1>1, <1>2, <1>3 DEF EditsInv, VersionNamesLatest, NotAhead
<1>5. EditsAreKept'
  BY <1>1, <1>2, <1>3 DEF EditsInv, EditsAreKept, Armed, Written, Stored
<1>6. LoadsAreCurrent'
  BY <1>1, <1>2, <1>3 DEF EditsInv, LoadsAreCurrent, Stored
<1>7. NoRowYet'
  BY <1>1 DEF EditsInv, NoRowYet
<1> QED
  BY <1>4, <1>5, <1>6, <1>7 DEF EditsInv

\* A blank row in place of a missing one changes nothing that is stored.
LEMMA EditsCreate ==
  ASSUME TypeOK, EditsInv, NEW a \in Activations, CreateDocument(a)
  PROVE  EditsInv'
<1>1. UNCHANGED <<channel, room, exists, latest, faults>> /\ task[a].pc = "create"
  BY DEF CreateDocument
<1>2. \A b \in Activations : b # a => task'[b] = task[b]
  BY DEF CreateDocument, TypeOK
<1>3. Lost' <=> Lost
  BY <1>1 DEF Lost
<1>4. CASE ~(exists /\ doc = None)
  <2>1. doc' = doc /\ task'[a] = Idle
    BY <1>4 DEF CreateDocument, TypeOK
  <2> QED
    BY <1>1, <1>2, <2>1, EditsQuiet DEF Idle
<1>5. CASE exists /\ doc = None
  <2>1. doc' = Blank /\ task'[a].pc = "loaded" /\ task'[a].snap = Blank
    BY <1>5 DEF CreateDocument, TypeOK, Task
  <2>2. Blank # None /\ Blank.ver = 0 /\ Stored = Blank /\ Stored' = Blank
    BY <1>5, <2>1, SmallTypes DEF Blank, Stored
  <2>3. NotAhead(Blank)
    <3>1. latest.ver \in Nat
      BY DEF TypeOK, Snapshot
    <3> QED
      BY <1>5, <2>2, <3>1 DEF EditsInv, NoRowYet, NotAhead
  <2>4. VersionNamesLatest'
    BY <1>1, <1>2, <1>3, <2>1, <2>3 DEF EditsInv, VersionNamesLatest, NotAhead
  <2>5. EditsAreKept'
    BY <1>1, <1>2, <1>3, <2>2 DEF EditsInv, EditsAreKept, Armed, Written
  <2>6. LoadsAreCurrent'
    BY <1>1, <1>2, <1>3, <2>1, <2>2 DEF EditsInv, LoadsAreCurrent
  <2>7. NoRowYet'
    BY <2>1, <2>2 DEF NoRowYet
  <2> QED
    BY <2>4, <2>5, <2>6, <2>7 DEF EditsInv
<1> QED
  BY <1>4, <1>5

\* An object installed with the last edit leaves no edit behind, since the row
\* still has it; one with another is the loss called staleLoad.
LEMMA EditsInstall ==
  ASSUME TypeOK, EditsInv, NEW a \in Activations, InstallRoom(a)
  PROVE  EditsInv'
<1>1. UNCHANGED <<exists, doc, latest>> /\ task[a].pc = "loaded"
  BY DEF InstallRoom, rows
<1>2. task[a].sock \in Sockets /\ task[a].snap \in Snapshot /\ task[a].snap # None
  BY <1>1 DEF TypeOK, TaskOK, Task
<1>3. ~Lost' => ~Lost /\ task[a].snap = latest
  BY DEF InstallRoom, Lost, Losses
<1> DEFINE r == [ver |-> task[a].snap.ver, text |-> task[a].snap.text,
                 users |-> [u \in Users |-> None], armed |-> FALSE]
<1>4. r \in ActiveRoom /\ State(r) = task[a].snap
  BY <1>2 DEF ActiveRoom, Snapshot, State
<1>5. /\ room' \in ActiveRoom /\ State(room') = task[a].snap /\ ~room'.armed
      /\ \A s \in Sockets : channel'[s] \in {channel[s], task[a].snap}
  <2>1. Enter(task[a].sock, r)
    BY DEF InstallRoom
  <2>2. r.armed = FALSE
    OBVIOUS
  <2> HIDE DEF r
  <2> QED
    BY <1>2, <1>4, <2>1, <2>2 DEF Enter, TypeOK, State, ActiveRoom
<1>6. room' # None
  BY <1>5
<1>7. /\ task'[a].pc = "idle" /\ task'[a].snap = None
      /\ \A b \in Activations : b # a => task'[b].pc = task[b].pc /\ task'[b].snap = task[b].snap
  BY DEF InstallRoom, Insert, Idle, TypeOK, Task
<1>8. ~Lost' /\ exists => Stored = latest
  BY <1>1, <1>3 DEF EditsInv, LoadsAreCurrent
<1>9. VersionNamesLatest'
  BY <1>1, <1>2, <1>3, <1>5, <1>6, <1>7 DEF EditsInv, VersionNamesLatest, NotAhead
<1>10. EditsAreKept'
  BY <1>1, <1>3, <1>5, <1>6, <1>8 DEF EditsAreKept, Written, Stored
<1>11. LoadsAreCurrent'
  BY <1>1, <1>8 DEF LoadsAreCurrent, Stored
<1>12. NoRowYet'
  BY <1>1 DEF EditsInv, NoRowYet
<1> QED
  BY <1>9, <1>10, <1>11, <1>12 DEF EditsInv

\* A room freed with its timer armed is the loss called dropped; without, the
\* edit is in the row or on its way.
LEMMA EditsRemove ==
  ASSUME TypeOK, EditsInv, NEW a \in Activations, RemoveRoom(a)
  PROVE  EditsInv'
<1>1. UNCHANGED <<exists, doc, latest>> /\ room' = None /\ task[a].pc = "written"
  BY DEF RemoveRoom, rows
<1>2. ~Lost' => ~Lost /\ ~Armed
  BY DEF RemoveRoom, Lost, Losses
<1>3. \A s \in Sockets : channel'[s] \in {channel[s], None}
  BY DEF RemoveRoom, TypeOK
<1>4. /\ task'[a].pc \in {"idle", "sweep"} /\ task'[a].snap \in {task[a].snap, None}
      /\ \A b \in Activations : b # a => task'[b].pc = task[b].pc /\ task'[b].snap = task[b].snap
  BY <1>1 DEF RemoveRoom, Idle, TypeOK, Task
<1>5. VersionNamesLatest'
  BY <1>1, <1>2, <1>3, <1>4 DEF EditsInv, VersionNamesLatest, NotAhead
<1>6. EditsAreKept'
  BY <1>1, <1>2, <1>4 DEF EditsInv, EditsAreKept, Written, Stored
<1>7. LoadsAreCurrent'
  BY <1>1, <1>2, <1>4 DEF EditsInv, LoadsAreCurrent, Stored
<1>8. NoRowYet'
  BY <1>1 DEF EditsInv, NoRowYet
<1> QED
  BY <1>5, <1>6, <1>7, <1>8 DEF EditsInv

\* Once an edit is lost only the missing row of a room nobody has edited matters.
LEMMA EditsLost ==
  ASSUME EditsInv, Lost', UNCHANGED <<doc, latest>>, exists' => exists
  PROVE  EditsInv'
BY DEF EditsInv, VersionNamesLatest, EditsAreKept, LoadsAreCurrent, NoRowYet

\* The end of the process costs no edit that is in the row.
LEMMA EditsCrash ==
  ASSUME TypeOK, EditsInv, Crash
  PROVE  EditsInv'
<1>1. UNCHANGED <<doc, exists, latest>> /\ room' = None
  BY DEF Crash, rows
<1>2. ~Lost' => ~Lost /\ Stored = latest
  BY DEF Crash, Lost, Losses
<1>3. \A s \in Sockets : channel'[s] = None
  BY DEF Crash
<1>4. \A b \in Activations : task'[b].snap = None /\ task'[b].pc = "idle"
  BY DEF Crash, Idle
<1>5. VersionNamesLatest'
  BY <1>1, <1>2, <1>3, <1>4 DEF EditsInv, VersionNamesLatest, NotAhead
<1>6. EditsAreKept'
  BY <1>1, <1>2 DEF EditsAreKept, Written, Stored
<1>7. LoadsAreCurrent'
  BY <1>1, <1>2, <1>4 DEF LoadsAreCurrent
<1>8. NoRowYet'
  BY <1>1 DEF EditsInv, NoRowYet
<1> QED
  BY <1>5, <1>6, <1>7, <1>8 DEF EditsInv

\* Every step keeps the edits.
LEMMA EditsNext == TypeOK /\ EditsInv /\ [Next]_vars => EditsInv'
<1> SUFFICES ASSUME TypeOK, EditsInv, [Next]_vars PROVE EditsInv'
  OBVIOUS
<1>1. ASSUME NEW a \in Activations,
             ValidateMembership(a) \/ JoinUnloaded(a) \/ SweepDone(a) \/ JoinFails(a)
      PROVE  EditsInv'
  <2>1. UNCHANGED <<channel, room, exists, doc, latest, faults>>
    BY <1>1 DEF ValidateMembership, JoinUnloaded, SweepDone, JoinFails, rows
  <2>2. /\ task[a].pc # "write" /\ task'[a].snap \in {task[a].snap, None} /\ task'[a].pc # "loaded"
        /\ \A b \in Activations : b # a => task'[b] = task[b]
    BY <1>1 DEF ValidateMembership, JoinUnloaded, SweepDone, JoinFails, Idle, TypeOK, Task
  <2> QED
    BY <2>1, <2>2, EditsQuiet
<1>2. ASSUME NEW s \in Sockets,
             \/ Connect(s) \/ ForceLeave(s)
             \/ \E a \in Activations : RoomJoin(s, a) \/ Disconnect(s, a)
      PROVE  EditsInv'
  <2>1. UNCHANGED <<room, exists, doc, latest, faults>>
    BY <1>2 DEF Connect, ForceLeave, RoomJoin, Disconnect, rows
  <2>2. \A t \in Sockets : channel'[t] \in {channel[t], None}
    BY <1>2 DEF Connect, ForceLeave, RoomJoin, Disconnect, TypeOK
  <2>3. \A b \in Activations :
          \/ task'[b] = task[b]
          \/ task[b].pc = "idle" /\ task'[b].snap = None /\ task'[b].pc \in {"validate", "sweep"}
    <3>1. CASE Connect(s) \/ ForceLeave(s)
      BY <3>1 DEF Connect, ForceLeave
    <3>2. ASSUME NEW a \in Activations, RoomJoin(s, a)
          PROVE  \A b \in Activations :
                   \/ task'[b] = task[b]
                   \/ task[b].pc = "idle" /\ task'[b].snap = None /\ task'[b].pc \in {"validate", "sweep"}
      BY <3>2 DEF RoomJoin, Free, Idle, TypeOK
    <3>3. ASSUME NEW a \in Activations, Disconnect(s, a)
          PROVE  \A b \in Activations :
                   \/ task'[b] = task[b]
                   \/ task[b].pc = "idle" /\ task'[b].snap = None /\ task'[b].pc \in {"validate", "sweep"}
      BY <3>3 DEF Disconnect, Free, Idle, TypeOK
    <3> QED
      BY <1>2, <3>1, <3>2, <3>3
  <2> QED
    BY <2>1, <2>2, <2>3, EditsQuiet
<1>3. CASE \/ \E u \in Users : AddMember(u) \/ RemoveMember(u)
           \/ UNCHANGED vars
  BY <1>3, EditsQuiet DEF AddMember, RemoveMember, vars
<1>4. CASE DeleteRoom
  BY <1>4 DEF DeleteRoom, EditsInv, VersionNamesLatest, NotAhead, EditsAreKept, LoadsAreCurrent,
              NoRowYet, Lost, Armed
<1>5. ASSUME NEW a \in Activations, JoinLoaded(a) PROVE EditsInv'
  <2>1. UNCHANGED <<exists, doc, latest>> /\ faults \subseteq faults' /\ room # None /\ task[a].pc = "member"
    BY <1>5 DEF JoinLoaded, rows
  <2>2. task[a].sock \in Sockets
    BY <2>1 DEF TypeOK, TaskOK, Task
  <2>3. room \in ActiveRoom
    BY <2>1 DEF TypeOK
  <2>4. room' \in ActiveRoom /\ State(room') = State(room) /\ room'.armed = room.armed
    BY <1>5, <2>2, <2>3 DEF JoinLoaded, Enter, ActiveRoom, State
  <2>5. room' # None
    BY <2>4
  <2>6. \A t \in Sockets : channel'[t] \in {channel[t], State(room)}
    BY <1>5, <2>2 DEF JoinLoaded, Enter, TypeOK
  <2>7. \A b \in Activations :
          \/ task'[b] = task[b]
          \/ task[b].pc # "write" /\ task'[b].snap = None /\ task'[b].pc = "idle"
    BY <1>5 DEF JoinLoaded, Idle, TypeOK
  <2> QED
    BY <2>1, <2>4, <2>5, <2>6, <2>7, EditsQuiet
<1>6. ASSUME NEW s \in Sockets, Resync(s) PROVE EditsInv'
  <2>1. UNCHANGED <<room, task, exists, doc, latest, faults>> /\ room # None
    BY <1>6 DEF Resync, CanEdit, rows
  <2>2. \A t \in Sockets : channel'[t] \in {channel[t], State(room)}
    BY <1>6 DEF Resync, TypeOK
  <2> QED
    BY <2>1, <2>2, EditsQuiet
<1>7. ASSUME NEW a \in Activations, Timers(a) PROVE EditsInv'
  <2>1. UNCHANGED <<channel, exists, doc, latest, faults>>
    BY <1>7 DEF Timers, TimerFires, StrayTimerFires, rows
  <2>2. CASE room = None
    BY <1>7, <2>1, <2>2, EditsQuiet DEF Timers, TimerFires, StrayTimerFires, Armed
  <2>3. CASE room # None
    <3>1. Persist(a, None, room, "timer", FALSE) /\ task[a].pc # "write" /\ room \in ActiveRoom
      BY <1>7, <2>3 DEF Timers, TimerFires, StrayTimerFires, Free, TypeOK
    <3> QED
      BY <2>1, <2>3, <3>1, EditsPersist
  <2> QED
    BY <2>2, <2>3
<1>8. ASSUME NEW a \in Activations, UpdateFails(a) PROVE EditsInv'
  BY <1>8, EditsLost DEF UpdateFails, rows, Lost, Losses
<1>9. ASSUME NEW s \in Sockets, room # None
      PROVE  /\ Without(userOf[s]) \in ActiveRoom /\ Without(userOf[s]) # None
             /\ State(Without(userOf[s])) = State(room)
             /\ Without(userOf[s]).armed = room.armed
  <2>1. userOf[s] \in Users
    OBVIOUS
  <2>2. Without(userOf[s]) \in ActiveRoom /\ State(Without(userOf[s])) = State(room)
    BY <1>9, <2>1, WithoutType, WithoutKeeps
  <2>3. Without(userOf[s]).armed = room.armed
    BY <1>9 DEF Without, TypeOK, ActiveRoom
  <2> QED
    BY <2>2, <2>3
<1>10. ASSUME NEW s \in Sockets, RoomLeave(s) PROVE EditsInv'
  <2>1. UNCHANGED <<task, exists, doc, latest, faults>>
    BY <1>10 DEF RoomLeave, rows
  <2>2. \A t \in Sockets : channel'[t] \in {channel[t], None}
    BY <1>10 DEF RoomLeave, TypeOK
  <2>3. room' # None <=> room # None
    BY <1>9, <1>10 DEF RoomLeave
  <2>4. room # None => State(room') = State(room) /\ room'.armed = room.armed
    BY <1>9, <1>10 DEF RoomLeave
  <2> QED
    BY <2>1, <2>2, <2>3, <2>4, EditsQuiet
<1>11. ASSUME NEW s \in Sockets, NEW a \in Activations, RoomLeaveLast(s, a) PROVE EditsInv'
  <2>1. UNCHANGED <<channel, exists, doc, latest, faults>> /\ room # None /\ task[a].pc # "write"
    BY <1>11 DEF RoomLeaveLast, rows, Free
  <2>2. Persist(a, s, Without(userOf[s]), "leave", FALSE)
    BY <1>11 DEF RoomLeaveLast
  <2> QED
    BY <1>9, <2>1, <2>2, EditsPersist
<1>12. ASSUME NEW a \in Activations, SweepRoom(a) PROVE EditsInv'
  <2>1. UNCHANGED <<channel, exists, doc, latest, faults>> /\ room # None /\ task[a].pc = "sweep"
    BY <1>12 DEF SweepRoom, rows
  <2>2. task[a].sock \in Sockets
    BY <2>1 DEF TypeOK, TaskOK, Task
  <2> DEFINE r == Without(userOf[task[a].sock])
  <2>3. CASE Persist(a, task[a].sock, r, "sweep", FALSE)
    BY <1>9, <2>1, <2>2, <2>3, EditsPersist
  <2>4. CASE room' = r /\ task' = [task EXCEPT ![a].todo = FALSE]
    <3>1. room' # None /\ State(room') = State(room) /\ room'.armed = room.armed
      BY <1>9, <2>1, <2>2, <2>4
    <3>2. \A b \in Activations : task'[b].pc = task[b].pc /\ task'[b].snap = task[b].snap
      BY <2>4 DEF TypeOK, Task
    <3> QED
      BY <2>1, <3>1, <3>2, EditsQuiet
  <2> QED
    BY <1>12, <2>3, <2>4 DEF SweepRoom
<1> QED
  BY <1>1, <1>2, <1>3, <1>4, <1>5, <1>6, <1>7, <1>8, <1>10, <1>11, <1>12,
     EditsEdit, EditsUpdate, EditsFind, EditsCreate, EditsInstall, EditsRemove, EditsCrash
  DEF Next, Client, Proceed

\* The initial row is the last edit.
LEMMA EditsInit == Init => EditsInv
BY TypeInit DEF Init, TypeOK, EditsInv, VersionNamesLatest, NotAhead, EditsAreKept, Written, Stored,
       LoadsAreCurrent, NoRowYet, Lost, Losses, Idle, Blank, Snapshot

\* The five losses are the only ways to lose an accepted edit.
THEOREM EditsKept == Spec => []EditsAreKept
<1>1. Init => TypeOK /\ EditsInv
  BY TypeInit, EditsInit
<1>2. TypeOK /\ EditsInv /\ [Next]_vars => (TypeOK /\ EditsInv)'
  BY TypeNext, EditsNext
<1> QED
  BY <1>1, <1>2, PTL DEF Spec, EditsInv

\* Until one of them happens a version number names one document.
THEOREM VersionsName == Spec => []VersionNamesLatest
<1>1. Init => TypeOK /\ EditsInv
  BY TypeInit, EditsInit
<1>2. TypeOK /\ EditsInv /\ [Next]_vars => (TypeOK /\ EditsInv)'
  BY TypeNext, EditsNext
<1> QED
  BY <1>1, <1>2, PTL DEF Spec, EditsInv

-----------------------------------------------------------------------------
(* A closed participant is one the disconnect loop will meet *)

\* A step that registers nobody, closes no socket and takes no room from a loop.
LEMMA SweptKept ==
  ASSUME TypeOK, PresenceIsSwept, faults \subseteq faults', UNCHANGED conn,
         room' # None => room # None /\ \A u \in Users : room'.users[u] \in {room.users[u], None},
         \A a \in Activations : task[a].pc # "idle" /\ task[a].todo =>
             task'[a].pc # "idle" /\ task'[a].todo /\ task'[a].sock = task[a].sock
  PROVE  PresenceIsSwept'
<1> SUFFICES ASSUME "lateJoin" \notin faults', room' # None, NEW s \in Sockets,
                    room'.users[userOf[s]] = s, conn'[s] = "closed"
             PROVE  \E a \in Activations : /\ task'[a].pc # "idle" /\ task'[a].todo
                                           /\ userOf[task'[a].sock] = userOf[s]
  BY DEF PresenceIsSwept
<1>1. userOf[s] \in Users /\ s # None
  OBVIOUS
<1>2. room.users[userOf[s]] = s
  BY <1>1
<1>3. PICK a \in Activations : task[a].pc # "idle" /\ task[a].todo /\ userOf[task[a].sock] = userOf[s]
  BY <1>2 DEF PresenceIsSwept
<1> QED
  BY <1>3

\* A join either registers an open socket or is a late one; whom it does not
\* replace is swept as before.
LEMMA SweptEnter ==
  ASSUME TypeOK, NEW s \in Sockets, NEW r \in ActiveRoom, Enter(s, r), UNCHANGED conn,
         faults \cup LateJoin(s) \subseteq faults',
         \A t \in Sockets : r.users[userOf[t]] = t /\ conn[t] = "closed" /\ "lateJoin" \notin faults' =>
             \E a \in Activations : /\ task'[a].pc # "idle" /\ task'[a].todo
                                    /\ userOf[task'[a].sock] = userOf[t]
  PROVE  PresenceIsSwept'
<1> SUFFICES ASSUME "lateJoin" \notin faults', NEW t \in Sockets,
                    room'.users[userOf[t]] = t, conn[t] = "closed"
             PROVE  \E a \in Activations : /\ task'[a].pc # "idle" /\ task'[a].todo
                                           /\ userOf[task'[a].sock] = userOf[t]
  BY DEF PresenceIsSwept
<1>1. t # s
  BY DEF LateJoin
<1>2. r.users[userOf[t]] = t
  BY <1>1 DEF Enter, ActiveRoom
<1> QED
  BY <1>2

\* Every step leaves closed participants to a loop.
LEMMA SweptNext == TypeOK /\ PresenceIsSwept /\ [Next]_vars => PresenceIsSwept'
<1> SUFFICES ASSUME TypeOK, PresenceIsSwept, [Next]_vars PROVE PresenceIsSwept'
  OBVIOUS
<1>1. ASSUME NEW s \in Sockets, Connect(s) PROVE PresenceIsSwept'
  BY <1>1 DEF Connect, PresenceIsSwept, TypeOK
<1>2. ASSUME NEW s \in Sockets, NEW a \in Activations, RoomJoin(s, a) PROVE PresenceIsSwept'
  BY <1>2, SweptKept DEF RoomJoin, Free, TypeOK
<1>3. ASSUME NEW a \in Activations,
             \/ ValidateMembership(a) \/ JoinUnloaded(a) \/ FindDocument(a) \/ CreateDocument(a)
             \/ JoinFails(a) \/ SweepDone(a)
      PROVE  PresenceIsSwept'
  <2>1. UNCHANGED <<conn, room, faults>> /\ ~task[a].todo
    BY <1>3 DEF ValidateMembership, JoinUnloaded, FindDocument, CreateDocument, JoinFails, SweepDone,
                rows, TypeOK, TaskOK
  <2>2. \A b \in Activations : b # a => task'[b] = task[b]
    BY <1>3 DEF ValidateMembership, JoinUnloaded, FindDocument, CreateDocument, JoinFails, SweepDone,
                TypeOK
  <2> QED
    BY <2>1, <2>2, SweptKept
<1>4. ASSUME NEW a \in Activations, JoinLoaded(a) PROVE PresenceIsSwept'
  <2>1. task[a].sock \in Sockets /\ ~task[a].todo /\ room # None /\ room \in ActiveRoom
    BY <1>4 DEF JoinLoaded, TypeOK, TaskOK, Task
  <2>2. Enter(task[a].sock, room) /\ UNCHANGED conn /\ faults' = faults \cup LateJoin(task[a].sock)
    BY <1>4 DEF JoinLoaded
  <2>3. \A b \in Activations : b # a => task'[b] = task[b]
    BY <1>4 DEF JoinLoaded, TypeOK
  <2>4. ASSUME NEW t \in Sockets, room.users[userOf[t]] = t, conn[t] = "closed", "lateJoin" \notin faults'
        PROVE  \E b \in Activations : /\ task'[b].pc # "idle" /\ task'[b].todo
                                      /\ userOf[task'[b].sock] = userOf[t]
    <3>1. PICK b \in Activations : task[b].pc # "idle" /\ task[b].todo /\ userOf[task[b].sock] = userOf[t]
      BY <2>1, <2>2, <2>4 DEF PresenceIsSwept
    <3> QED
      BY <2>1, <2>3, <3>1
  <2> QED
    BY <2>1, <2>2, <2>4, SweptEnter
<1>5. ASSUME NEW a \in Activations, InstallRoom(a) PROVE PresenceIsSwept'
  <2> DEFINE r == [ver |-> task[a].snap.ver, text |-> task[a].snap.text,
                   users |-> [u \in Users |-> None], armed |-> FALSE]
  <2>1. task[a].sock \in Sockets /\ task[a].snap \in Snapshot
    BY <1>5 DEF InstallRoom, TypeOK, TaskOK, Task
  <2>2. r \in ActiveRoom
    BY <2>1 DEF ActiveRoom, Snapshot
  <2>3. \A t \in Sockets : r.users[userOf[t]] # t
    OBVIOUS
  <2>4. Enter(task[a].sock, r) /\ UNCHANGED conn /\ faults \cup LateJoin(task[a].sock) \subseteq faults'
    BY <1>5 DEF InstallRoom
  <2> HIDE DEF r
  <2> QED
    BY <2>1, <2>2, <2>3, <2>4, SweptEnter
<1>6. ASSUME NEW s \in Sockets, NEW x \in Texts, Edit(s, x) PROVE PresenceIsSwept'
  <2>1. room \in ActiveRoom /\ room # None
    BY <1>6 DEF Edit, CanEdit, TypeOK
  <2>2. room'.users = room.users
    BY <1>6, <2>1 DEF Edit, Schedule, Apply, ActiveRoom
  <2> QED
    BY <1>6, <2>1, <2>2, SweptKept DEF Edit
<1>7. ASSUME NEW s \in Sockets, Resync(s) \/ ForceLeave(s) PROVE PresenceIsSwept'
  BY <1>7, SweptKept DEF Resync, ForceLeave
<1>8. ASSUME NEW a \in Activations, NEW s, NEW r \in ActiveRoom, NEW after, Persist(a, s, r, after, FALSE),
             ~task[a].todo, UNCHANGED <<conn, faults>>, room # None,
             \A u \in Users : r.users[u] \in {room.users[u], None}
      PROVE  PresenceIsSwept'
  <2>1. room'.users = r.users
    BY <1>8, PersistKeeps
  <2>2. \A b \in Activations : b # a => task'[b] = task[b]
    BY <1>8 DEF Persist, TypeOK
  <2> QED
    BY <1>8, <2>1, <2>2, SweptKept
<1>9. ASSUME NEW a \in Activations, Timers(a) PROVE PresenceIsSwept'
  <2>1. UNCHANGED <<conn, faults>>
    BY <1>9 DEF Timers, TimerFires, StrayTimerFires
  <2>2. CASE room = None
    BY <1>9, <2>1, <2>2, SweptKept DEF Timers, TimerFires, StrayTimerFires, Armed
  <2>3. CASE room # None
    <3>1. Persist(a, None, room, "timer", FALSE) /\ ~task[a].todo /\ room \in ActiveRoom
      BY <1>9, <2>3 DEF Timers, TimerFires, StrayTimerFires, Free, TypeOK, TaskOK
    <3> QED
      BY <1>8, <2>1, <2>3, <3>1
  <2> QED
    BY <2>2, <2>3
<1>10. ASSUME NEW a \in Activations, UpdateDocument(a) \/ UpdateFails(a) PROVE PresenceIsSwept'
  <2>1. UNCHANGED <<conn, room>> /\ faults \subseteq faults' /\ task[a].pc = "write"
    BY <1>10 DEF UpdateDocument, UpdateFails
  <2>2. \A b \in Activations : b # a => task'[b] = task[b]
    BY <1>10 DEF UpdateDocument, UpdateFails, TypeOK
  <2>3. task[a].todo => /\ task'[a].pc # "idle" /\ task'[a].todo
                        /\ task'[a].sock = task[a].sock
    <3>1. task'[a] = Returned(a)
      BY <1>10 DEF UpdateDocument, UpdateFails, TypeOK
    <3>2. task[a].todo => task[a].after # "timer"
      BY DEF TypeOK, TaskOK
    <3> QED
      BY <3>1, <3>2 DEF Returned, TypeOK, Task
  <2> QED
    BY <2>1, <2>2, <2>3, SweptKept
<1>11. ASSUME NEW a \in Activations, RemoveRoom(a) PROVE PresenceIsSwept'
  BY <1>11 DEF RemoveRoom, PresenceIsSwept
<1>12. ASSUME NEW s \in Sockets, RoomLeave(s) PROVE PresenceIsSwept'
  <2>1. userOf[s] \in Users
    OBVIOUS
  <2>2. room' # None => room # None /\ \A u \in Users : room'.users[u] \in {room.users[u], None}
    BY <1>12, <2>1, WithoutKeeps DEF RoomLeave
  <2> QED
    BY <1>12, <2>2, SweptKept DEF RoomLeave
<1>13. ASSUME NEW s \in Sockets, NEW a \in Activations, RoomLeaveLast(s, a) PROVE PresenceIsSwept'
  <2>1. userOf[s] \in Users /\ room # None /\ ~task[a].todo /\ UNCHANGED <<conn, faults>>
    BY <1>13 DEF RoomLeaveLast, Free, TypeOK, TaskOK
  <2>2. Persist(a, s, Without(userOf[s]), "leave", FALSE)
    BY <1>13 DEF RoomLeaveLast
  <2> QED
    BY <1>8, <2>1, <2>2, WithoutType, WithoutKeeps
<1>14. ASSUME NEW s \in Sockets, NEW a \in Activations, Disconnect(s, a) PROVE PresenceIsSwept'
  <2> SUFFICES ASSUME "lateJoin" \notin faults', room' # None, NEW t \in Sockets,
                      room'.users[userOf[t]] = t, conn'[t] = "closed"
               PROVE  \E b \in Activations : /\ task'[b].pc # "idle" /\ task'[b].todo
                                             /\ userOf[task'[b].sock] = userOf[t]
    BY DEF PresenceIsSwept
  <2>1. UNCHANGED <<room, faults>> /\ task[a].pc = "idle"
    BY <1>14 DEF Disconnect, Free
  <2>2. task'[a].pc = "sweep" /\ task'[a].todo /\ task'[a].sock = s
    BY <1>14, <2>1 DEF Disconnect, LoopMeets, Idle, TypeOK
  <2>3. CASE t = s
    BY <2>2, <2>3
  <2>4. CASE t # s
    <3>1. conn[t] = "closed"
      BY <1>14, <2>4 DEF Disconnect, TypeOK
    <3>2. PICK b \in Activations : task[b].pc # "idle" /\ task[b].todo /\ userOf[task[b].sock] = userOf[t]
      BY <2>1, <3>1 DEF PresenceIsSwept
    <3>3. task'[b] = task[b]
      BY <1>14, <2>1, <3>2 DEF Disconnect, TypeOK
    <3> QED
      BY <3>2, <3>3
  <2> QED
    BY <2>3, <2>4
<1>15. ASSUME NEW a \in Activations, SweepRoom(a) PROVE PresenceIsSwept'
  <2> DEFINE u == userOf[task[a].sock]
  <2>1. u \in Users /\ room # None /\ UNCHANGED <<conn, faults>>
    BY <1>15 DEF SweepRoom, TypeOK, TaskOK, Task
  <2>2. Without(u) \in ActiveRoom
    BY <2>1, WithoutType
  <2>3. /\ room'.users = Without(u).users
        /\ \A b \in Activations : b # a => task'[b] = task[b]
    <3>1. CASE Persist(a, task[a].sock, Without(u), "sweep", FALSE)
      BY <2>2, <3>1, PersistKeeps DEF Persist, TypeOK
    <3>2. CASE room' = Without(u) /\ task' = [task EXCEPT ![a].todo = FALSE]
      BY <3>2 DEF TypeOK
    <3> QED
      BY <1>15, <3>1, <3>2 DEF SweepRoom
  <2>4. \A v \in Users : Without(u).users[v] = IF v = u THEN None ELSE room.users[v]
    BY <2>1 DEF Without, TypeOK, ActiveRoom
  <2> SUFFICES ASSUME "lateJoin" \notin faults, NEW t \in Sockets,
                      room'.users[userOf[t]] = t, conn[t] = "closed"
               PROVE  \E b \in Activations : /\ task'[b].pc # "idle" /\ task'[b].todo
                                             /\ userOf[task'[b].sock] = userOf[t]
    BY <2>1 DEF PresenceIsSwept
  <2>5. userOf[t] \in Users /\ userOf[t] # u /\ room.users[userOf[t]] = t
    BY <2>3, <2>4
  <2>6. PICK b \in Activations : task[b].pc # "idle" /\ task[b].todo /\ userOf[task[b].sock] = userOf[t]
    BY <2>1, <2>5 DEF PresenceIsSwept
  <2> QED
    BY <2>3, <2>5, <2>6
<1>16. CASE \/ \E u \in Users : AddMember(u) \/ RemoveMember(u)
            \/ DeleteRoom \/ UNCHANGED vars
  BY <1>16, SweptKept DEF AddMember, RemoveMember, DeleteRoom, vars
<1>17. CASE Crash
  BY <1>17 DEF Crash, PresenceIsSwept
<1> QED
  BY <1>1, <1>2, <1>3, <1>4, <1>5, <1>6, <1>7, <1>9, <1>10, <1>11, <1>12, <1>13, <1>14, <1>15,
     <1>16, <1>17
  DEF Next, Client, Proceed

\* As long as no join has finished after its socket had closed, every closed
\* participant is swept by a loop that is still running.
THEOREM PresenceSwept == Spec => []PresenceIsSwept
<1>1. Init => TypeOK /\ PresenceIsSwept
  BY TypeInit DEF Init, PresenceIsSwept
<1>2. TypeOK /\ PresenceIsSwept /\ [Next]_vars => (TypeOK /\ PresenceIsSwept)'
  BY TypeNext, SweptNext
<1> QED
  BY <1>1, <1>2, PTL DEF Spec

-----------------------------------------------------------------------------
(* The row of the document *)

\* The writes on their way stay the same while no activation starts or ends one.
LEMMA WritingKept ==
  ASSUME \A b \in Activations : /\ task'[b].pc = "write" <=> task[b].pc = "write"
                                /\ task[b].pc = "write" => task'[b].snap = task[b].snap
  PROVE  Writing' = Writing
BY DEF Writing

\* A step that touches neither the row, the last edit, the timer nor a write.
LEMMA DurableQuiet ==
  ASSUME UNCHANGED <<doc, latest, exists>>, Armed' = Armed, Writing' = Writing, Lost' = Lost
  PROVE  UNCHANGED Durable!vars
BY DEF Durable!vars, Stored

\* Starting to persist the last edit is a Capture.
LEMMA DurableCapture ==
  ASSUME TypeOK, NEW a \in Activations, NEW s, NEW r \in ActiveRoom, NEW after, NEW todo,
         Persist(a, s, r, after, todo), task[a].pc # "write", State(r) = latest,
         UNCHANGED <<doc, latest>>
  PROVE  Durable!Capture
<1>1. /\ task'[a].pc = "write" /\ task'[a].snap = latest
      /\ \A b \in Activations : b # a => task'[b] = task[b]
  BY DEF Persist, TypeOK
<1>2. Writing' = Writing \cup {latest}
  <2>1. ASSUME NEW d \in Writing'
        PROVE  d \in Writing \cup {latest}
    <3>1. PICK b \in Activations : task'[b].pc = "write" /\ d = task'[b].snap
      BY <2>1 DEF Writing
    <3> QED  BY <1>1, <3>1 DEF Writing
  <2>2. ASSUME NEW d \in Writing
        PROVE  d \in Writing'
    <3>1. PICK b \in Activations : task[b].pc = "write" /\ d = task[b].snap
      BY <2>2 DEF Writing
    <3>2. b # a
      BY <3>1
    <3> QED  BY <1>1, <3>1, <3>2 DEF Writing
  <2>3. latest \in Writing'
    BY <1>1 DEF Writing
  <2> QED  BY <2>1, <2>2, <2>3
<1>3. Armed' = FALSE
  BY DEF Persist, Armed, ActiveRoom
<1> QED
  BY <1>2, <1>3 DEF Durable!Capture, Stored

\* The write of an activation that is not flagged as reordered is a Commit.
LEMMA DurableCommit ==
  ASSUME TypeOK, NEW a \in Activations, UpdateDocument(a), ~Lost'
  PROVE  \E d \in Writing : Durable!Commit(d)
<1> DEFINE d == task[a].snap
<1>1. /\ task[a].pc = "write" /\ doc # None /\ doc' = d /\ d \in Snapshot /\ doc \in Snapshot
      /\ UNCHANGED <<latest, room>> /\ d # None
  BY DEF UpdateDocument, TypeOK, TaskOK, Task
<1>2. d \in Writing
  BY <1>1 DEF Writing
<1>3. doc.ver <= d.ver
  <2>1. ~(d.ver < doc.ver)
    BY DEF UpdateDocument, Lost, Losses
  <2> QED  BY <1>1, <2>1 DEF Snapshot
<1>4. /\ task'[a].pc # "write"
      /\ \A b \in Activations : b # a => task'[b] = task[b]
  BY DEF UpdateDocument, Returned, Idle, TypeOK, Task
<1>5. Writing' \in {Writing, Writing \ {d}}
  <2>1. Writing' = {task[b].snap : b \in {c \in Activations \ {a} : task[c].pc = "write"}}
    BY <1>4 DEF Writing
  <2>2. CASE \E b \in Activations \ {a} : task[b].pc = "write" /\ task[b].snap = d
    <3>1. Writing' = Writing
      BY <2>1, <2>2 DEF Writing
    <3> QED  BY <3>1
  <2>3. CASE ~\E b \in Activations \ {a} : task[b].pc = "write" /\ task[b].snap = d
    <3>1. Writing' = Writing \ {d}
      BY <2>1, <2>3 DEF Writing
    <3> QED  BY <3>1
  <2> QED  BY <2>2, <2>3
<1>6. Armed' = Armed
  BY <1>1 DEF Armed
<1>7. Stored = doc /\ Stored' = d
  BY <1>1 DEF Stored
<1> QED
  BY <1>1, <1>2, <1>3, <1>5, <1>6, <1>7 DEF Durable!Commit

\* While nothing is lost an edit succeeds the last accepted one.
LEMMA EditSucceeds ==
  ASSUME TypeOK, EditsInv, ~Lost, NEW s \in Sockets, NEW x \in Texts, Edit(s, x)
  PROVE  latest' = [ver |-> latest.ver + 1, text |-> x]
<1>1. room \in ActiveRoom /\ State(room) = latest
  BY DEF Edit, CanEdit, EditsInv, EditsAreKept, TypeOK
<1>2. State(Apply(room, x)) = [ver |-> room.ver + 1, text |-> x]
  BY <1>1 DEF State, Apply, ActiveRoom
<1>3. room.ver = latest.ver
  BY <1>1 DEF State
<1> QED
  BY <1>2, <1>3 DEF Edit

\* A loss is not forgotten, and a room that has been deleted stays deleted.
LEMMA BrokenStays == [Next]_vars => faults \subseteq faults' /\ (exists' => exists)
<1> SUFFICES ASSUME [Next]_vars PROVE faults \subseteq faults' /\ (exists' => exists)
  OBVIOUS
<1>1. ASSUME NEW s \in Sockets, Client(s)
      PROVE  faults \subseteq faults' /\ (exists' => exists)
  <2>1. CASE Connect(s) \/ Resync(s) \/ RoomLeave(s) \/ ForceLeave(s)
    BY <2>1 DEF Connect, Resync, RoomLeave, ForceLeave, rows
  <2>2. ASSUME NEW a \in Activations, RoomJoin(s, a) \/ RoomLeaveLast(s, a) \/ Disconnect(s, a)
        PROVE  faults \subseteq faults' /\ (exists' => exists)
    <3>1. UNCHANGED <<rows, faults>>
      BY <2>2, Zenon DEF RoomJoin, RoomLeaveLast, Disconnect
    <3> QED  BY <3>1 DEF rows
  <2>3. ASSUME NEW x \in Texts, Edit(s, x)
        PROVE  faults \subseteq faults' /\ (exists' => exists)
    BY <2>3 DEF Edit, rows
  <2> QED  BY <1>1, <2>1, <2>2, <2>3 DEF Client
<1>2. ASSUME NEW a \in Activations, Timers(a) \/ JoinFails(a)
      PROVE  faults \subseteq faults' /\ (exists' => exists)
  <2>1. CASE TimerFires(a)
    BY <2>1 DEF TimerFires, rows
  <2>2. CASE StrayTimerFires(a)
    BY <2>2 DEF StrayTimerFires, rows
  <2>3. CASE JoinFails(a)
    BY <2>3 DEF JoinFails, rows
  <2> QED  BY <1>2, <2>1, <2>2, <2>3 DEF Timers
<1>3. ASSUME NEW a \in Activations, Proceed(a)
      PROVE  faults \subseteq faults' /\ (exists' => exists)
  <2>1. CASE ValidateMembership(a) \/ JoinLoaded(a) \/ JoinUnloaded(a) \/ FindDocument(a)
    BY <2>1 DEF ValidateMembership, JoinLoaded, JoinUnloaded, FindDocument, rows
  <2>2. CASE CreateDocument(a) \/ InstallRoom(a)
    BY <2>2 DEF CreateDocument, InstallRoom, rows
  <2>3. CASE UpdateDocument(a) \/ UpdateFails(a)
    BY <2>3 DEF UpdateDocument, UpdateFails, rows
  <2>4. CASE RemoveRoom(a)
    BY <2>4 DEF RemoveRoom, rows
  <2>5. CASE SweepRoom(a) \/ SweepDone(a)
    <3>1. UNCHANGED <<rows, faults>>
      BY <2>5, Zenon DEF SweepRoom, SweepDone
    <3> QED  BY <3>1 DEF rows
  <2> QED  BY <1>3, <2>1, <2>2, <2>3, <2>4, <2>5 DEF Proceed
<1>4. CASE \/ \E u \in Users : AddMember(u) \/ RemoveMember(u)
           \/ DeleteRoom \/ Crash \/ UNCHANGED vars
  BY <1>4 DEF AddMember, RemoveMember, DeleteRoom, Crash, vars, rows
<1> QED  BY <1>1, <1>2, <1>3, <1>4 DEF Next

\* Until the promise is broken every step is one of DurableDocument, or touches
\* nothing that it speaks of.
LEMMA DurableStep ==
  ASSUME TypeOK, EditsInv, [Next]_vars, ~Lost, ~Lost', exists, exists'
  PROVE  Durable!Kept \/ UNCHANGED Durable!vars
<1>0. /\ room # None => State(room) = latest /\ room \in ActiveRoom
      /\ Lost' = Lost /\ exists' = exists
  <2>1. room # None => State(room) = latest /\ room \in ActiveRoom
    BY DEF EditsInv, EditsAreKept, TypeOK
  <2>2. Lost' = Lost
    BY DEF Lost
  <2>3. exists' = exists
    BY TypeNext DEF TypeOK
  <2> QED  BY <2>1, <2>2, <2>3
<1>1. ASSUME \/ \E x \in Texts : Durable!Accept(x)
             \/ Durable!Capture
             \/ \E d \in Writing : Durable!Commit(d)
             \/ Durable!Settle
      PROVE  Durable!Kept
  BY <1>1 DEF Durable!Kept
<1>2. ASSUME NEW a \in Activations,
             \/ ValidateMembership(a) \/ JoinUnloaded(a) \/ FindDocument(a) \/ CreateDocument(a)
             \/ SweepDone(a) \/ JoinFails(a)
      PROVE  UNCHANGED Durable!vars
  <2>1. UNCHANGED <<room, latest>> /\ Stored' = Stored
    BY <1>2 DEF ValidateMembership, JoinUnloaded, FindDocument, CreateDocument, SweepDone, JoinFails,
                rows, Stored
  <2>2. /\ task[a].pc # "write" /\ task'[a].pc # "write"
        /\ \A b \in Activations : b # a => task'[b] = task[b]
    <3>1. CASE ValidateMembership(a) \/ JoinUnloaded(a)
      BY <3>1 DEF ValidateMembership, JoinUnloaded, Idle, TypeOK, Task
    <3>4. CASE FindDocument(a)
      BY <3>4 DEF FindDocument, TypeOK, Task
    <3>2. CASE CreateDocument(a)
      BY <3>2 DEF CreateDocument, Idle, TypeOK, Task
    <3>3. CASE SweepDone(a) \/ JoinFails(a)
      BY <3>3 DEF SweepDone, JoinFails, Idle, TypeOK, Task
    <3> QED  BY <1>2, <3>1, <3>2, <3>3, <3>4
  <2>3. Writing' = Writing
    BY <2>2, WritingKept
  <2> QED  BY <1>0, <2>1, <2>3 DEF Durable!vars, Armed
<1>3. ASSUME NEW s \in Sockets,
             \/ Connect(s) \/ ForceLeave(s) \/ Resync(s) \/ RoomLeave(s)
             \/ \E a \in Activations : RoomJoin(s, a) \/ Disconnect(s, a)
      PROVE  UNCHANGED Durable!vars
  <2>1. UNCHANGED <<doc, latest>>
    BY <1>3 DEF Connect, ForceLeave, Resync, RoomLeave, RoomJoin, Disconnect, rows
  <2>2. \A b \in Activations : \/ task'[b] = task[b]
                               \/ task[b].pc # "write" /\ task'[b].pc # "write"
    <3>1. CASE Connect(s) \/ ForceLeave(s) \/ Resync(s) \/ RoomLeave(s)
      BY <3>1 DEF Connect, ForceLeave, Resync, RoomLeave
    <3>2. ASSUME NEW a \in Activations, RoomJoin(s, a) \/ Disconnect(s, a)
          PROVE  /\ task[a].pc # "write" /\ task'[a].pc # "write"
                 /\ \A b \in Activations : b # a => task'[b] = task[b]
      <4>1. CASE RoomJoin(s, a)
        BY <4>1 DEF RoomJoin, Free, Idle, TypeOK
      <4>2. CASE Disconnect(s, a)
        BY <4>2 DEF Disconnect, Free, Idle, TypeOK
      <4> QED  BY <3>2, <4>1, <4>2
    <3> QED  BY <1>3, <3>1, <3>2
  <2>3. Armed' = Armed
    <3>1. CASE UNCHANGED room
      BY <3>1 DEF Armed
    <3>2. CASE room # None /\ room' = Without(userOf[s])
      <4>1. Without(userOf[s]) # None /\ Without(userOf[s]).armed = room.armed
        BY <1>0, <3>2, WithoutKeeps DEF Without, ActiveRoom
      <4> QED  BY <3>2, <4>1 DEF Armed
    <3> QED
      BY <1>3, <3>1, <3>2 DEF Connect, ForceLeave, Resync, RoomLeave, RoomJoin, Disconnect
  <2>4. Writing' = Writing
    BY <2>2, WritingKept
  <2> QED  BY <1>0, <2>1, <2>3, <2>4, DurableQuiet
<1>4. ASSUME NEW a \in Activations, JoinLoaded(a)
      PROVE  UNCHANGED Durable!vars
  <2>1. UNCHANGED <<doc, latest>> /\ room # None /\ task[a].pc = "member"
    BY <1>4 DEF JoinLoaded, rows
  <2>2. room' \in ActiveRoom /\ room'.armed = room.armed
    <3>1. task[a].sock \in Sockets
      BY <2>1 DEF TypeOK, TaskOK, Task
    <3> QED  BY <1>0, <1>4, <2>1, <3>1 DEF JoinLoaded, Enter, ActiveRoom
  <2>3. Armed' = Armed
    <3>1. room' # None
      BY <2>2
    <3> QED  BY <2>1, <2>2, <3>1 DEF Armed
  <2>4. \A b \in Activations : \/ task'[b] = task[b]
                               \/ task[b].pc # "write" /\ task'[b].pc # "write"
    BY <1>4 DEF JoinLoaded, Idle, TypeOK
  <2>5. Writing' = Writing
    BY <2>4, WritingKept
  <2> QED  BY <1>0, <2>1, <2>3, <2>5, DurableQuiet
<1>5. ASSUME NEW a \in Activations, InstallRoom(a)
      PROVE  Durable!Settle
  <2>1. UNCHANGED <<doc, latest>> /\ task[a].pc = "loaded" /\ task[a].snap = latest
    BY <1>5 DEF InstallRoom, rows, Lost, Losses
  <2>2. Stored = latest /\ Stored' = latest
    BY <2>1 DEF EditsInv, LoadsAreCurrent, Stored
  <2>3. Armed' = FALSE
    <3> DEFINE r == [ver |-> task[a].snap.ver, text |-> task[a].snap.text,
                     users |-> [u \in Users |-> None], armed |-> FALSE]
    <3>1. task[a].sock \in Sockets /\ task[a].snap \in Snapshot
      BY <2>1 DEF TypeOK, TaskOK, Task
    <3>2. r \in ActiveRoom /\ r.armed = FALSE
      BY <3>1 DEF ActiveRoom, Snapshot
    <3>3. Enter(task[a].sock, r)
      BY <1>5 DEF InstallRoom
    <3> HIDE DEF r
    <3> QED  BY <3>1, <3>2, <3>3 DEF Enter, ActiveRoom, Armed
  <2>4. \A b \in Activations : \/ task'[b].pc = task[b].pc /\ task'[b].snap = task[b].snap
                               \/ task[b].pc # "write" /\ task'[b].pc # "write"
    BY <1>5, <2>1 DEF InstallRoom, Insert, Idle, TypeOK, Task
  <2>5. Writing' = Writing
    BY <2>4, WritingKept
  <2> QED  BY <2>1, <2>2, <2>3, <2>5 DEF Durable!Settle
<1>6. ASSUME NEW s \in Sockets, NEW x \in Texts, Edit(s, x)
      PROVE  Durable!Accept(x)
  <2>1. UNCHANGED <<doc, task>> /\ room # None
    BY <1>6 DEF Edit, CanEdit, rows
  <2>2. latest' = [ver |-> latest.ver + 1, text |-> x]
    BY <1>6, EditSucceeds
  <2>3. Armed' = TRUE
    <3>1. room' \in ActiveRoom /\ room'.armed = TRUE
      <4>1. room' = [[room EXCEPT !.ver = room.ver + 1, !.text = x] EXCEPT !.armed = TRUE]
        BY <1>6 DEF Edit, Schedule, Apply
      <4>2. room.ver + 1 \in Nat
        BY <1>0, <2>1 DEF ActiveRoom
      <4>3. ASSUME NEW n \in Nat
            PROVE  /\ [[room EXCEPT !.ver = n, !.text = x] EXCEPT !.armed = TRUE] \in ActiveRoom
                   /\ [[room EXCEPT !.ver = n, !.text = x] EXCEPT !.armed = TRUE].armed = TRUE
        BY <1>0, <2>1 DEF ActiveRoom
      <4> QED  BY <4>1, <4>2, <4>3
    <3>2. room' # None
      BY <3>1
    <3> QED  BY <3>1, <3>2 DEF Armed
  <2>4. Writing' = Writing /\ Stored' = Stored
    BY <2>1 DEF Writing, Stored
  <2> QED  BY <2>2, <2>3, <2>4 DEF Durable!Accept
<1>7. ASSUME NEW a \in Activations, Timers(a)
      PROVE  Durable!Capture \/ UNCHANGED Durable!vars
  <2>1. UNCHANGED <<doc, latest>>
    BY <1>7 DEF Timers, TimerFires, StrayTimerFires, rows
  <2>2. CASE room = None
    <3>1. UNCHANGED <<room, task>>
      BY <1>7, <2>2 DEF Timers, TimerFires, StrayTimerFires, Armed
    <3> QED  BY <1>0, <2>1, <3>1 DEF Durable!vars, Armed, Writing, Stored
  <2>3. CASE room # None
    <3>1. Persist(a, None, room, "timer", FALSE) /\ task[a].pc # "write"
      BY <1>7, <2>3 DEF Timers, TimerFires, StrayTimerFires, Free
    <3> QED  BY <1>0, <2>1, <2>3, <3>1, DurableCapture
  <2> QED  BY <2>2, <2>3
<1>8. ASSUME NEW s \in Sockets, NEW a \in Activations, RoomLeaveLast(s, a)
      PROVE  Durable!Capture
  <2>1. UNCHANGED <<doc, latest>> /\ room # None /\ task[a].pc # "write"
    BY <1>8 DEF RoomLeaveLast, rows, Free
  <2>2. Persist(a, s, Without(userOf[s]), "leave", FALSE)
    BY <1>8 DEF RoomLeaveLast
  <2>3. Without(userOf[s]) \in ActiveRoom /\ State(Without(userOf[s])) = latest
    BY <1>0, <2>1, WithoutType, WithoutKeeps
  <2> QED  BY <2>1, <2>2, <2>3, DurableCapture
<1>9. ASSUME NEW a \in Activations, SweepRoom(a)
      PROVE  Durable!Capture \/ UNCHANGED Durable!vars
  <2> DEFINE r == Without(userOf[task[a].sock])
  <2>1. UNCHANGED <<doc, latest>> /\ room # None /\ task[a].pc = "sweep"
    BY <1>9 DEF SweepRoom, rows
  <2>2. userOf[task[a].sock] \in Users
    BY <2>1 DEF TypeOK, TaskOK, Task
  <2>3. r \in ActiveRoom /\ State(r) = latest /\ r # None /\ r.armed = room.armed
    BY <1>0, <2>1, <2>2, WithoutType, WithoutKeeps DEF Without, ActiveRoom
  <2>4. CASE Persist(a, task[a].sock, r, "sweep", FALSE)
    <3> HIDE DEF r
    <3> QED  BY <2>1, <2>3, <2>4, DurableCapture
  <2>5. CASE room' = r /\ task' = [task EXCEPT ![a].todo = FALSE]
    <3>1. \A b \in Activations : task'[b].pc = task[b].pc /\ task'[b].snap = task[b].snap
      BY <2>5 DEF TypeOK, Task
    <3>2. Writing' = Writing
      BY <3>1, WritingKept
    <3>3. Armed' = Armed
      BY <2>1, <2>3, <2>5 DEF Armed
    <3> QED  BY <1>0, <2>1, <3>2, <3>3, DurableQuiet
  <2> QED  BY <1>9, <2>4, <2>5 DEF SweepRoom
<1>10. ASSUME NEW a \in Activations, RemoveRoom(a)
       PROVE  UNCHANGED Durable!vars
  <2>1. UNCHANGED <<doc, latest>> /\ room' = None /\ task[a].pc = "written" /\ ~Armed
    BY <1>10 DEF RemoveRoom, rows, Lost, Losses
  <2>2. \A b \in Activations : \/ task'[b].pc = task[b].pc /\ task'[b].snap = task[b].snap
                               \/ task[b].pc # "write" /\ task'[b].pc # "write"
    BY <1>10, <2>1 DEF RemoveRoom, Idle, TypeOK, Task
  <2>3. Writing' = Writing
    BY <2>2, WritingKept
  <2>4. Armed' = Armed
    BY <2>1 DEF Armed
  <2> QED  BY <1>0, <2>1, <2>3, <2>4, DurableQuiet
<1>11. ASSUME Crash
       PROVE  Durable!Settle
  <2>1. UNCHANGED <<doc, latest>> /\ room' = None /\ Stored = latest
    BY <1>11 DEF Crash, rows, Lost, Losses
  <2>2. Writing' = {}
    BY <1>11 DEF Crash, Writing, Idle
  <2> QED  BY <2>1, <2>2 DEF Durable!Settle, Armed, Stored
<1>12. CASE (\E u \in Users : AddMember(u) \/ RemoveMember(u)) \/ UNCHANGED vars
  BY <1>0, <1>12 DEF AddMember, RemoveMember, vars, Durable!vars, Stored, Armed, Writing
<1>13. ~DeleteRoom /\ \A a \in Activations : ~UpdateFails(a)
  BY DEF DeleteRoom, UpdateFails, Lost, Losses
<1> QED
  BY <1>1, <1>2, <1>3, <1>4, <1>5, <1>6, <1>7, <1>8, <1>9, <1>10, <1>11, <1>12, <1>13, DurableCommit
  DEF Next, Client, Proceed

\* The timers and writes of a room implement DurableDocument: until one of the
\* five losses or the deletion of the room, an accepted edit is in the row, in a
\* write or due, and a write carries the last edit of the moment it starts.
THEOREM DocumentIsDurable == Spec => RefinesDurable
<1>1. Init => Durable!Init
  <2> SUFFICES ASSUME Init PROVE Durable!Init
    OBVIOUS
  <2>1. Stored \in Snapshot
    BY SmallTypes DEF Init, Stored
  <2> QED  BY <2>1 DEF Init, Durable!Init, Durable!Document, Snapshot, Armed, Writing, Idle, Lost
<1>2. TypeOK /\ EditsInv /\ [Next]_vars => [Durable!Next]_(Durable!vars)
  <2> SUFFICES ASSUME TypeOK, EditsInv, [Next]_vars, ~(Lost' \/ ~exists')
               PROVE  [Durable!Next]_(Durable!vars)
    BY DEF Durable!Next
  <2>1. ~Lost /\ exists
    BY BrokenStays DEF Lost
  <2> QED  BY <2>1, DurableStep DEF Durable!Next
<1>3. TypeOK /\ EditsInv /\ [Next]_vars => (TypeOK /\ EditsInv)'
  BY TypeNext, EditsNext
<1>4. Init => TypeOK /\ EditsInv
  BY TypeInit, EditsInit
<1> QED
  BY <1>1, <1>2, <1>3, <1>4, PTL DEF Spec, RefinesDurable, Durable!Spec

\* And so the row of a room never goes back to an older document, however many
\* writes are on their way, until one of the losses or the deletion.
THEOREM StoredGoesForward == Spec => Durable!RowGoesForward
  BY DocumentIsDurable, Durable!RowIsMonotonic, PTL DEF RefinesDurable

-----------------------------------------------------------------------------
(* Clients go forward *)

\* While nothing is lost, what a client is sent is the last accepted edit.
LEMMA SentIsLatest ==
  ASSUME TypeOK, EditsInv, [Next]_vars, ~Lost, ~Lost', NEW t \in Sockets
  PROVE  channel'[t] \in {channel[t], None, latest'}
<1>0. room # None => State(room) = latest /\ room \in ActiveRoom
  BY DEF EditsInv, EditsAreKept, TypeOK
<1>1. ASSUME NEW a \in Activations, JoinLoaded(a)
      PROVE  channel'[t] \in {channel[t], None, latest'}
  <2>1. task[a].sock \in Sockets
    BY <1>1 DEF JoinLoaded, TypeOK, TaskOK, Task
  <2> QED  BY <1>0, <1>1, <2>1 DEF JoinLoaded, Enter, TypeOK
<1>2. ASSUME NEW a \in Activations, InstallRoom(a)
      PROVE  channel'[t] \in {channel[t], None, latest'}
  <2> DEFINE r == [ver |-> task[a].snap.ver, text |-> task[a].snap.text,
                   users |-> [u \in Users |-> None], armed |-> FALSE]
  <2>1. task[a].sock \in Sockets /\ task[a].snap \in Snapshot
    BY <1>2 DEF InstallRoom, TypeOK, TaskOK, Task
  <2>2. State(r) = task[a].snap /\ task[a].snap = latest /\ latest' = latest
    BY <1>2, <2>1 DEF InstallRoom, Lost, Losses, State, Snapshot
  <2>3. Enter(task[a].sock, r)
    BY <1>2 DEF InstallRoom
  <2> HIDE DEF r
  <2> QED  BY <2>1, <2>2, <2>3 DEF Enter, TypeOK
<1>3. ASSUME NEW s \in Sockets, NEW x \in Texts, Edit(s, x)
      PROVE  channel'[t] \in {channel[t], None, latest'}
  BY <1>3 DEF Edit, Broadcast
<1>4. ASSUME NEW s \in Sockets, Resync(s)
      PROVE  channel'[t] \in {channel[t], None, latest'}
  BY <1>0, <1>4 DEF Resync, CanEdit, TypeOK
<1>5. ASSUME NEW a \in Activations, RemoveRoom(a)
      PROVE  channel'[t] \in {channel[t], None, latest'}
  BY <1>5 DEF RemoveRoom, TypeOK
<1>6. ASSUME NEW s \in Sockets,
             \/ Connect(s) \/ RoomLeave(s) \/ ForceLeave(s)
             \/ \E a \in Activations : RoomJoin(s, a) \/ RoomLeaveLast(s, a) \/ Disconnect(s, a)
      PROVE  channel'[t] \in {channel[t], None, latest'}
  BY <1>6 DEF Connect, RoomLeave, ForceLeave, RoomJoin, RoomLeaveLast, Disconnect, TypeOK
<1>7. CASE UNCHANGED channel
  BY <1>7
<1>8. ASSUME NEW a \in Activations,
             \/ ValidateMembership(a) \/ JoinUnloaded(a) \/ FindDocument(a) \/ CreateDocument(a)
             \/ UpdateDocument(a) \/ UpdateFails(a) \/ SweepRoom(a) \/ SweepDone(a)
             \/ Timers(a) \/ JoinFails(a)
      PROVE  UNCHANGED channel
  <2>1. CASE ValidateMembership(a) \/ JoinUnloaded(a) \/ FindDocument(a) \/ CreateDocument(a) \/ JoinFails(a)
    BY <2>1, Zenon DEF ValidateMembership, JoinUnloaded, FindDocument, CreateDocument, JoinFails
  <2>2. CASE UpdateDocument(a) \/ UpdateFails(a) \/ SweepRoom(a) \/ SweepDone(a) \/ Timers(a)
    BY <2>2, Zenon DEF UpdateDocument, UpdateFails, SweepRoom, SweepDone, Timers, TimerFires, StrayTimerFires
  <2> QED  BY <1>8, <2>1, <2>2
<1>9. CASE \/ \E u \in Users : AddMember(u) \/ RemoveMember(u)
           \/ DeleteRoom \/ Crash \/ UNCHANGED vars
  BY <1>9 DEF AddMember, RemoveMember, DeleteRoom, Crash, vars
<1> QED
  BY <1>1, <1>2, <1>3, <1>4, <1>5, <1>6, <1>7, <1>8, <1>9 DEF Next, Client, Proceed

\* A step goes on from the last accepted edit, or makes the next one.
LEMMA LatestGrows ==
  ASSUME TypeOK, EditsInv, [Next]_vars, ~Lost
  PROVE  latest.ver <= latest'.ver
<1>0. latest.ver \in Nat
  BY DEF TypeOK, Snapshot
<1>1. ASSUME NEW s \in Sockets, NEW x \in Texts, Edit(s, x)
      PROVE  latest.ver <= latest'.ver
  <2>1. latest'.ver = latest.ver + 1
    BY <1>1, EditSucceeds
  <2> QED  BY <1>0, <2>1
<1>2. CASE UNCHANGED latest
  BY <1>0, <1>2
<1>3. ASSUME NEW s \in Sockets,
             \/ Connect(s) \/ RoomLeave(s) \/ ForceLeave(s) \/ Resync(s)
             \/ \E a \in Activations : RoomJoin(s, a) \/ RoomLeaveLast(s, a) \/ Disconnect(s, a)
      PROVE  UNCHANGED latest
  BY <1>3, Zenon DEF Connect, RoomLeave, ForceLeave, Resync, RoomJoin, RoomLeaveLast, Disconnect
<1>4. ASSUME NEW a \in Activations, Proceed(a) \/ Timers(a) \/ JoinFails(a)
      PROVE  UNCHANGED latest
  <2>1. CASE ValidateMembership(a) \/ JoinUnloaded(a) \/ FindDocument(a) \/ CreateDocument(a) \/ JoinFails(a)
    BY <2>1, Zenon DEF ValidateMembership, JoinUnloaded, FindDocument, CreateDocument, JoinFails
  <2>2. CASE UpdateDocument(a) \/ UpdateFails(a) \/ SweepRoom(a) \/ SweepDone(a) \/ Timers(a)
    BY <2>2, Zenon DEF UpdateDocument, UpdateFails, SweepRoom, SweepDone, Timers, TimerFires, StrayTimerFires
  <2>3. CASE JoinLoaded(a) \/ InstallRoom(a) \/ RemoveRoom(a)
    BY <2>3, Zenon DEF JoinLoaded, InstallRoom, RemoveRoom
  <2> QED  BY <1>4, <2>1, <2>2, <2>3 DEF Proceed
<1>5. CASE \/ \E u \in Users : AddMember(u) \/ RemoveMember(u)
           \/ DeleteRoom \/ Crash \/ UNCHANGED vars
  BY <1>2, <1>5 DEF AddMember, RemoveMember, DeleteRoom, Crash, vars
<1> QED
  BY <1>1, <1>2, <1>3, <1>4, <1>5 DEF Next, Client

\* Until one of the five losses happens no client that stays in the channel is
\* sent an older document than it holds.
THEOREM ClientsNeverGoBack == Spec => ClientsGoForward
<1> DEFINE Forward == ~Lost' => \A s \in Sockets : channel[s] # None /\ channel'[s] # None
                                                    => channel[s].ver <= channel'[s].ver
<1>1. TypeOK /\ EditsInv /\ [Next]_vars => [Forward]_vars
  <2> SUFFICES ASSUME TypeOK, EditsInv, [Next]_vars, ~Lost', NEW s \in Sockets,
                      channel[s] # None, channel'[s] # None
               PROVE  channel[s].ver <= channel'[s].ver
    OBVIOUS
  <2>1. ~Lost
    BY BrokenStays DEF Lost
  <2>2. channel[s].ver \in Nat /\ channel[s].ver <= latest.ver /\ latest.ver \in Nat
    BY <2>1 DEF EditsInv, VersionNamesLatest, NotAhead, TypeOK, Snapshot
  <2>3. latest.ver <= latest'.ver /\ latest'.ver \in Nat
    BY <2>1, LatestGrows, TypeNext DEF TypeOK, Snapshot
  <2>4. channel'[s] \in {channel[s], latest'}
    BY <2>1, SentIsLatest
  <2> QED  BY <2>2, <2>3, <2>4
<1>2. TypeOK /\ EditsInv /\ [Next]_vars => (TypeOK /\ EditsInv)'
  BY TypeNext, EditsNext
<1>3. Init => TypeOK /\ EditsInv
  BY TypeInit, EditsInit
<1> QED
  BY <1>1, <1>2, <1>3, PTL DEF Spec, ClientsGoForward

-----------------------------------------------------------------------------
(* Rooms are freed *)

\* Activation a is on its way through persistAndRemoveRoom.
Frees(a) == \/ task[a].pc = "write" /\ task[a].after # "timer"
            \/ task[a].pc = "written"

\* A step that installs no room, takes out no last participant and stops none of
\* those that free the room keeps EmptyIsLeaving.
LEMMA LeavingKept ==
  ASSUME EmptyIsLeaving,
         room' # None /\ Participants(room') = {} => room # None /\ Participants(room) = {},
         \A b \in Activations : Frees(b) => Frees(b)'
  PROVE  EmptyIsLeaving'
BY DEF EmptyIsLeaving, Frees

\* A join leaves a participant in the room.
LEMMA EnterOccupies ==
  ASSUME NEW s \in Sockets, NEW r \in ActiveRoom, Enter(s, r)
  PROVE  Participants(room') # {}
<1>1. userOf[s] \in Users /\ s # None
  OBVIOUS
<1>2. room'.users[userOf[s]] = s
  BY <1>1 DEF Enter, ActiveRoom
<1> QED
  BY <1>1, <1>2 DEF Participants

\* An activation that starts to wait for its write on behalf of a leave or a
\* disconnect frees the room, and nothing else is disturbed.
LEMMA PersistFrees ==
  ASSUME TypeOK, EmptyIsLeaving, NEW a \in Activations, NEW s, NEW r \in ActiveRoom, NEW after,
         Persist(a, s, r, after, FALSE), ~Frees(a), room # None,
         after # "timer" \/ Participants(r) = Participants(room)
  PROVE  EmptyIsLeaving'
<1>1. task' = [task EXCEPT ![a] = [pc |-> "write", sock |-> s, snap |-> State(r),
                                   after |-> after, todo |-> FALSE]]
  BY DEF Persist
<1>2. task'[a].pc = "write" /\ task'[a].after = after
  BY <1>1 DEF TypeOK
<1>3. CASE after # "timer"
  BY <1>2, <1>3 DEF EmptyIsLeaving
<1>4. CASE Participants(r) = Participants(room)
  <2>1. Participants(room') = Participants(room)
    BY <1>4, PersistKeeps DEF Participants
  <2>2. \A b \in Activations : Frees(b) => Frees(b)'
    BY <1>1 DEF Frees, TypeOK
  <2> QED  BY <2>1, <2>2, LeavingKept
<1> QED  BY <1>3, <1>4

\* Every step keeps EmptyIsLeaving.
LEMMA LeavingNext == TypeOK /\ EmptyIsLeaving /\ [Next]_vars => EmptyIsLeaving'
<1> SUFFICES ASSUME TypeOK, EmptyIsLeaving, [Next]_vars PROVE EmptyIsLeaving'
  OBVIOUS
<1>0. room # None => room \in ActiveRoom
  BY DEF TypeOK
\* Steps that leave the room object alone.
<1>1. ASSUME NEW s \in Sockets, Connect(s) \/ Resync(s) \/ ForceLeave(s)
      PROVE  EmptyIsLeaving'
  BY <1>1, LeavingKept DEF Connect, Resync, ForceLeave, Frees
<1>2. ASSUME NEW s \in Sockets, NEW a \in Activations, RoomJoin(s, a) \/ Disconnect(s, a)
      PROVE  EmptyIsLeaving'
  <2>1. UNCHANGED room /\ task[a].pc = "idle"
    BY <1>2 DEF RoomJoin, Disconnect, Free
  <2>2. \A b \in Activations \ {a} : task'[b] = task[b]
    BY <1>2 DEF RoomJoin, Disconnect, TypeOK
  <2> QED  BY <2>1, <2>2, LeavingKept DEF Frees
<1>3. ASSUME NEW a \in Activations,
             \/ ValidateMembership(a) \/ JoinUnloaded(a) \/ FindDocument(a)
             \/ CreateDocument(a) \/ JoinFails(a) \/ SweepDone(a)
      PROVE  EmptyIsLeaving'
  <2>1. UNCHANGED room /\ ~Frees(a)
    BY <1>3 DEF ValidateMembership, JoinUnloaded, FindDocument, CreateDocument, JoinFails, SweepDone, Frees
  <2>2. \A b \in Activations \ {a} : task'[b] = task[b]
    BY <1>3 DEF ValidateMembership, JoinUnloaded, FindDocument, CreateDocument, JoinFails, SweepDone, TypeOK
  <2> QED  BY <2>1, <2>2, LeavingKept DEF Frees
\* A write that comes back leaves its caller at "written".
<1>4. ASSUME NEW a \in Activations, UpdateDocument(a) \/ UpdateFails(a)
      PROVE  EmptyIsLeaving'
  <2>1. UNCHANGED room /\ task[a].pc = "write" /\ task' = [task EXCEPT ![a] = Returned(a)]
    BY <1>4 DEF UpdateDocument, UpdateFails
  <2>2. task[a].after # "timer" => Returned(a).pc = "written"
    BY DEF Returned, TypeOK, Task
  <2>3. \A b \in Activations : Frees(b) => Frees(b)'
    BY <2>1, <2>2 DEF Frees, TypeOK
  <2> QED  BY <2>1, <2>3, LeavingKept
\* Joins.
<1>5. ASSUME NEW a \in Activations, JoinLoaded(a)
      PROVE  EmptyIsLeaving'
  <2>1. task[a].sock \in Sockets /\ room \in ActiveRoom /\ Enter(task[a].sock, room)
    BY <1>0, <1>5 DEF JoinLoaded, TypeOK, TaskOK, Task
  <2> QED  BY <2>1, EnterOccupies DEF EmptyIsLeaving
<1>6. ASSUME NEW a \in Activations, InstallRoom(a)
      PROVE  EmptyIsLeaving'
  <2> DEFINE r == [ver |-> task[a].snap.ver, text |-> task[a].snap.text,
                   users |-> [u \in Users |-> None], armed |-> FALSE]
  <2>1. task[a].sock \in Sockets /\ task[a].snap \in Snapshot
    BY <1>6 DEF InstallRoom, TypeOK, TaskOK, Task
  <2>2. r \in ActiveRoom
    BY <2>1 DEF ActiveRoom, Snapshot
  <2>3. Enter(task[a].sock, r)
    BY <1>6 DEF InstallRoom
  <2> HIDE DEF r
  <2> QED  BY <2>1, <2>2, <2>3, EnterOccupies DEF EmptyIsLeaving
\* An edit changes no registration.
<1>7. ASSUME NEW s \in Sockets, NEW x \in Texts, Edit(s, x)
      PROVE  EmptyIsLeaving'
  <2>1. UNCHANGED task /\ room # None /\ room' = Schedule(Apply(room, x))
    BY <1>7 DEF Edit, CanEdit
  <2>2. room'.users = room.users
    BY <1>0, <2>1 DEF Schedule, Apply, ActiveRoom
  <2> QED  BY <2>1, <2>2, LeavingKept DEF Participants, Frees
\* Persistence.
<1>8. ASSUME NEW a \in Activations, Timers(a)
      PROVE  EmptyIsLeaving'
  <2>1. CASE room = None
    <3>1. UNCHANGED <<room, task>>
      BY <1>8, <2>1 DEF Timers, TimerFires, StrayTimerFires, Armed
    <3> QED  BY <3>1, LeavingKept DEF Frees
  <2>2. CASE room # None
    <3>1. Persist(a, None, room, "timer", FALSE) /\ ~Frees(a)
      BY <1>8, <2>2 DEF Timers, TimerFires, StrayTimerFires, Free, Frees
    <3> QED  BY <1>0, <2>2, <3>1, PersistFrees
  <2> QED  BY <2>1, <2>2
<1>9. ASSUME NEW a \in Activations, RemoveRoom(a)
      PROVE  EmptyIsLeaving'
  BY <1>9 DEF RemoveRoom, EmptyIsLeaving
\* Leaves and disconnects.
<1>10. ASSUME NEW s \in Sockets, RoomLeave(s)
       PROVE  EmptyIsLeaving'
  <2>1. CASE room = None
    BY <1>10, <2>1 DEF RoomLeave, EmptyIsLeaving
  <2>2. CASE room # None
    BY <1>10, <2>2 DEF RoomLeave, Empties, EmptyIsLeaving
  <2> QED  BY <2>1, <2>2
<1>11. ASSUME NEW s \in Sockets, NEW a \in Activations, RoomLeaveLast(s, a)
       PROVE  EmptyIsLeaving'
  <2>1. room # None /\ ~Frees(a) /\ Persist(a, s, Without(userOf[s]), "leave", FALSE)
    BY <1>11 DEF RoomLeaveLast, Free, Frees
  <2>2. Without(userOf[s]) \in ActiveRoom
    BY <2>1, WithoutType
  <2> QED  BY <2>1, <2>2, PersistFrees
<1>12. ASSUME NEW a \in Activations, SweepRoom(a)
       PROVE  EmptyIsLeaving'
  <2> DEFINE u == userOf[task[a].sock]
  <2>1. room # None /\ ~Frees(a) /\ u \in Users
    BY <1>12 DEF SweepRoom, Frees, TypeOK, TaskOK, Task
  <2>2. Without(u) \in ActiveRoom
    BY <2>1, WithoutType
  <2>3. CASE Persist(a, task[a].sock, Without(u), "sweep", FALSE)
    <3> DEFINE r == Without(u)
               s == task[a].sock
    <3>1. r \in ActiveRoom /\ Persist(a, s, r, "sweep", FALSE)
      BY <2>2, <2>3
    <3> HIDE DEF r, s, u
    <3> QED  BY <2>1, <3>1, PersistFrees
  <2>4. CASE /\ ~(room.users[u] # None /\ Empties(u))
             /\ room' = Without(u) /\ task' = [task EXCEPT ![a].todo = FALSE]
    <3>1. \A b \in Activations : Frees(b) => Frees(b)'
      BY <2>4 DEF Frees, TypeOK, Task
    <3>2. Participants(Without(u)) = {} => Participants(room) = {}
      <4>1. CASE room.users[u] = None
        BY <1>0, <2>1, <4>1 DEF Without, Participants, ActiveRoom
      <4>2. CASE ~Empties(u)
        BY <4>2 DEF Empties
      <4> QED  BY <2>4, <4>1, <4>2
    <3> QED  BY <2>1, <2>4, <3>1, <3>2, LeavingKept
  <2> QED  BY <1>12, <2>3, <2>4 DEF SweepRoom
\* The rows and the process.
<1>13. CASE \/ \E u \in Users : AddMember(u) \/ RemoveMember(u)
            \/ DeleteRoom \/ UNCHANGED vars
  BY <1>13, LeavingKept DEF AddMember, RemoveMember, DeleteRoom, vars, Frees
<1>14. CASE Crash
  BY <1>14 DEF Crash, EmptyIsLeaving
<1> QED
  BY <1>1, <1>2, <1>3, <1>4, <1>5, <1>6, <1>7, <1>8, <1>9, <1>10, <1>11, <1>12, <1>13, <1>14
  DEF Next, Client, Proceed

\* A room nobody is in is always on its way out of memory: in no order of joins,
\* leaves, disconnects, writes and failures is an empty room left behind.
THEOREM EmptyRoomsLeave == Spec => []EmptyIsLeaving
<1>1. Init => EmptyIsLeaving
  BY DEF Init, EmptyIsLeaving
<1> QED
  BY <1>1, TypeInit, TypeNext, LeavingNext, PTL DEF Spec

\* Socket s is registered for no user but its own.
RegisteredIsOwn ==
  room # None => \A u \in Users : room.users[u] # None => userOf[room.users[u]] = u

\* A step that registers nobody keeps RegisteredIsOwn.
LEMMA OwnKept ==
  ASSUME RegisteredIsOwn,
         room' # None => /\ room # None
                         /\ \A u \in Users : room'.users[u] \in {room.users[u], None}
  PROVE  RegisteredIsOwn'
BY DEF RegisteredIsOwn

\* A join registers the socket for the user it authenticated as.
LEMMA OwnEnter ==
  ASSUME NEW s \in Sockets, NEW r \in ActiveRoom, Enter(s, r),
         \A u \in Users : r.users[u] # None => userOf[r.users[u]] = u
  PROVE  RegisteredIsOwn'
<1>1. userOf[s] \in Users
  OBVIOUS
<1>2. room'.users = [r.users EXCEPT ![userOf[s]] = s]
  BY DEF Enter, ActiveRoom
<1> QED
  BY <1>1, <1>2 DEF RegisteredIsOwn, ActiveRoom

\* Every step keeps RegisteredIsOwn.
LEMMA OwnNext == TypeOK /\ RegisteredIsOwn /\ [Next]_vars => RegisteredIsOwn'
<1> SUFFICES ASSUME TypeOK, RegisteredIsOwn, [Next]_vars PROVE RegisteredIsOwn'
  OBVIOUS
<1>0. room # None => room \in ActiveRoom
  BY DEF TypeOK
<1>1. CASE UNCHANGED room
  BY <1>1, OwnKept
<1>2. ASSUME NEW a \in Activations, JoinLoaded(a)
      PROVE  RegisteredIsOwn'
  <2>1. task[a].sock \in Sockets /\ room \in ActiveRoom /\ Enter(task[a].sock, room)
    BY <1>0, <1>2 DEF JoinLoaded, TypeOK, TaskOK, Task
  <2>2. \A u \in Users : room.users[u] # None => userOf[room.users[u]] = u
    BY <1>2 DEF JoinLoaded, RegisteredIsOwn
  <2> QED  BY <2>1, <2>2, OwnEnter
<1>3. ASSUME NEW a \in Activations, InstallRoom(a)
      PROVE  RegisteredIsOwn'
  <2> DEFINE r == [ver |-> task[a].snap.ver, text |-> task[a].snap.text,
                   users |-> [u \in Users |-> None], armed |-> FALSE]
  <2>1. task[a].sock \in Sockets /\ task[a].snap \in Snapshot
    BY <1>3 DEF InstallRoom, TypeOK, TaskOK, Task
  <2>2. r \in ActiveRoom /\ \A u \in Users : r.users[u] = None
    BY <2>1 DEF ActiveRoom, Snapshot
  <2>3. Enter(task[a].sock, r)
    BY <1>3 DEF InstallRoom
  <2> HIDE DEF r
  <2> QED  BY <2>1, <2>2, <2>3, OwnEnter
<1>4. ASSUME NEW s \in Sockets, NEW x \in Texts, Edit(s, x)
      PROVE  RegisteredIsOwn'
  <2>1. room # None /\ room' = Schedule(Apply(room, x))
    BY <1>4 DEF Edit, CanEdit
  <2>2. room'.users = room.users
    BY <1>0, <2>1 DEF Schedule, Apply, ActiveRoom
  <2> QED  BY <2>1, <2>2, OwnKept
<1>5. ASSUME NEW a, NEW s, NEW r \in ActiveRoom, NEW after, Persist(a, s, r, after, FALSE),
             room # None, \A u \in Users : r.users[u] \in {room.users[u], None}
      PROVE  RegisteredIsOwn'
  <2>1. room'.users = r.users
    BY <1>5, PersistKeeps
  <2> QED  BY <1>5, <2>1, OwnKept
<1>6. ASSUME NEW a \in Activations, Timers(a)
      PROVE  RegisteredIsOwn'
  <2>1. CASE room = None
    BY <1>1, <1>6, <2>1 DEF Timers, TimerFires, StrayTimerFires, Armed
  <2>2. CASE room # None
    <3>1. Persist(a, None, room, "timer", FALSE)
      BY <1>6, <2>2 DEF Timers, TimerFires, StrayTimerFires
    <3> QED  BY <1>0, <1>5, <2>2, <3>1
  <2> QED  BY <2>1, <2>2
<1>7. CASE room' = None
  BY <1>7 DEF RegisteredIsOwn
<1>8. ASSUME NEW u \in Users, room # None, room' = Without(u)
      PROVE  RegisteredIsOwn'
  BY <1>8, WithoutKeeps, OwnKept
<1>9. ASSUME NEW s \in Sockets, RoomLeave(s)
      PROVE  RegisteredIsOwn'
  BY <1>1, <1>8, <1>9 DEF RoomLeave
<1>10. ASSUME NEW s \in Sockets, NEW a \in Activations, RoomLeaveLast(s, a)
       PROVE  RegisteredIsOwn'
  <2>1. room # None /\ Persist(a, s, Without(userOf[s]), "leave", FALSE)
    BY <1>10 DEF RoomLeaveLast
  <2> DEFINE r == Without(userOf[s])
  <2>2. r \in ActiveRoom /\ \A u \in Users : r.users[u] \in {room.users[u], None}
    BY <2>1, WithoutType, WithoutKeeps
  <2> HIDE DEF r
  <2>3. Persist(a, s, r, "leave", FALSE)
    BY <2>1 DEF r
  <2> QED  BY <1>5, <2>1, <2>2, <2>3
<1>11. ASSUME NEW a \in Activations, SweepRoom(a)
       PROVE  RegisteredIsOwn'
  <2> DEFINE u == userOf[task[a].sock]
             r == Without(u)
  <2>1. room # None /\ u \in Users
    BY <1>11 DEF SweepRoom, TypeOK, TaskOK, Task
  <2>2. r \in ActiveRoom /\ \A v \in Users : r.users[v] \in {room.users[v], None}
    BY <2>1, WithoutType, WithoutKeeps
  <2>3. CASE Persist(a, task[a].sock, r, "sweep", FALSE)
    <3> HIDE DEF r
    <3> QED  BY <1>5, <2>1, <2>2, <2>3
  <2>4. CASE room' = r
    BY <1>8, <2>1, <2>4
  <2> QED  BY <1>11, <2>3, <2>4 DEF SweepRoom
<1>12. ASSUME NEW s \in Sockets,
              \/ Connect(s) \/ Resync(s) \/ ForceLeave(s)
              \/ \E a \in Activations : RoomJoin(s, a) \/ Disconnect(s, a)
       PROVE  UNCHANGED room
  BY <1>12, Zenon DEF Connect, Resync, ForceLeave, RoomJoin, Disconnect
<1>13. ASSUME NEW a \in Activations,
              \/ ValidateMembership(a) \/ JoinUnloaded(a) \/ FindDocument(a) \/ CreateDocument(a)
              \/ UpdateDocument(a) \/ UpdateFails(a) \/ SweepDone(a) \/ JoinFails(a)
       PROVE  UNCHANGED room
  BY <1>13, Zenon DEF ValidateMembership, JoinUnloaded, FindDocument, CreateDocument,
                      UpdateDocument, UpdateFails, SweepDone, JoinFails
<1>14. ASSUME \/ \E u \in Users : AddMember(u) \/ RemoveMember(u)
              \/ DeleteRoom \/ UNCHANGED vars
       PROVE  UNCHANGED room
  BY <1>14 DEF AddMember, RemoveMember, DeleteRoom, vars
<1>15. ASSUME Crash \/ \E a \in Activations : RemoveRoom(a)
       PROVE  room' = None
  BY <1>15 DEF Crash, RemoveRoom
<1> QED
  BY <1>1, <1>2, <1>3, <1>4, <1>6, <1>7, <1>9, <1>10, <1>11, <1>12, <1>13, <1>14, <1>15
  DEF Next, Client, Proceed

\* When every connection has closed and nothing is on its way, no room is left in
\* memory, unless some join finished after its socket had closed: whoever is still
\* registered has a closed socket, so a loop would have it ahead, and an empty
\* room would be on its way out.
THEOREM QuietRoomsAreFreed == Spec => []RoomsAreFreed
<1>1. TypeOK /\ PresenceIsSwept /\ EmptyIsLeaving /\ RegisteredIsOwn => RoomsAreFreed
  <2> SUFFICES ASSUME TypeOK, PresenceIsSwept, EmptyIsLeaving, RegisteredIsOwn,
                      "lateJoin" \notin faults, Quiet, AllClosed, room # None
               PROVE  FALSE
    BY DEF RoomsAreFreed
  <2>1. \A a \in Activations : task[a].pc = "idle"
    BY DEF Quiet, Free
  <2>2. Participants(room) # {}
    BY <2>1 DEF EmptyIsLeaving
  <2>3. PICK u \in Users : room.users[u] # None
    BY <2>2 DEF Participants
  <2> DEFINE s == room.users[u]
  <2>4. s \in Sockets /\ userOf[s] = u
    BY <2>3 DEF TypeOK, ActiveRoom, RegisteredIsOwn
  <2>5. conn[s] = "closed"
    BY <2>4 DEF AllClosed
  <2>6. room.users[userOf[s]] = s
    BY <2>4
  <2> QED  BY <2>1, <2>4, <2>5, <2>6 DEF PresenceIsSwept
<1>2. Init => RegisteredIsOwn
  BY DEF Init, RegisteredIsOwn
<1> QED
  BY <1>1, <1>2, TypeInit, TypeNext, OwnNext, EmptyRoomsLeave, PresenceSwept, PTL DEF Spec

\* What the README says of the last disconnect holds unless one of the five losses
\* or the deletion of the room has happened: when nothing is on its way any more,
\* whatever has left and in which order, the row has the last accepted edit.
THEOREM QuietRoomsAreSaved == Spec => [](Quiet /\ ~Lost /\ exists => Stored = latest)
<1>1. EditsAreKept => (Quiet /\ ~Lost /\ exists => Stored = latest)
  BY DEF EditsAreKept, Quiet, Written, Free
<1> QED
  BY <1>1, EditsKept, PTL
============================================================================
