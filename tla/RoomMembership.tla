--------------------------- MODULE RoomMembership ---------------------------
(***************************************************************************)
(* The room service (src/services/room.service.ts): how rooms, memberships *)
(* and invites come and go while requests run concurrently, and what       *)
(* becomes of the limits of the subscription plans.                        *)
(*                                                                         *)
(* A request waits for the database at every query, so each query is a     *)
(* step: it sees what other requests have committed (Read Committed, the   *)
(* default of PostgreSQL), and what a transaction writes is seen when its  *)
(* last query, the insert of the membership, commits.  A request that is   *)
(* refused by its first query changes nothing and is left out.             *)
(*                                                                         *)
(* SELECT ... FOR UPDATE locks a room row until the transaction ends.      *)
(* Against it stand the inserts of rows that refer to the room, which lock *)
(* the row for their foreign key, the delete of the room, and another      *)
(* FOR UPDATE.                                                             *)
(***************************************************************************)
EXTENDS Naturals, FiniteSets

CONSTANTS
  Users,       \* the accounts
  Rooms,       \* the ids that rooms may get, each at most once
  Public,      \* the ids of the rooms created as public
  Requests,    \* bound: how many requests may be running at a time
  Endpoints,   \* the join endpoints clients use
  None,        \* null, or no row
  MaxRooms,    \* the limits of the plan, which all accounts have
  MaxMembers,
  MaxJoined

JoinEndpoints == {"join", "invite", "id"}

ASSUME FiniteAssumption == IsFiniteSet(Users) /\ IsFiniteSet(Rooms) /\ IsFiniteSet(Requests)
ASSUME PublicAssumption == Public \subseteq Rooms
ASSUME EndpointsAssumption == Endpoints \subseteq JoinEndpoints
ASSUME NoneAssumption == None \notin Users \cup Rooms
ASSUME PlanAssumption == {MaxRooms, MaxMembers, MaxJoined} \subseteq Nat \ {0}

VARIABLES
  owner,    \* the owner of each room, None where there is no row
  used,     \* the ids that have been given out
  members,  \* the membership rows
  invites,  \* the number of invite rows of each room
  task      \* what each request is waiting for

vars == <<owner, used, members, invites, task>>

-----------------------------------------------------------------------------
(* State *)

\* Where a request waits: for the lock of the room row, for the reads in their
\* order, for the unique index, for the foreign key; createRoom and
\* createInvite for their writes.
Waits == {"idle", "lock", "existing", "joined", "full", "insert", "commit",
          "create", "invite"}

Task == [pc   : Waits,
         op   : Endpoints \cup {"none", "create", "createInvite"},
         user : Users \cup {None},
         room : Rooms \cup {None}]

Idle == [pc |-> "idle", op |-> "none", user |-> None, room |-> None]

Live(r) == owner[r] # None
Owned(u) == {r \in Rooms : owner[r] = u}
Memberships(u) == {r \in Rooms : u \in members[r]}
Joined(u) == Memberships(u) \ Owned(u)

\* Mutant: the row is read without FOR UPDATE.
HoldsLock_Never(q, r) == FALSE

\* joinRoom holds the lock from its first query to the end of the transaction.
HoldsLock(q, r) ==
  /\ task[q].op = "join"
  /\ task[q].room = r
  /\ task[q].pc \in {"existing", "joined", "full", "insert", "commit"}
LockedByOther(q, r) == \E p \in Requests \ {q} : HoldsLock(p, r)

\* The same membership is being inserted by a transaction that is not over.
SameMembership(p, q) ==
  /\ task[p].pc = "commit"
  /\ task[p].user = task[q].user
  /\ task[p].room = task[q].room

\* What a query waits for: FOR UPDATE, and an insert for its foreign key, for the
\* lock of the room row; an insert of a membership, for the unique index, for the
\* end of a transaction that inserts the same row.
Blocked(q) ==
  \/ task[q].pc \in {"lock", "commit", "invite"} /\ LockedByOther(q, task[q].room)
  \/ task[q].pc = "insert" /\ \E p \in Requests \ {q} : SameMembership(p, q)

Init ==
  /\ owner = [r \in Rooms |-> None]
  /\ used = {}
  /\ members = [r \in Rooms |-> {}]
  /\ invites = [r \in Rooms |-> 0]
  /\ task = [q \in Requests |-> Idle]

Start(q, pc, op, u, r) ==
  /\ task[q].pc = "idle"
  /\ task' = [task EXCEPT ![q] = [pc |-> pc, op |-> op, user |-> u, room |-> r]]

Continue(q, pc) == task' = [task EXCEPT ![q].pc = pc]

\* The request is answered, or the error is; its transaction is over.
End(q) == task' = [task EXCEPT ![q] = Idle]

-----------------------------------------------------------------------------
(* createRoom *)

\* Mutant: the limit itself still passes.
CountOwned_OffByOne(q, u) ==
  /\ Cardinality(Owned(u)) <= MaxRooms
  /\ Start(q, "create", "create", u, None)
  /\ UNCHANGED <<owner, used, members, invites>>

\* The rooms of the user are counted, outside the transaction.
CountOwned(q, u) ==
  /\ Cardinality(Owned(u)) < MaxRooms
  /\ Start(q, "create", "create", u, None)
  /\ UNCHANGED <<owner, used, members, invites>>

\* Room, document and the owner's membership are inserted in one transaction.
InsertRoom(q, r) ==
  /\ task[q].pc = "create"
  /\ r \notin used
  /\ used' = used \cup {r}
  /\ owner' = [owner EXCEPT ![r] = task[q].user]
  /\ members' = [members EXCEPT ![r] = {task[q].user}]
  /\ End(q)
  /\ UNCHANGED invites

-----------------------------------------------------------------------------
(* joinRoom, joinByInvite, joinById *)

JoinRoom(q, u, r) ==
  /\ "join" \in Endpoints
  /\ r \in used
  /\ Start(q, "lock", "join", u, r)
  /\ UNCHANGED <<owner, used, members, invites>>

\* Mutant: that the room is gone is not answered.
LockRoom_NoAnswer(q) ==
  /\ task[q].pc = "lock"
  /\ ~Blocked(q)
  /\ Live(task[q].room)
  /\ Continue(q, "existing")
  /\ UNCHANGED <<owner, used, members, invites>>

\* Mutant: the lock is one that several may hold (FOR SHARE).
LockRoom_Shared(q) ==
  /\ task[q].pc = "lock"
  /\ IF Live(task[q].room) THEN Continue(q, "existing") ELSE End(q)
  /\ UNCHANGED <<owner, used, members, invites>>

\* SELECT ... FOR UPDATE waits until nobody else holds the row.
LockRoom(q) ==
  /\ task[q].pc = "lock"
  /\ ~Blocked(q)
  /\ IF Live(task[q].room) THEN Continue(q, "existing") ELSE End(q)
  /\ UNCHANGED <<owner, used, members, invites>>

\* A token that has not expired is found.
FindInvite(q, u, r) ==
  /\ "invite" \in Endpoints
  /\ invites[r] > 0
  /\ Start(q, "existing", "invite", u, r)
  /\ UNCHANGED <<owner, used, members, invites>>

\* Mutant: whether the room was found is not looked at.
FindRoom_Unchecked(q, u, r) ==
  /\ "id" \in Endpoints
  /\ Start(q, "existing", "id", u, r)
  /\ UNCHANGED <<owner, used, members, invites>>

FindRoom(q, u, r) ==
  /\ "id" \in Endpoints
  /\ Live(r)
  /\ Start(q, "existing", "id", u, r)
  /\ UNCHANGED <<owner, used, members, invites>>

\* A member is not admitted again, and to a private room an invite is needed.
CheckExisting(q) ==
  /\ task[q].pc = "existing"
  /\ IF /\ task[q].user \notin members[task[q].room]
        /\ task[q].op = "invite" \/ task[q].room \in Public
     THEN Continue(q, "joined")
     ELSE End(q)
  /\ UNCHANGED <<owner, used, members, invites>>

\* Mutant: the limit itself still passes.
CountJoined_OffByOne(q) ==
  /\ task[q].pc = "joined"
  /\ IF Cardinality(Memberships(task[q].user)) > MaxJoined
     THEN End(q) ELSE Continue(q, "full")
  /\ UNCHANGED <<owner, used, members, invites>>

\* The memberships of the joiner are counted, those in rooms of its own too.
CountJoined(q) ==
  /\ task[q].pc = "joined"
  /\ IF Cardinality(Memberships(task[q].user)) >= MaxJoined
     THEN End(q) ELSE Continue(q, "full")
  /\ UNCHANGED <<owner, used, members, invites>>

\* Mutant: the limit itself still passes.
CountMembers_OffByOne(q) ==
  /\ task[q].pc = "full"
  /\ IF Cardinality(members[task[q].room]) > MaxMembers
     THEN End(q) ELSE Continue(q, "insert")
  /\ UNCHANGED <<owner, used, members, invites>>

CountMembers(q) ==
  /\ task[q].pc = "full"
  /\ IF Cardinality(members[task[q].room]) >= MaxMembers
     THEN End(q) ELSE Continue(q, "insert")
  /\ UNCHANGED <<owner, used, members, invites>>

\* The unique index of user and room: an insert waits for another of the same
\* row, and fails when the row is there.
InsertMembership(q) ==
  /\ task[q].pc = "insert"
  /\ ~Blocked(q)
  /\ IF task[q].user \in members[task[q].room] THEN End(q) ELSE Continue(q, "commit")
  /\ UNCHANGED <<owner, used, members, invites>>

\* The foreign key to the room: an insert waits for the lock of the row and
\* fails when the row is gone.  Then the transaction commits.
CommitMembership(q) ==
  /\ task[q].pc = "commit"
  /\ ~Blocked(q)
  /\ members' = IF Live(task[q].room)
                THEN [members EXCEPT ![task[q].room] = @ \cup {task[q].user}]
                ELSE members
  /\ End(q)
  /\ UNCHANGED <<owner, used, invites>>

\* An insert that waits for the lock of a request that waits for that insert is
\* a deadlock; the database ends one of the two.
Deadlocked(p, q) ==
  /\ task[p].pc = "commit"
  /\ HoldsLock(q, task[p].room)
  /\ task[q].pc = "insert"
  /\ SameMembership(p, q)

InDeadlock(q) == \E p \in Requests \ {q} : Deadlocked(p, q) \/ Deadlocked(q, p)

BreakDeadlock(q) ==
  /\ InDeadlock(q)
  /\ End(q)
  /\ UNCHANGED <<owner, used, members, invites>>

-----------------------------------------------------------------------------
(* createInvite, removeMember, deleteRoom *)

\* Mutant: the old invites stay.
CreateInvite_KeepOld(q, r) ==
  /\ Live(r)
  /\ Start(q, "invite", "createInvite", owner[r], r)
  /\ UNCHANGED <<owner, used, members, invites>>

\* The owner is recognized and the old invites are deleted.  (The owner of a
\* room never changes, and a room that is deleted has no invites left.)
CreateInvite(q, r) ==
  /\ Live(r)
  /\ Start(q, "invite", "createInvite", owner[r], r)
  /\ invites' = [invites EXCEPT ![r] = 0]
  /\ UNCHANGED <<owner, used, members>>

InsertInvite(q) ==
  /\ task[q].pc = "invite"
  /\ ~Blocked(q)
  /\ invites' = IF Live(task[q].room)
                THEN [invites EXCEPT ![task[q].room] = @ + 1] ELSE invites
  /\ End(q)
  /\ UNCHANGED <<owner, used, members>>

\* Mutant: the owner may be the one to go.
RemoveMember_Anyone(u, r) ==
  /\ u \in members[r]
  /\ members' = [members EXCEPT ![r] = @ \ {u}]
  /\ UNCHANGED <<owner, used, invites, task>>

\* The owner takes out another member.  The row is deleted by its own id, so a
\* membership that was lost and won again meanwhile is not touched.
RemoveMember(u, r) ==
  /\ u \in members[r] \ {owner[r]}
  /\ members' = [members EXCEPT ![r] = @ \ {u}]
  /\ UNCHANGED <<owner, used, invites, task>>

\* The delete waits for the lock, and cascades to memberships and invites.
DeleteRoom(r) ==
  /\ Live(r)
  /\ \A q \in Requests : ~HoldsLock(q, r)
  /\ owner' = [owner EXCEPT ![r] = None]
  /\ members' = [members EXCEPT ![r] = {}]
  /\ invites' = [invites EXCEPT ![r] = 0]
  /\ UNCHANGED <<used, task>>

\* A query throws, a transaction exceeds its time, or the process ends: the
\* request is over and its transaction rolled back.
Fail(q) ==
  /\ task[q].pc # "idle"
  /\ End(q)
  /\ UNCHANGED <<owner, used, members, invites>>

-----------------------------------------------------------------------------
\* What a request does by itself once it has been started.
Proceed(q) ==
  \/ \E r \in Rooms : InsertRoom(q, r)
  \/ LockRoom(q)
  \/ CheckExisting(q)
  \/ CountJoined(q)
  \/ CountMembers(q)
  \/ InsertMembership(q)
  \/ CommitMembership(q)
  \/ BreakDeadlock(q)
  \/ InsertInvite(q)

Begin(q) ==
  \/ \E u \in Users : CountOwned(q, u)
  \/ \E u \in Users, r \in Rooms : JoinRoom(q, u, r) \/ FindInvite(q, u, r) \/ FindRoom(q, u, r)
  \/ \E r \in Rooms : CreateInvite(q, r)

Next ==
  \/ \E q \in Requests : Begin(q) \/ Proceed(q) \/ Fail(q)
  \/ \E u \in Users, r \in Rooms : RemoveMember(u, r)
  \/ \E r \in Rooms : DeleteRoom(r)

Spec == Init /\ [][Next]_vars

\* The database answers; a request that waits for a lock gets its turn, since
\* PostgreSQL serves the waiters of a row in order.  (A request that creates a
\* room when no id is left stands for none: ids do not run out.)
Fairness == \A q \in Requests : SF_vars(Proceed(q))

FairSpec == Spec /\ Fairness

-----------------------------------------------------------------------------
(* What holds *)

\* A running request is by an account, and at a room that has been created
\* unless it is to create one.
TaskOK(t) ==
  /\ t.pc = "idle" <=> t.op = "none"
  /\ t.pc = "create" <=> t.op = "create"
  /\ t.pc = "invite" <=> t.op = "createInvite"
  /\ t.pc # "idle" => t.user # None
  /\ t.pc \notin {"idle", "create"} => t.room \in used

\* Every variable has its type; rows that refer to a room exist only with it.
TypeOK ==
  /\ owner \in [Rooms -> Users \cup {None}]
  /\ used \subseteq Rooms
  /\ members \in [Rooms -> SUBSET Users]
  /\ invites \in [Rooms -> Nat]
  /\ task \in [Requests -> Task]
  /\ \A q \in Requests : TaskOK(task[q])
  /\ \A r \in Rooms : IF Live(r) THEN r \in used ELSE members[r] = {} /\ invites[r] = 0

\* README.md:59, "Owner is also inserted into RoomMembership": the owner of a
\* room is one of its members as long as the room exists, whatever is removed,
\* deleted or created in between (removeMember, room.service.ts:272).
OwnerIsMember == \A r \in Rooms : Live(r) => owner[r] \in members[r]

\* Requests that have passed a limit and have not yet inserted.
Creating(u) == {q \in Requests : task[q].pc = "create" /\ task[q].user = u}
Entering(r) == {q \in Requests : task[q].pc \in {"insert", "commit"} /\ task[q].room = r}
Joining(u) == {q \in Requests : task[q].pc \in {"full", "insert", "commit"} /\ task[q].user = u}
Inviting(r) == {q \in Requests : task[q].pc = "invite" /\ task[q].room = r}

\* A limit is checked by a read and kept only by what else is running: however
\* long the history, with n requests at a time no limit is exceeded by more than
\* n - 1, the requests that have passed the check and not yet inserted included.
Excess(max) == (max - 1) + Cardinality(Requests)

\* maxRooms, checked by createRoom (room.service.ts:28).
OwnedExcess == \A u \in Users :
  Cardinality(Owned(u)) + Cardinality(Creating(u)) <= Excess(MaxRooms)

\* maxMembersPerRoom, checked by enforceJoinLimits (room.service.ts:434).
MembersExcess == \A r \in Rooms :
  Cardinality(members[r]) + Cardinality(Entering(r)) <= Excess(MaxMembers)

\* maxJoinedRooms, checked by enforceJoinLimits (room.service.ts:424): the rooms
\* of others that a user is a member of.
JoinedExcess == \A u \in Users :
  Cardinality(Joined(u)) + Cardinality(Joining(u)) <= Excess(MaxJoined)

\* createInvite replaces the invites of a room (room.service.ts:135), but not
\* those of a createInvite that runs beside it: a room has never more valid
\* invites than requests that ran at a time.
InvitesExcess == \A r \in Rooms :
  invites[r] + Cardinality(Inviting(r)) <= Cardinality(Requests)

Waiting == {q \in Requests : task[q].pc \notin {"idle", "create"}}

\* Requests that wait for a lock, a row or the end of another request do not all
\* wait for one another, but for cycles of two that the database sees and breaks:
\* of any that wait, one is not blocked or is in such a cycle (FOR UPDATE of
\* joinRoom, room.service.ts:88, against the unique index and the foreign key).
NoStandstill == Waiting # {} => \E q \in Waiting : ~Blocked(q) \/ InDeadlock(q)

Capped == INSTANCE CappedRooms

\* With joinRoom as the only way in, the lock of the room row makes the service
\* implement CappedRooms: no room exceeds the plan of its owner, and every room
\* has its owner as a member.
RefinesCapped == Capped!Spec

\* Every request that waits for a lock, a row or the end of another request is
\* answered some time.
RequestsEnd == \A q \in Requests : q \in Waiting ~> task[q].pc = "idle"

-----------------------------------------------------------------------------
(* What the README promises and the code does not keep *)

OwnedWithinPlan == \A u \in Users : Cardinality(Owned(u)) <= MaxRooms
MembersWithinPlan == \A r \in Rooms : Cardinality(members[r]) <= MaxMembers
JoinedWithinPlan == \A u \in Users : Cardinality(Joined(u)) <= MaxJoined

\* README.md:96, "All limits checked inside Prisma transactions with row-level
\* locks to prevent race conditions", says that each of the three limits holds in
\* every state.  What is refuted is less: that at least one of them does.
SomeLimitHolds == OwnedWithinPlan \/ MembersWithinPlan \/ JoinedWithinPlan
=============================================================================
