----------------------- MODULE RoomMembership_proofs -----------------------
(* Theorems about RoomMembership, for any accounts, rooms, plan limits and  *)
(* number of concurrent requests.                                           *)
EXTENDS RoomMembership, CountingLemmas

-----------------------------------------------------------------------------
(* Types *)

LEMMA IdleOK == Idle \in Task /\ (TaskOK(Idle) <=> TRUE)
  BY NoneAssumption DEF Idle, Task, Waits, TaskOK

\* A request that ends leaves the others as they are.
LEMMA EndKeeps ==
  ASSUME TypeOK, NEW q \in Requests, End(q), used \subseteq used'
  PROVE  task' \in [Requests -> Task] /\ \A p \in Requests : TaskOK(task[p])'
<1>1. task' \in [Requests -> Task]
  BY IdleOK DEF TypeOK, End
<1>2. ASSUME NEW p \in Requests
      PROVE  TaskOK(task[p])'
  <2>1. CASE p = q
    BY <2>1, NoneAssumption DEF TypeOK, End, TaskOK, Idle
  <2>2. CASE p # q
    BY <2>2 DEF TypeOK, End, TaskOK
  <2> QED  BY <2>1, <2>2
<1> QED  BY <1>1, <1>2

\* So does one that goes on to a place where a join may be.
LEMMA ContinueKeeps ==
  ASSUME TypeOK, NEW q \in Requests, UNCHANGED used,
         NEW pc \in {"existing", "joined", "full", "insert", "commit"}, Continue(q, pc),
         task[q].pc \in {"lock", "existing", "joined", "full", "insert"}
  PROVE  task' \in [Requests -> Task] /\ \A p \in Requests : TaskOK(task[p])'
<1>1. task' \in [Requests -> Task]
  BY DEF TypeOK, Continue, Task, Waits
<1>2. ASSUME NEW p \in Requests
      PROVE  TaskOK(task[p])'
  <2>1. CASE p = q
    <3>1. task'[q] = [task[q] EXCEPT !.pc = pc]
      BY DEF TypeOK, Continue
    <3>2. TaskOK(task[q]) /\ task[q] \in Task
      BY DEF TypeOK
    <3> QED  BY <2>1, <3>1, <3>2 DEF TaskOK, Task
  <2>2. CASE p # q
    BY <2>2 DEF TypeOK, Continue, TaskOK
  <2> QED  BY <2>1, <2>2
<1> QED  BY <1>1, <1>2

\* And so does one that starts.
LEMMA StartKeeps ==
  ASSUME TypeOK, NEW q \in Requests, UNCHANGED used, NEW pc, NEW op, NEW u, NEW r,
         Start(q, pc, op, u, r),
         [pc |-> pc, op |-> op, user |-> u, room |-> r] \in Task,
         TaskOK([pc |-> pc, op |-> op, user |-> u, room |-> r])
  PROVE  task' \in [Requests -> Task] /\ \A p \in Requests : TaskOK(task[p])'
<1>1. task' \in [Requests -> Task]
  BY DEF TypeOK, Start
<1>2. ASSUME NEW p \in Requests
      PROVE  TaskOK(task[p])'
  <2>1. CASE p = q
    BY <2>1 DEF TypeOK, Start, TaskOK
  <2>2. CASE p # q
    BY <2>2 DEF TypeOK, Start, TaskOK
  <2> QED  BY <2>1, <2>2
<1> QED  BY <1>1, <1>2

LEMMA TypeInit == Init => TypeOK
<1> SUFFICES ASSUME Init PROVE TypeOK
  OBVIOUS
<1>1. \A q \in Requests : task[q] = Idle
  BY DEF Init
<1>2. \A q \in Requests : TaskOK(task[q])
  BY <1>1, NoneAssumption DEF TaskOK, Idle
<1> QED  BY <1>2, IdleOK, NoneAssumption DEF Init, TypeOK, Live

\* What a request does keeps the types.
LEMMA TypeBegin ==
  ASSUME TypeOK, NEW q \in Requests, Begin(q)
  PROVE  TypeOK'
<1>1. ASSUME NEW u \in Users, CountOwned(q, u)
      PROVE  TypeOK'
  <2> DEFINE t == [pc |-> "create", op |-> "create", user |-> u, room |-> None]
  <2>1. t \in Task /\ TaskOK(t)
    BY NoneAssumption DEF Task, Waits, TaskOK
  <2> QED  BY <1>1, <2>1, StartKeeps DEF CountOwned, TypeOK, Live
<1>2. ASSUME NEW u \in Users, NEW r \in Rooms, JoinRoom(q, u, r)
      PROVE  TypeOK'
  <2> DEFINE t == [pc |-> "lock", op |-> "join", user |-> u, room |-> r]
  <2>1. t \in Task /\ TaskOK(t)
    BY <1>2, NoneAssumption DEF Task, Waits, TaskOK, JoinRoom
  <2> QED  BY <1>2, <2>1, StartKeeps DEF JoinRoom, TypeOK, Live
<1>3. ASSUME NEW u \in Users, NEW r \in Rooms, FindInvite(q, u, r)
      PROVE  TypeOK'
  <2> DEFINE t == [pc |-> "existing", op |-> "invite", user |-> u, room |-> r]
  <2>1. t \in Task /\ TaskOK(t)
    BY <1>3, NoneAssumption DEF Task, Waits, TaskOK, FindInvite, TypeOK, Live
  <2> QED  BY <1>3, <2>1, StartKeeps DEF FindInvite, TypeOK, Live
<1>4. ASSUME NEW u \in Users, NEW r \in Rooms, FindRoom(q, u, r)
      PROVE  TypeOK'
  <2> DEFINE t == [pc |-> "existing", op |-> "id", user |-> u, room |-> r]
  <2>1. t \in Task /\ TaskOK(t)
    BY <1>4, NoneAssumption DEF Task, Waits, TaskOK, FindRoom, TypeOK, Live
  <2> QED  BY <1>4, <2>1, StartKeeps DEF FindRoom, TypeOK, Live
<1>5. ASSUME NEW r \in Rooms, CreateInvite(q, r)
      PROVE  TypeOK'
  <2> DEFINE t == [pc |-> "invite", op |-> "createInvite", user |-> owner[r], room |-> r]
  <2>1. t \in Task /\ TaskOK(t)
    BY <1>5, NoneAssumption DEF Task, Waits, TaskOK, CreateInvite, TypeOK, Live
  <2>2. task' \in [Requests -> Task] /\ \A p \in Requests : TaskOK(task[p])'
    BY <1>5, <2>1, StartKeeps DEF CreateInvite
  <2>3. invites' \in [Rooms -> Nat]
    BY <1>5 DEF CreateInvite, TypeOK
  <2> QED  BY <1>5, <2>2, <2>3 DEF CreateInvite, TypeOK, Live
<1> QED  BY <1>1, <1>2, <1>3, <1>4, <1>5 DEF Begin

LEMMA TypeProceed ==
  ASSUME TypeOK, NEW q \in Requests, Proceed(q)
  PROVE  TypeOK'
<1> DEFINE r == task[q].room
           u == task[q].user
<1>0. /\ r \in Rooms \cup {None} /\ u \in Users \cup {None}
      /\ task[q].pc # "idle" => u \in Users
      /\ task[q].pc \notin {"idle", "create"} => r \in Rooms /\ r \in used
  BY NoneAssumption DEF TypeOK, Task, TaskOK
<1>1. ASSUME NEW s \in Rooms, InsertRoom(q, s)
      PROVE  TypeOK'
  <2>1. task' \in [Requests -> Task] /\ \A p \in Requests : TaskOK(task[p])'
    BY <1>1, EndKeeps DEF InsertRoom
  <2>2. owner' \in [Rooms -> Users \cup {None}] /\ members' \in [Rooms -> SUBSET Users]
    BY <1>0, <1>1 DEF InsertRoom, TypeOK
  <2>3. used' \subseteq Rooms /\ invites' \in [Rooms -> Nat]
    BY <1>1 DEF InsertRoom, TypeOK
  <2>4. ASSUME NEW x \in Rooms
        PROVE  IF Live(x)' THEN x \in used' ELSE members'[x] = {} /\ invites'[x] = 0
    <3>1. CASE x = s
      BY <1>0, <1>1, <3>1, NoneAssumption DEF InsertRoom, TypeOK, Live
    <3>2. CASE x # s
      BY <1>1, <3>2 DEF InsertRoom, TypeOK, Live
    <3> QED  BY <3>1, <3>2
  <2> QED  BY <2>1, <2>2, <2>3, <2>4 DEF TypeOK
<1>2. CASE LockRoom(q)
  <2>1. task' \in [Requests -> Task] /\ \A p \in Requests : TaskOK(task[p])'
    BY <1>2, EndKeeps, ContinueKeeps DEF LockRoom
  <2> QED  BY <1>2, <2>1 DEF LockRoom, TypeOK, Live
<1>3. CASE CheckExisting(q)
  <2>1. task' \in [Requests -> Task] /\ \A p \in Requests : TaskOK(task[p])'
    BY <1>3, EndKeeps, ContinueKeeps DEF CheckExisting
  <2> QED  BY <1>3, <2>1 DEF CheckExisting, TypeOK, Live
<1>4. CASE CountJoined(q)
  <2>1. task' \in [Requests -> Task] /\ \A p \in Requests : TaskOK(task[p])'
    BY <1>4, EndKeeps, ContinueKeeps DEF CountJoined
  <2> QED  BY <1>4, <2>1 DEF CountJoined, TypeOK, Live
<1>5. CASE CountMembers(q)
  <2>1. task' \in [Requests -> Task] /\ \A p \in Requests : TaskOK(task[p])'
    BY <1>5, EndKeeps, ContinueKeeps DEF CountMembers
  <2> QED  BY <1>5, <2>1 DEF CountMembers, TypeOK, Live
<1>6. CASE InsertMembership(q)
  <2>1. task' \in [Requests -> Task] /\ \A p \in Requests : TaskOK(task[p])'
    BY <1>6, EndKeeps, ContinueKeeps DEF InsertMembership
  <2> QED  BY <1>6, <2>1 DEF InsertMembership, TypeOK, Live
<1>7. CASE CommitMembership(q)
  <2>1. task' \in [Requests -> Task] /\ \A p \in Requests : TaskOK(task[p])'
    BY <1>7, EndKeeps DEF CommitMembership
  <2>2. members' \in [Rooms -> SUBSET Users]
    BY <1>0, <1>7 DEF CommitMembership, TypeOK
  <2>3. \A x \in Rooms : ~Live(x) => members'[x] = members[x]
    BY <1>0, <1>7 DEF CommitMembership, TypeOK
  <2> QED  BY <1>7, <2>1, <2>2, <2>3 DEF CommitMembership, TypeOK, Live
<1>8. CASE BreakDeadlock(q)
  <2>1. task' \in [Requests -> Task] /\ \A p \in Requests : TaskOK(task[p])'
    BY <1>8, EndKeeps DEF BreakDeadlock
  <2> QED  BY <1>8, <2>1 DEF BreakDeadlock, TypeOK, Live
<1>9. CASE InsertInvite(q)
  <2>1. task' \in [Requests -> Task] /\ \A p \in Requests : TaskOK(task[p])'
    BY <1>9, EndKeeps DEF InsertInvite
  <2>2. invites' \in [Rooms -> Nat]
    BY <1>0, <1>9 DEF InsertInvite, TypeOK
  <2>3. \A x \in Rooms : ~Live(x) => invites'[x] = invites[x]
    BY <1>0, <1>9 DEF InsertInvite, TypeOK
  <2> QED  BY <1>9, <2>1, <2>2, <2>3 DEF InsertInvite, TypeOK, Live
<1> QED  BY <1>1, <1>2, <1>3, <1>4, <1>5, <1>6, <1>7, <1>8, <1>9 DEF Proceed

LEMMA TypeNext == TypeOK /\ [Next]_vars => TypeOK'
<1> SUFFICES ASSUME TypeOK, [Next]_vars
             PROVE  TypeOK'
  OBVIOUS
<1>1. ASSUME NEW q \in Requests, Fail(q)
      PROVE  TypeOK'
  <2>1. task' \in [Requests -> Task] /\ \A p \in Requests : TaskOK(task[p])'
    BY <1>1, EndKeeps DEF Fail
  <2> QED  BY <1>1, <2>1 DEF Fail, TypeOK, Live
<1>2. ASSUME NEW u \in Users, NEW r \in Rooms, RemoveMember(u, r)
      PROVE  TypeOK'
  <2>1. members' \in [Rooms -> SUBSET Users] /\ \A x \in Rooms : members'[x] \subseteq members[x]
    BY <1>2 DEF RemoveMember, TypeOK
  <2>2. \A p \in Requests : TaskOK(task[p])'
    BY <1>2 DEF RemoveMember, TypeOK, TaskOK
  <2> QED  BY <1>2, <2>1, <2>2 DEF RemoveMember, TypeOK, Live
<1>3. ASSUME NEW r \in Rooms, DeleteRoom(r)
      PROVE  TypeOK'
  <2>1. /\ owner' \in [Rooms -> Users \cup {None}] /\ members' \in [Rooms -> SUBSET Users]
        /\ invites' \in [Rooms -> Nat]
    BY <1>3 DEF DeleteRoom, TypeOK
  <2>2. \A p \in Requests : TaskOK(task[p])'
    BY <1>3 DEF DeleteRoom, TypeOK, TaskOK
  <2>3. ASSUME NEW x \in Rooms
        PROVE  IF Live(x)' THEN x \in used' ELSE members'[x] = {} /\ invites'[x] = 0
    BY <1>3 DEF DeleteRoom, TypeOK, Live
  <2> QED  BY <1>3, <2>1, <2>2, <2>3 DEF DeleteRoom, TypeOK
<1>4. CASE UNCHANGED vars
  <2>1. \A p \in Requests : TaskOK(task[p])'
    BY <1>4 DEF vars, TypeOK, TaskOK
  <2> QED  BY <1>4, <2>1 DEF vars, TypeOK, Live
<1> QED  BY <1>1, <1>2, <1>3, <1>4, TypeBegin, TypeProceed DEF Next

\* Types are right in every reachable state, and no row outlives its room.
THEOREM TypeCorrect == Spec => []TypeOK
  BY TypeInit, TypeNext, PTL DEF Spec

-----------------------------------------------------------------------------
(* The owner *)

LEMMA OwnerNext == TypeOK /\ OwnerIsMember /\ [Next]_vars => OwnerIsMember'
<1> SUFFICES ASSUME TypeOK, OwnerIsMember, [Next]_vars
             PROVE  OwnerIsMember'
  OBVIOUS
<1>1. CASE UNCHANGED <<owner, members>>
  BY <1>1 DEF OwnerIsMember, Live
<1>2. ASSUME NEW q \in Requests, NEW r \in Rooms, InsertRoom(q, r)
      PROVE  OwnerIsMember'
  BY <1>2 DEF InsertRoom, TypeOK, OwnerIsMember, Live
<1>3. ASSUME NEW q \in Requests, CommitMembership(q)
      PROVE  OwnerIsMember'
  <2>1. \A x \in Rooms : members[x] \subseteq members'[x]
    BY <1>3 DEF CommitMembership, TypeOK
  <2> QED  BY <1>3, <2>1 DEF CommitMembership, OwnerIsMember, Live
<1>4. ASSUME NEW u \in Users, NEW r \in Rooms, RemoveMember(u, r)
      PROVE  OwnerIsMember'
  BY <1>4 DEF RemoveMember, TypeOK, OwnerIsMember, Live
<1>5. ASSUME NEW r \in Rooms, DeleteRoom(r)
      PROVE  OwnerIsMember'
  BY <1>5 DEF DeleteRoom, TypeOK, OwnerIsMember, Live
<1> QED  BY <1>1, <1>2, <1>3, <1>4, <1>5
         DEF Next, vars, Begin, Proceed, CountOwned, JoinRoom, LockRoom, FindInvite, FindRoom,
             CheckExisting, CountJoined, CountMembers, InsertMembership, BreakDeadlock,
             CreateInvite, InsertInvite, Fail

\* The owner of a room is a member of it in every reachable state.
THEOREM OwnersAreMembers == Spec => []OwnerIsMember
<1>1. Init => OwnerIsMember
  BY DEF Init, OwnerIsMember, Live
<1> QED  BY <1>1, OwnerNext, TypeCorrect, PTL DEF Spec

-----------------------------------------------------------------------------
(* The limits *)

\* A step of a request touches no other, and its account and room change only
\* when it starts or ends.
LEMMA TaskSteps ==
  ASSUME TypeOK, NEW q \in Requests
  PROVE  /\ End(q) => /\ task'[q].pc = "idle"
                      /\ \A p \in Requests \ {q} : task'[p] = task[p]
         /\ \A pc : Continue(q, pc) =>
              /\ task'[q].pc = pc /\ task'[q].op = task[q].op
              /\ task'[q].user = task[q].user /\ task'[q].room = task[q].room
              /\ \A p \in Requests \ {q} : task'[p] = task[p]
         /\ \A pc, op, u, r : Start(q, pc, op, u, r) =>
              /\ task'[q].pc = pc /\ task'[q].op = op
              /\ task'[q].user = u /\ task'[q].room = r
              /\ \A p \in Requests \ {q} : task'[p] = task[p]
<1>1. End(q) => /\ task'[q].pc = "idle"
                /\ \A p \in Requests \ {q} : task'[p] = task[p]
  BY DEF End, Idle, TypeOK
<1>2. ASSUME NEW pc, Continue(q, pc)
      PROVE  /\ task'[q].pc = pc /\ task'[q].op = task[q].op
             /\ task'[q].user = task[q].user /\ task'[q].room = task[q].room
             /\ \A p \in Requests \ {q} : task'[p] = task[p]
  <2>1. task'[q] = [task[q] EXCEPT !.pc = pc]
    BY <1>2 DEF Continue, TypeOK
  <2>2. task[q] \in Task
    BY DEF TypeOK
  <2> QED  BY <1>2, <2>1, <2>2 DEF Continue, TypeOK, Task
<1>3. ASSUME NEW pc, NEW op, NEW u, NEW r, Start(q, pc, op, u, r)
      PROVE  /\ task'[q].pc = pc /\ task'[q].op = op
             /\ task'[q].user = u /\ task'[q].room = r
             /\ \A p \in Requests \ {q} : task'[p] = task[p]
  BY <1>3 DEF Start, TypeOK
<1> QED  BY <1>1, <1>2, <1>3

\* A count starts at nothing.
LEMMA ExcessInit ==
  ASSUME NEW max \in Nat \ {0}
  PROVE  Cardinality({}) + Cardinality({}) <= Excess(max)
<1>1. Cardinality(Requests) \in Nat
  BY FiniteAssumption, FS_CardinalityType
<1> QED  BY <1>1, FS_EmptySet DEF Excess

LEMMA OwnedNext == TypeOK /\ OwnedExcess /\ [Next]_vars => OwnedExcess'
<1> SUFFICES ASSUME TypeOK, OwnedExcess, [Next]_vars, NEW w \in Users
             PROVE  (Cardinality(Owned(w)) + Cardinality(Creating(w)) <= Excess(MaxRooms))'
  BY DEF OwnedExcess
<1> DEFINE A == Owned(w)
           B == Owned(w)'
           E == Creating(w)
           F == Creating(w)'
<1>0. /\ A \in SUBSET Rooms /\ B \in SUBSET Rooms
      /\ E \in SUBSET Requests /\ F \in SUBSET Requests
      /\ Cardinality(A) + Cardinality(E) <= Excess(MaxRooms)
      /\ MaxRooms \in Nat \ {0} /\ IsFiniteSet(Rooms)
  BY PlanAssumption, FiniteAssumption DEF OwnedExcess, Owned, Creating
<1>1. \/ B \subseteq A /\ F \subseteq E
      \/ \E x \in Rooms, q \in E : B \subseteq A \cup {x} /\ F \subseteq E \ {q}
      \/ Cardinality(A) < MaxRooms /\ B \subseteq A
  <2>1. ASSUME NEW q \in Requests, NEW u \in Users, CountOwned(q, u)
        PROVE  \/ B \subseteq A /\ F \subseteq E
               \/ Cardinality(A) < MaxRooms /\ B \subseteq A
    <3>1. CASE u = w
      BY <2>1, <3>1 DEF CountOwned, Owned
    <3>2. CASE u # w
      BY <2>1, <3>2 DEF CountOwned, Owned, Creating, Start, TypeOK
    <3> QED  BY <3>1, <3>2
  <2>2. ASSUME NEW q \in Requests, NEW r \in Rooms, InsertRoom(q, r)
        PROVE  \/ B \subseteq A /\ F \subseteq E
               \/ \E x \in Rooms, p \in E : B \subseteq A \cup {x} /\ F \subseteq E \ {p}
    <3>1. CASE task[q].user = w
      <4>1. q \in E /\ F \subseteq E \ {q}
        BY <2>2, <3>1 DEF InsertRoom, Creating, End, Idle, TypeOK
      <4>2. B \subseteq A \cup {r}
        BY <2>2 DEF InsertRoom, Owned, TypeOK
      <4> QED  BY <4>1, <4>2
    <3>2. CASE task[q].user # w
      BY <2>2, <3>2 DEF InsertRoom, Owned, Creating, End, Idle, TypeOK
    <3> QED  BY <3>1, <3>2
  <2>3. ASSUME NEW r \in Rooms, DeleteRoom(r)
        PROVE  B \subseteq A /\ F \subseteq E
    BY <2>3, NoneAssumption DEF DeleteRoom, Owned, Creating, TypeOK
  <2>4. ASSUME UNCHANGED owner, NEW q \in Requests,
               \/ End(q)
               \/ \E pc \in {"existing", "joined", "full", "insert", "commit"} : Continue(q, pc)
               \/ \E pc \in {"lock", "existing", "invite"} : \E op, u, r : Start(q, pc, op, u, r)
        PROVE  B \subseteq A /\ F \subseteq E
    BY <2>4, TaskSteps DEF Owned, Creating
  <2>5. CASE UNCHANGED <<owner, task>>
    BY <2>5 DEF Owned, Creating
  <2> QED  BY <2>1, <2>2, <2>3, <2>4, <2>5
           DEF Next, vars, Begin, Proceed, JoinRoom, LockRoom, FindInvite, FindRoom,
               CheckExisting, CountJoined, CountMembers, InsertMembership, CommitMembership,
               BreakDeadlock, CreateInvite, InsertInvite, RemoveMember, Fail
<1>2. Cardinality(B) + Cardinality(F) <= Excess(MaxRooms)
  BY <1>0, <1>1, ExcessSteps, FiniteAssumption DEF Excess
<1> QED  BY <1>2 DEF Excess

\* With n requests at a time nobody owns more than n - 1 rooms too many.
THEOREM OwnedBounded == Spec => []OwnedExcess
<1>1. Init => OwnedExcess
  <2> SUFFICES ASSUME Init, NEW u \in Users
               PROVE  Cardinality(Owned(u)) + Cardinality(Creating(u)) <= Excess(MaxRooms)
    BY DEF OwnedExcess
  <2>1. Owned(u) = {} /\ Creating(u) = {}
    BY NoneAssumption DEF Init, Owned, Creating, Idle
  <2> QED  BY <2>1, ExcessInit, PlanAssumption
<1> QED  BY <1>1, OwnedNext, TypeCorrect, PTL DEF Spec

LEMMA MembersNext == TypeOK /\ MembersExcess /\ [Next]_vars => MembersExcess'
<1> SUFFICES ASSUME TypeOK, MembersExcess, [Next]_vars, NEW s \in Rooms
             PROVE  (Cardinality(members[s]) + Cardinality(Entering(s)) <= Excess(MaxMembers))'
  BY DEF MembersExcess
<1> DEFINE A == members[s]
           B == members'[s]
           E == Entering(s)
           F == Entering(s)'
<1>0. /\ A \in SUBSET Users /\ B \in SUBSET Users
      /\ E \in SUBSET Requests /\ F \in SUBSET Requests
      /\ Cardinality(A) + Cardinality(E) <= Excess(MaxMembers)
      /\ MaxMembers \in Nat \ {0} /\ IsFiniteSet(Users)
  <2>1. TypeOK'
    BY TypeNext
  <2> QED  BY <2>1, PlanAssumption, FiniteAssumption DEF MembersExcess, Entering, TypeOK
<1>1. \/ B \subseteq A /\ F \subseteq E
      \/ \E x \in Users, q \in E : B \subseteq A \cup {x} /\ F \subseteq E \ {q}
      \/ Cardinality(A) < MaxMembers /\ B \subseteq A
      \/ \E x \in Users, q \in Requests : B \subseteq {x} /\ F \subseteq Requests \ {q}
  <2>1. ASSUME NEW q \in Requests, CountMembers(q)
        PROVE  \/ B \subseteq A /\ F \subseteq E
               \/ Cardinality(A) < MaxMembers /\ B \subseteq A
    <3>1. CASE Cardinality(members[task[q].room]) >= MaxMembers
      BY <2>1, <3>1 DEF CountMembers, Entering, End, Idle, TypeOK
    <3>2. CASE ~(Cardinality(members[task[q].room]) >= MaxMembers)
      <4>1. CASE task[q].room = s
        <5>1. Cardinality(A) \in Nat
          BY <1>0, FS_Subset, FS_CardinalityType
        <5> QED  BY <1>0, <2>1, <3>2, <4>1, <5>1 DEF CountMembers
      <4>2. CASE task[q].room # s
        <5>1. Continue(q, "insert") /\ UNCHANGED members
          BY <2>1, <3>2 DEF CountMembers
        <5>2. F \subseteq E
          BY <4>2, <5>1, TaskSteps DEF Entering
        <5> QED  BY <5>1, <5>2
      <4> QED  BY <4>1, <4>2
    <3> QED  BY <3>1, <3>2
  <2>2. ASSUME NEW q \in Requests, CommitMembership(q)
        PROVE  \/ B \subseteq A /\ F \subseteq E
               \/ \E x \in Users, p \in E : B \subseteq A \cup {x} /\ F \subseteq E \ {p}
    <3>1. CASE task[q].room = s
      <4>1. q \in E /\ F \subseteq E \ {q}
        BY <2>2, <3>1, NoneAssumption DEF CommitMembership, Entering, End, Idle, TypeOK
      <4>2. B \subseteq A \cup {task[q].user}
        BY <2>2, <3>1 DEF CommitMembership, TypeOK
      <4>3. task[q].user \in Users
        BY <2>2 DEF CommitMembership, TypeOK, TaskOK, Task
      <4> QED  BY <4>1, <4>2, <4>3
    <3>2. CASE task[q].room # s
      BY <2>2, <3>2 DEF CommitMembership, Entering, End, Idle, TypeOK
    <3> QED  BY <3>1, <3>2
  <2>3. ASSUME NEW q \in Requests, NEW r \in Rooms, InsertRoom(q, r)
        PROVE  \/ B \subseteq A /\ F \subseteq E
               \/ \E x \in Users, p \in Requests : B \subseteq {x} /\ F \subseteq Requests \ {p}
    <3>1. task[q].user \in Users
      BY <2>3 DEF InsertRoom, TypeOK, TaskOK, Task
    <3>2. F \subseteq E /\ F \subseteq Requests \ {q}
      BY <2>3 DEF InsertRoom, Entering, End, Idle, TypeOK
    <3>3. B \subseteq A \/ B \subseteq {task[q].user}
      BY <2>3 DEF InsertRoom, TypeOK
    <3> QED  BY <3>1, <3>2, <3>3
  <2>4. ASSUME NEW r \in Rooms, NEW u \in Users, RemoveMember(u, r)
        PROVE  B \subseteq A /\ F \subseteq E
    BY <2>4 DEF RemoveMember, Entering, TypeOK
  <2>5. ASSUME UNCHANGED members, NEW q \in Requests,
               \/ End(q)
               \/ \E pc \in {"existing", "joined", "full"} : Continue(q, pc)
               \/ task[q].pc = "insert" /\ Continue(q, "commit")
               \/ \E pc \in {"create", "lock", "existing", "invite"} : \E op, u, r : Start(q, pc, op, u, r)
        PROVE  B \subseteq A /\ F \subseteq E
    <3>1. ASSUME NEW p \in F
          PROVE  p \in E
      <4>1. CASE p = q
        BY <2>5, <3>1, <4>1, TaskSteps DEF Entering
      <4>2. CASE p # q
        BY <2>5, <3>1, <4>2, TaskSteps DEF Entering
      <4> QED  BY <4>1, <4>2
    <3> QED  BY <2>5, <3>1
  <2>6. CASE UNCHANGED <<members, task>>
    BY <2>6 DEF Entering
  <2>7. ASSUME NEW r \in Rooms, DeleteRoom(r)
        PROVE  B \subseteq A /\ F \subseteq E
    BY <2>7 DEF DeleteRoom, Entering, TypeOK
  <2> QED  BY <2>1, <2>2, <2>3, <2>4, <2>5, <2>6, <2>7
           DEF Next, vars, Begin, Proceed, CountOwned, JoinRoom, LockRoom, FindInvite, FindRoom,
               CheckExisting, CountJoined, InsertMembership,
               BreakDeadlock, CreateInvite, InsertInvite, Fail
<1>2. Cardinality(B) + Cardinality(F) <= Excess(MaxMembers)
  BY <1>0, <1>1, ExcessSteps, FiniteAssumption DEF Excess
<1> QED  BY <1>2 DEF Excess

\* With n requests at a time no room has more than n - 1 members too many.
THEOREM MembersBounded == Spec => []MembersExcess
<1>1. Init => MembersExcess
  <2> SUFFICES ASSUME Init, NEW r \in Rooms
               PROVE  Cardinality(members[r]) + Cardinality(Entering(r)) <= Excess(MaxMembers)
    BY DEF MembersExcess
  <2>1. members[r] = {} /\ Entering(r) = {}
    BY DEF Init, Entering, Idle
  <2> QED  BY <2>1, ExcessInit, PlanAssumption
<1> QED  BY <1>1, MembersNext, TypeCorrect, PTL DEF Spec

LEMMA JoinedNext == TypeOK /\ JoinedExcess /\ [Next]_vars => JoinedExcess'
<1> SUFFICES ASSUME TypeOK, JoinedExcess, [Next]_vars, NEW w \in Users
             PROVE  (Cardinality(Joined(w)) + Cardinality(Joining(w)) <= Excess(MaxJoined))'
  BY DEF JoinedExcess
<1> DEFINE A == Joined(w)
           B == Joined(w)'
           E == Joining(w)
           F == Joining(w)'
<1>0. /\ A \in SUBSET Rooms /\ B \in SUBSET Rooms
      /\ E \in SUBSET Requests /\ F \in SUBSET Requests
      /\ Cardinality(A) + Cardinality(E) <= Excess(MaxJoined)
      /\ MaxJoined \in Nat \ {0} /\ IsFiniteSet(Rooms)
  BY PlanAssumption, FiniteAssumption DEF JoinedExcess, Joined, Memberships, Joining
<1>1. \/ B \subseteq A /\ F \subseteq E
      \/ \E x \in Rooms, q \in E : B \subseteq A \cup {x} /\ F \subseteq E \ {q}
      \/ Cardinality(A) < MaxJoined /\ B \subseteq A
  <2>1. ASSUME NEW q \in Requests, CountJoined(q)
        PROVE  \/ B \subseteq A /\ F \subseteq E
               \/ Cardinality(A) < MaxJoined /\ B \subseteq A
    <3>0. B = A
      BY <2>1 DEF CountJoined, Joined, Memberships, Owned
    <3>1. CASE Cardinality(Memberships(task[q].user)) >= MaxJoined
      <4>1. End(q)
        BY <2>1, <3>1 DEF CountJoined
      <4>2. F \subseteq E
        BY <4>1, TaskSteps DEF Joining
      <4> QED  BY <3>0, <4>2
    <3>2. CASE ~(Cardinality(Memberships(task[q].user)) >= MaxJoined)
      <4>1. Continue(q, "full")
        BY <2>1, <3>2 DEF CountJoined
      <4>2. CASE task[q].user = w
        <5>1. IsFiniteSet(Memberships(w)) /\ Cardinality(Memberships(w)) \in Nat
          BY FiniteAssumption, FS_Subset, FS_CardinalityType, Memberships(w) \subseteq Rooms DEF Memberships
        <5>2. Cardinality(A) <= Cardinality(Memberships(w)) /\ Cardinality(A) \in Nat
          BY <5>1, FS_Subset, FS_CardinalityType DEF Joined
        <5> QED  BY <1>0, <3>0, <3>2, <4>2, <5>1, <5>2
      <4>3. CASE task[q].user # w
        <5>1. F \subseteq E
          BY <4>1, <4>3, TaskSteps DEF Joining
        <5> QED  BY <3>0, <5>1
      <4> QED  BY <4>2, <4>3
    <3> QED  BY <3>1, <3>2
  <2>2. ASSUME NEW q \in Requests, CommitMembership(q)
        PROVE  \/ B \subseteq A /\ F \subseteq E
               \/ \E x \in Rooms, p \in E : B \subseteq A \cup {x} /\ F \subseteq E \ {p}
    <3>0. task[q].pc = "commit" /\ End(q) /\ UNCHANGED owner
      BY <2>2 DEF CommitMembership
    <3>1. CASE task[q].user = w
      <4>1. q \in E /\ F \subseteq E \ {q}
        BY <3>0, <3>1, TaskSteps DEF Joining
      <4>2. task[q].room \in Rooms
        BY <3>0 DEF TypeOK, TaskOK
      <4>3. B \subseteq A \cup {task[q].room}
        BY <2>2, <3>1 DEF CommitMembership, Joined, Memberships, Owned, TypeOK
      <4> QED  BY <4>1, <4>2, <4>3
    <3>2. CASE task[q].user # w
      <4>1. F \subseteq E
        BY <3>0, TaskSteps DEF Joining
      <4>2. B \subseteq A
        BY <2>2, <3>2 DEF CommitMembership, Joined, Memberships, Owned, TypeOK
      <4> QED  BY <4>1, <4>2
    <3> QED  BY <3>1, <3>2
  <2>3. ASSUME NEW q \in Requests, NEW r \in Rooms, InsertRoom(q, r)
        PROVE  B \subseteq A /\ F \subseteq E
    <3>1. F \subseteq E
      BY <2>3, TaskSteps DEF InsertRoom, Joining
    <3>2. B \subseteq A
      BY <2>3 DEF InsertRoom, Joined, Memberships, Owned, TypeOK
    <3> QED  BY <3>1, <3>2
  <2>4. ASSUME NEW r \in Rooms, NEW u \in Users, RemoveMember(u, r)
        PROVE  B \subseteq A /\ F \subseteq E
    BY <2>4 DEF RemoveMember, Joined, Memberships, Owned, Joining, TypeOK
  <2>5. ASSUME UNCHANGED <<owner, members>>, NEW q \in Requests,
               \/ End(q)
               \/ \E pc \in {"existing", "joined"} : Continue(q, pc)
               \/ task[q].pc = "full" /\ Continue(q, "insert")
               \/ task[q].pc = "insert" /\ Continue(q, "commit")
               \/ \E pc \in {"create", "lock", "existing", "invite"} : \E op, u, r : Start(q, pc, op, u, r)
        PROVE  B \subseteq A /\ F \subseteq E
    <3>1. ASSUME NEW p \in F
          PROVE  p \in E
      <4>1. CASE p = q
        BY <2>5, <3>1, <4>1, TaskSteps DEF Joining
      <4>2. CASE p # q
        BY <2>5, <3>1, <4>2, TaskSteps DEF Joining
      <4> QED  BY <4>1, <4>2
    <3>2. B = A
      BY <2>5 DEF Joined, Memberships, Owned
    <3> QED  BY <3>1, <3>2
  <2>6. CASE UNCHANGED <<owner, members, task>>
    BY <2>6 DEF Joined, Memberships, Owned, Joining
  <2>7. ASSUME NEW r \in Rooms, DeleteRoom(r)
        PROVE  B \subseteq A /\ F \subseteq E
    BY <2>7 DEF DeleteRoom, Joined, Memberships, Owned, Joining, TypeOK
  <2> QED  BY <2>1, <2>2, <2>3, <2>4, <2>5, <2>6, <2>7
           DEF Next, vars, Begin, Proceed, CountOwned, JoinRoom, LockRoom, FindInvite, FindRoom,
               CheckExisting, CountMembers, InsertMembership,
               BreakDeadlock, CreateInvite, InsertInvite, Fail
<1>2. Cardinality(B) + Cardinality(F) <= Excess(MaxJoined)
  BY <1>0, <1>1, ExcessSteps, FiniteAssumption DEF Excess
<1> QED  BY <1>2 DEF Excess

\* With n requests at a time nobody joins more than n - 1 rooms too many.
THEOREM JoinedBounded == Spec => []JoinedExcess
<1>1. Init => JoinedExcess
  <2> SUFFICES ASSUME Init, NEW u \in Users
               PROVE  Cardinality(Joined(u)) + Cardinality(Joining(u)) <= Excess(MaxJoined)
    BY DEF JoinedExcess
  <2>1. Joined(u) = {} /\ Joining(u) = {}
    BY DEF Init, Joined, Memberships, Joining, Idle
  <2> QED  BY <2>1, ExcessInit, PlanAssumption
<1> QED  BY <1>1, JoinedNext, TypeCorrect, PTL DEF Spec

LEMMA InvitesNext == TypeOK /\ InvitesExcess /\ [Next]_vars => InvitesExcess'
<1> SUFFICES ASSUME TypeOK, InvitesExcess, [Next]_vars, NEW s \in Rooms
             PROVE  (invites[s] + Cardinality(Inviting(s)) <= Cardinality(Requests))'
  BY DEF InvitesExcess
<1> DEFINE E == Inviting(s)
           F == Inviting(s)'
           K == Cardinality(Requests)
<1>0. /\ IsFiniteSet(E) /\ IsFiniteSet(F) /\ Cardinality(E) \in Nat /\ Cardinality(F) \in Nat
      /\ Cardinality(F) <= K /\ K \in Nat
      /\ invites[s] \in Nat /\ invites[s] + Cardinality(E) <= K
  <2>1. E \subseteq Requests /\ F \subseteq Requests
    BY DEF Inviting
  <2> QED  BY <2>1, FiniteAssumption, FS_Subset, FS_CardinalityType DEF InvitesExcess, TypeOK
<1>1. ASSUME F \subseteq E, invites'[s] = invites[s]
      PROVE  invites'[s] + Cardinality(F) <= K
  <2>1. Cardinality(F) <= Cardinality(E)
    BY <1>0, <1>1, FS_Subset
  <2> QED  BY <1>0, <1>1, <2>1
<1>2. ASSUME NEW q \in Requests, InsertInvite(q)
      PROVE  invites'[s] + Cardinality(F) <= K
  <2>0. End(q) /\ task[q].pc = "invite"
    BY <1>2 DEF InsertInvite
  <2>1. CASE task[q].room = s
    <3>1. q \in E /\ F \subseteq E \ {q}
      BY <2>0, <2>1, TaskSteps DEF Inviting
    <3>2. IsFiniteSet(E \ {q}) /\ Cardinality(E \ {q}) = Cardinality(E) - 1
      BY <1>0, <3>1, FS_RemoveElement
    <3>3. Cardinality(F) <= Cardinality(E \ {q})
      BY <3>1, <3>2, FS_Subset
    <3>4. invites'[s] = invites[s] \/ invites'[s] = invites[s] + 1
      BY <1>2, <2>1 DEF InsertInvite, TypeOK
    <3> QED  BY <1>0, <3>2, <3>3, <3>4
  <2>2. CASE task[q].room # s
    <3>1. F \subseteq E
      BY <2>0, TaskSteps DEF Inviting
    <3>2. invites'[s] = invites[s]
      BY <1>2, <2>2 DEF InsertInvite, TypeOK
    <3> QED  BY <1>1, <3>1, <3>2
  <2> QED  BY <2>1, <2>2
<1>3. ASSUME NEW q \in Requests, NEW r \in Rooms, CreateInvite(q, r)
      PROVE  invites'[s] + Cardinality(F) <= K
  <2>1. CASE r = s
    BY <1>0, <1>3, <2>1 DEF CreateInvite, TypeOK
  <2>2. CASE r # s
    <3>1. F \subseteq E
      <4> SUFFICES ASSUME NEW p \in F PROVE p \in E
        OBVIOUS
      <4>1. CASE p = q
        BY <1>3, <2>2, <4>1, TaskSteps DEF Inviting, CreateInvite
      <4>2. CASE p # q
        BY <1>3, <4>2, TaskSteps DEF Inviting, CreateInvite
      <4> QED  BY <4>1, <4>2
    <3>2. invites'[s] = invites[s]
      BY <1>3, <2>2 DEF CreateInvite, TypeOK
    <3> QED  BY <1>1, <3>1, <3>2
  <2> QED  BY <2>1, <2>2
<1>4. ASSUME UNCHANGED invites, NEW q \in Requests,
             \/ End(q)
             \/ \E pc \in {"existing", "joined", "full", "insert", "commit"} : Continue(q, pc)
             \/ \E pc \in {"create", "lock", "existing"} : \E op, u, r : Start(q, pc, op, u, r)
      PROVE  invites'[s] + Cardinality(F) <= K
  <2>1. ASSUME NEW p \in F
        PROVE  p \in E
    <3>1. CASE p = q
      BY <1>4, <2>1, <3>1, TaskSteps DEF Inviting
    <3>2. CASE p # q
      BY <1>4, <2>1, <3>2, TaskSteps DEF Inviting
    <3> QED  BY <3>1, <3>2
  <2> QED  BY <1>1, <1>4, <2>1
<1>5. ASSUME NEW r \in Rooms, DeleteRoom(r)
      PROVE  invites'[s] + Cardinality(F) <= K
  <2>1. F = E
    BY <1>5 DEF DeleteRoom, Inviting
  <2>2. invites'[s] = invites[s] \/ invites'[s] = 0
    BY <1>5 DEF DeleteRoom, TypeOK
  <2> QED  BY <1>0, <2>1, <2>2
<1>6. CASE UNCHANGED <<invites, task>>
  BY <1>1, <1>6 DEF Inviting
<1>7. invites'[s] + Cardinality(F) <= K
  BY <1>2, <1>3, <1>4, <1>5, <1>6
  DEF Next, vars, Begin, Proceed, CountOwned, InsertRoom, JoinRoom, LockRoom, FindInvite,
      FindRoom, CheckExisting, CountJoined, CountMembers, InsertMembership, CommitMembership,
      BreakDeadlock, RemoveMember, Fail
<1> QED  BY <1>7

\* With n requests at a time a room has no more than n valid invites.
THEOREM InvitesBounded == Spec => []InvitesExcess
<1>1. Init => InvitesExcess
  <2> SUFFICES ASSUME Init, NEW r \in Rooms
               PROVE  invites[r] + Cardinality(Inviting(r)) <= Cardinality(Requests)
    BY DEF InvitesExcess
  <2>1. invites[r] = 0 /\ Inviting(r) = {}
    BY DEF Init, Inviting, Idle
  <2> QED  BY <2>1, FS_EmptySet, FS_CardinalityType, FiniteAssumption
<1> QED  BY <1>1, InvitesNext, TypeCorrect, PTL DEF Spec

-----------------------------------------------------------------------------
(* The lock of the room row *)

\* When joinRoom is the only way in, a request that has passed the check of the
\* members still finds room for its own: it holds the lock, and it alone.
OneHolder == \A r \in Rooms, p, q \in Requests : HoldsLock(p, r) /\ HoldsLock(q, r) => p = q
HolderFits == \A q \in Requests :
  task[q].pc \in {"insert", "commit"} => Cardinality(members[task[q].room]) < MaxMembers

LEMMA OneHolderNext == TypeOK /\ OneHolder /\ [Next]_vars => OneHolder'
<1> SUFFICES ASSUME TypeOK, OneHolder, [Next]_vars
             PROVE  OneHolder'
  OBVIOUS
<1> DEFINE Inside == {"existing", "joined", "full", "insert", "commit"}
<1>1. ASSUME NEW q \in Requests,
             \/ End(q)
             \/ \E pc \in Inside : task[q].pc \in Inside /\ Continue(q, pc)
             \/ \E pc, op, u, r : Start(q, pc, op, u, r) /\ (op = "join" => pc = "lock")
      PROVE  OneHolder'
  <2>1. \A r \in Rooms, p \in Requests : HoldsLock(p, r)' => HoldsLock(p, r)
    <3> SUFFICES ASSUME NEW r \in Rooms, NEW p \in Requests, HoldsLock(p, r)'
                 PROVE  HoldsLock(p, r)
      OBVIOUS
    <3>1. CASE p = q
      BY <1>1, <3>1, TaskSteps DEF HoldsLock
    <3>2. CASE p # q
      BY <1>1, <3>2, TaskSteps DEF HoldsLock
    <3> QED  BY <3>1, <3>2
  <2> QED  BY <2>1 DEF OneHolder
<1>2. ASSUME NEW q \in Requests, LockRoom(q)
      PROVE  OneHolder'
  <2>1. CASE End(q)
    BY <1>1, <2>1
  <2>2. CASE Continue(q, "existing")
    <3> SUFFICES ASSUME NEW r \in Rooms, NEW p1 \in Requests, NEW p2 \in Requests,
                        HoldsLock(p1, r)', HoldsLock(p2, r)'
                 PROVE  p1 = p2
      BY DEF OneHolder
    <3>1. \A p \in Requests \ {q} : HoldsLock(p, r)' => HoldsLock(p, r)
      BY <2>2, TaskSteps DEF HoldsLock
    <3>2. HoldsLock(q, r)' => \A p \in Requests \ {q} : ~HoldsLock(p, r)
      BY <1>2, <2>2, TaskSteps DEF HoldsLock, LockRoom, Blocked, LockedByOther
    <3> QED  BY <3>1, <3>2 DEF OneHolder
  <2> QED  BY <1>2, <2>1, <2>2 DEF LockRoom
<1>3. CASE UNCHANGED task
  BY <1>3 DEF OneHolder, HoldsLock
<1> QED  BY <1>1, <1>2, <1>3
         DEF Next, vars, Begin, Proceed, CountOwned, InsertRoom, JoinRoom, FindInvite, FindRoom,
             CheckExisting, CountJoined, CountMembers, InsertMembership, CommitMembership,
             BreakDeadlock, CreateInvite, InsertInvite, RemoveMember, DeleteRoom, Fail

LEMMA HolderNext ==
  Endpoints \subseteq {"join"} =>
    (TypeOK /\ OneHolder /\ HolderFits /\ [Next]_vars => HolderFits')
<1> SUFFICES ASSUME Endpoints \subseteq {"join"}, TypeOK, OneHolder, HolderFits, [Next]_vars,
                    NEW p \in Requests, task'[p].pc \in {"insert", "commit"}
             PROVE  Cardinality(members'[task'[p].room]) < MaxMembers
  BY DEF HolderFits
<1> DEFINE s == task[p].room
<1>0. \A x \in Rooms : /\ members[x] \subseteq Users /\ IsFiniteSet(members[x])
                        /\ Cardinality(members[x]) \in Nat
  BY FiniteAssumption, FS_Subset, FS_CardinalityType DEF TypeOK
<1>1. task[p].pc \notin {"idle", "create"} => s \in Rooms /\ s \in used
  BY NoneAssumption DEF TypeOK, Task, TaskOK
<1>2. task[p].pc \in {"insert", "commit"} => s \in Rooms /\ HoldsLock(p, s)
  BY <1>1 DEF TypeOK, TaskOK, Task, HoldsLock
<1>3. ASSUME NEW q \in Requests, CountMembers(q)
      PROVE  Cardinality(members'[task'[p].room]) < MaxMembers
  <2>1. CASE Cardinality(members[task[q].room]) >= MaxMembers
    <3>1. End(q) /\ UNCHANGED members
      BY <1>3, <2>1 DEF CountMembers
    <3> QED  BY <3>1, TaskSteps DEF HolderFits
  <2>2. CASE ~(Cardinality(members[task[q].room]) >= MaxMembers)
    <3>1. Continue(q, "insert") /\ UNCHANGED members /\ task[q].pc = "full"
      BY <1>3, <2>2 DEF CountMembers
    <3>2. CASE p = q
      <4>1. s \in Rooms /\ task'[p].room = s
        BY <1>1, <3>1, <3>2, TaskSteps
      <4> QED  BY <1>0, <2>2, <3>1, <3>2, <4>1, PlanAssumption
    <3>3. CASE p # q
      BY <3>1, <3>3, TaskSteps DEF HolderFits
    <3> QED  BY <3>2, <3>3
  <2> QED  BY <2>1, <2>2
<1>4. ASSUME NEW q \in Requests, CommitMembership(q)
      PROVE  Cardinality(members'[task'[p].room]) < MaxMembers
  <2>1. End(q) /\ task[q].pc = "commit"
    BY <1>4 DEF CommitMembership
  <2>2. p # q /\ task'[p] = task[p]
    BY <2>1, TaskSteps
  <2>3. task[q].room # s
    <3>1. task[q].room \in Rooms /\ HoldsLock(q, task[q].room)
      BY <2>1, NoneAssumption DEF TypeOK, TaskOK, Task, HoldsLock
    <3> QED  BY <1>2, <2>2, <3>1 DEF OneHolder
  <2>4. members'[s] = members[s]
    BY <1>2, <1>4, <2>2, <2>3 DEF CommitMembership, TypeOK
  <2> QED  BY <2>2, <2>4 DEF HolderFits
<1>5. ASSUME NEW q \in Requests, NEW r \in Rooms, InsertRoom(q, r)
      PROVE  Cardinality(members'[task'[p].room]) < MaxMembers
  <2>1. p # q /\ task'[p] = task[p]
    BY <1>5, TaskSteps DEF InsertRoom
  <2>2. r # s
    BY <1>1, <1>5, <2>1 DEF InsertRoom
  <2>3. members'[s] = members[s]
    BY <1>2, <1>5, <2>1, <2>2 DEF InsertRoom, TypeOK
  <2> QED  BY <2>1, <2>3 DEF HolderFits
<1>6. ASSUME UNCHANGED task, \A x \in Rooms : members'[x] \subseteq members[x]
      PROVE  Cardinality(members'[task'[p].room]) < MaxMembers
  <2>1. s \in Rooms /\ task'[p] = task[p] /\ Cardinality(members[s]) < MaxMembers
    BY <1>2, <1>6 DEF HolderFits
  <2>2. Cardinality(members'[s]) <= Cardinality(members[s]) /\ IsFiniteSet(members'[s])
    BY <1>0, <1>6, <2>1, FS_Subset
  <2>3. Cardinality(members'[s]) \in Nat
    BY <2>2, FS_CardinalityType
  <2> QED  BY <1>0, <2>1, <2>2, <2>3, PlanAssumption
<1>7. ASSUME NEW u \in Users, NEW r \in Rooms, RemoveMember(u, r)
      PROVE  Cardinality(members'[task'[p].room]) < MaxMembers
  BY <1>6, <1>7 DEF RemoveMember, TypeOK
<1>8. ASSUME UNCHANGED members, NEW q \in Requests,
             \/ End(q)
             \/ \E pc \in {"existing", "joined", "full"} : Continue(q, pc)
             \/ task[q].pc = "insert" /\ Continue(q, "commit")
             \/ \E pc \in {"create", "lock", "existing", "invite"} : \E op, u, r : Start(q, pc, op, u, r)
      PROVE  Cardinality(members'[task'[p].room]) < MaxMembers
  <2>1. task[p].pc \in {"insert", "commit"} /\ task'[p].room = s
    <3>1. CASE p = q
      BY <1>8, <3>1, TaskSteps
    <3>2. CASE p # q
      BY <1>8, <3>2, TaskSteps
    <3> QED  BY <3>1, <3>2
  <2> QED  BY <1>8, <2>1 DEF HolderFits
<1>9. CASE UNCHANGED vars
  BY <1>9 DEF vars, HolderFits
<1>10. ASSUME NEW r \in Rooms, DeleteRoom(r)
       PROVE  Cardinality(members'[task'[p].room]) < MaxMembers
  BY <1>6, <1>10 DEF DeleteRoom, TypeOK
<1> QED  BY <1>3, <1>4, <1>5, <1>7, <1>8, <1>9, <1>10
         DEF Next, Begin, Proceed, CountOwned, JoinRoom, LockRoom, FindInvite, FindRoom,
             CheckExisting, CountJoined, InsertMembership,
             BreakDeadlock, CreateInvite, InsertInvite, Fail

\* Every step of the service is a step of CappedRooms or leaves its rows alone.
LEMMA CappedStep ==
  Endpoints \subseteq {"join"} =>
    (TypeOK /\ HolderFits /\ [Next]_vars => [Capped!Next]_<<owner, members>>)
<1> SUFFICES ASSUME Endpoints \subseteq {"join"}, TypeOK, HolderFits, [Next]_vars
             PROVE  [Capped!Next]_<<owner, members>>
  OBVIOUS
<1>1. ASSUME NEW q \in Requests, NEW r \in Rooms, InsertRoom(q, r)
      PROVE  \E u \in Users : Capped!Open(u, r)
  <2>1. task[q].user \in Users
    BY <1>1 DEF InsertRoom, TypeOK, TaskOK, Task
  <2>2. owner[r] = None
    BY <1>1 DEF InsertRoom, TypeOK, Live
  <2> QED  BY <1>1, <2>1, <2>2 DEF InsertRoom, Capped!Open
<1>2. ASSUME NEW q \in Requests, CommitMembership(q)
      PROVE  \/ UNCHANGED <<owner, members>>
             \/ \E r \in Rooms, u \in Users : Capped!Admit(u, r)
  <2> DEFINE u == task[q].user
             r == task[q].room
  <2>1. u \in Users /\ r \in Rooms /\ task[q].pc = "commit"
    BY <1>2 DEF CommitMembership, TypeOK, TaskOK, Task
  <2>2. CASE ~Live(r) \/ u \in members[r]
    BY <1>2, <2>1, <2>2 DEF CommitMembership, TypeOK
  <2>3. CASE Live(r) /\ u \notin members[r]
    <3>1. members' = [members EXCEPT ![r] = @ \cup {u}] /\ UNCHANGED owner
      BY <1>2, <2>3 DEF CommitMembership
    <3>2. Capped!Cardinality(members[r]) < MaxMembers
      <4>1. Cardinality(members[r]) < MaxMembers
        BY <2>1 DEF HolderFits
      <4>2. Capped!Cardinality(members[r]) = Cardinality(members[r])
        BY Zenon DEF Cardinality, Capped!Cardinality
      <4> QED  BY <4>1, <4>2
    <3>3. Capped!Admit(u, r)
      BY <2>3, <3>1, <3>2 DEF Capped!Admit, Live
    <3> QED  BY <2>1, <3>3
  <2> QED  BY <2>2, <2>3
<1>3. ASSUME NEW u \in Users, NEW r \in Rooms, RemoveMember(u, r)
      PROVE  Capped!Dismiss(u, r)
  BY <1>3 DEF RemoveMember, Capped!Dismiss
<1>4. ASSUME NEW r \in Rooms, DeleteRoom(r)
      PROVE  Capped!Close(r)
  BY <1>4 DEF DeleteRoom, Live, Capped!Close
<1>5. CASE UNCHANGED <<owner, members>>
  BY <1>5
<1> QED  BY <1>1, <1>2, <1>3, <1>4, <1>5
         DEF Next, vars, Begin, Proceed, CountOwned, JoinRoom, LockRoom, FindInvite, FindRoom,
             CheckExisting, CountJoined, CountMembers, InsertMembership, BreakDeadlock,
             CreateInvite, InsertInvite, Fail, Capped!Next

\* As long as clients join by joinRoom alone, the service implements CappedRooms:
\* the row lock keeps every room within maxMembersPerRoom.
THEOREM LockImplementsCap ==
  ASSUME Endpoints \subseteq {"join"}
  PROVE  Spec => RefinesCapped
<1>1. Init => Capped!Init /\ OneHolder /\ HolderFits
  BY DEF Init, Capped!Init, OneHolder, HolderFits, HoldsLock, Idle
<1>2. TypeOK /\ OneHolder /\ HolderFits /\ [Next]_vars => HolderFits'
  BY HolderNext
<1>3. TypeOK /\ HolderFits /\ [Next]_vars => [Capped!Next]_<<owner, members>>
  BY CappedStep
<1> QED  BY <1>1, <1>2, <1>3, OneHolderNext, TypeCorrect, PTL DEF Spec, RefinesCapped, Capped!Spec

-----------------------------------------------------------------------------
(* Waiting for one another *)

\* Who holds the lock of a room can go on, or waits for an insert that waits for
\* that lock: a cycle of two, which the database breaks.
LEMMA HolderIsNotStuck ==
  ASSUME TypeOK, OneHolder, NEW r \in Rooms, NEW p \in Requests, HoldsLock(p, r)
  PROVE  p \in Waiting /\ (~Blocked(p) \/ InDeadlock(p))
<1>0. /\ task[p].room = r
      /\ task[p].pc \in {"existing", "joined", "full", "insert", "commit"}
  BY DEF HoldsLock
<1>1. p \in Waiting
  BY <1>0 DEF Waiting
<1>2. CASE task[p].pc \in {"existing", "joined", "full"}
  BY <1>1, <1>2 DEF Blocked
<1>3. CASE task[p].pc = "commit"
  <2>1. ~LockedByOther(p, r)
    BY DEF LockedByOther, OneHolder
  <2> QED  BY <1>0, <1>1, <1>3, <2>1 DEF Blocked
<1>4. CASE task[p].pc = "insert" /\ Blocked(p)
  <2>1. PICK q \in Requests \ {p} : SameMembership(q, p)
    BY <1>4 DEF Blocked
  <2>2. task[q].pc = "commit" /\ task[q].room = r
    BY <1>0, <2>1 DEF SameMembership
  <2>3. Deadlocked(q, p)
    BY <1>4, <2>1, <2>2 DEF Deadlocked
  <2> QED  BY <1>1, <2>3 DEF InDeadlock
<1> QED  BY <1>0, <1>1, <1>2, <1>3, <1>4

LEMMA NobodyIsStuck == TypeOK /\ OneHolder => NoStandstill
<1> SUFFICES ASSUME TypeOK, OneHolder, NEW q \in Waiting
             PROVE  \E w \in Waiting : ~Blocked(w) \/ InDeadlock(w)
  BY DEF NoStandstill
<1>0. q \in Requests
  BY DEF Waiting
<1>1. CASE \E r \in Rooms, p \in Requests : HoldsLock(p, r)
  BY <1>1, HolderIsNotStuck
<1>2. CASE ~\E r \in Rooms, p \in Requests : HoldsLock(p, r)
  <2>1. ASSUME NEW p \in Requests, task[p].pc \in {"lock", "commit", "invite"}
        PROVE  p \in Waiting /\ ~Blocked(p)
    <3>1. task[p].room \in Rooms
      BY <2>1 DEF TypeOK, TaskOK
    <3>2. ~LockedByOther(p, task[p].room)
      BY <1>2, <3>1 DEF LockedByOther
    <3> QED  BY <2>1, <3>2 DEF Waiting, Blocked
  <2>2. CASE task[q].pc \in {"lock", "commit", "invite"}
    BY <1>0, <2>1, <2>2
  <2>3. CASE task[q].pc = "insert" /\ Blocked(q)
    <3>1. PICK p \in Requests \ {q} : SameMembership(p, q)
      BY <2>3 DEF Blocked
    <3> QED  BY <2>1, <3>1 DEF SameMembership
  <2>4. CASE task[q].pc \notin {"lock", "commit", "invite"} /\ ~(task[q].pc = "insert" /\ Blocked(q))
    BY <2>4 DEF Blocked
  <2> QED  BY <2>2, <2>3, <2>4
<1> QED  BY <1>1, <1>2

LEMMA OneHolderInit == Init => OneHolder
  BY DEF Init, OneHolder, HoldsLock, Idle

\* Of the requests that wait, one can go on or is in a cycle of two that the
\* database breaks, for any number of requests at every endpoint: the lock of the
\* room row, its foreign keys and the unique index make no longer cycle.
THEOREM NobodyStandsStill == Spec => []NoStandstill
  BY OneHolderInit, OneHolderNext, NobodyIsStuck, TypeCorrect, PTL DEF Spec

-----------------------------------------------------------------------------
(* When the limits are kept *)

\* One request at a time exceeds no limit: what exceeds them is the interleaving
\* of requests (createRoom, room.service.ts:28; enforceJoinLimits, lines 424 and
\* 434), not the comparisons.
THEOREM SerialRequestsKeepLimits ==
  ASSUME Cardinality(Requests) = 1
  PROVE  Spec => [](OwnedWithinPlan /\ MembersWithinPlan /\ JoinedWithinPlan)
<1>1. ASSUME NEW max \in Nat \ {0}, NEW S, NEW T, IsFiniteSet(S), IsFiniteSet(T),
             Cardinality(S) + Cardinality(T) <= Excess(max)
      PROVE  Cardinality(S) <= max
  <2>1. Cardinality(S) \in Nat /\ Cardinality(T) \in Nat
    BY <1>1, FS_CardinalityType
  <2> QED  BY <1>1, <2>1 DEF Excess
<1>2. TypeOK /\ OwnedExcess => OwnedWithinPlan
  <2> SUFFICES ASSUME OwnedExcess, NEW u \in Users
               PROVE  Cardinality(Owned(u)) <= MaxRooms
    BY DEF OwnedWithinPlan
  <2>1. IsFiniteSet(Owned(u)) /\ IsFiniteSet(Creating(u))
    BY FiniteAssumption, FS_Subset DEF Owned, Creating
  <2> QED  BY <1>1, <2>1, PlanAssumption DEF OwnedExcess
<1>3. TypeOK /\ MembersExcess => MembersWithinPlan
  <2> SUFFICES ASSUME TypeOK, MembersExcess, NEW r \in Rooms
               PROVE  Cardinality(members[r]) <= MaxMembers
    BY DEF MembersWithinPlan
  <2>1. IsFiniteSet(members[r]) /\ IsFiniteSet(Entering(r))
    BY FiniteAssumption, FS_Subset DEF TypeOK, Entering
  <2> QED  BY <1>1, <2>1, PlanAssumption DEF MembersExcess
<1>4. TypeOK /\ JoinedExcess => JoinedWithinPlan
  <2> SUFFICES ASSUME JoinedExcess, NEW u \in Users
               PROVE  Cardinality(Joined(u)) <= MaxJoined
    BY DEF JoinedWithinPlan
  <2>1. IsFiniteSet(Joined(u)) /\ IsFiniteSet(Joining(u))
    BY FiniteAssumption, FS_Subset DEF Joined, Memberships, Joining
  <2> QED  BY <1>1, <2>1, PlanAssumption DEF JoinedExcess
<1> QED  BY <1>2, <1>3, <1>4, TypeCorrect, OwnedBounded, MembersBounded, JoinedBounded, PTL

\* What CappedRooms promises of the number of members, step by step.
LEMMA CapKept ==
  TypeOK /\ MembersWithinPlan /\ [Capped!Next]_<<owner, members>> => MembersWithinPlan'
<1> SUFFICES ASSUME TypeOK, MembersWithinPlan, [Capped!Next]_<<owner, members>>,
                    NEW s \in Rooms
             PROVE  Cardinality(members'[s]) <= MaxMembers
  BY DEF MembersWithinPlan
<1>0. /\ IsFiniteSet(members[s]) /\ Cardinality(members[s]) \in Nat
      /\ Cardinality(members[s]) <= MaxMembers
      /\ MaxMembers \in Nat \ {0}
  BY FiniteAssumption, PlanAssumption, FS_Subset, FS_CardinalityType DEF TypeOK, MembersWithinPlan
<1>1. ASSUME members'[s] \subseteq members[s]
      PROVE  Cardinality(members'[s]) <= MaxMembers
  <2>1. Cardinality(members'[s]) <= Cardinality(members[s]) /\ IsFiniteSet(members'[s])
    BY <1>0, <1>1, FS_Subset
  <2>2. Cardinality(members'[s]) \in Nat
    BY <2>1, FS_CardinalityType
  <2> QED  BY <1>0, <2>1, <2>2
<1>2. ASSUME NEW r \in Rooms, NEW u \in Users, Capped!Open(u, r)
      PROVE  Cardinality(members'[s]) <= MaxMembers
  <2>1. CASE r = s
    <3>1. members'[s] = {u}
      BY <1>2, <2>1 DEF Capped!Open, TypeOK
    <3> QED  BY <1>0, <3>1, FS_Singleton
  <2>2. CASE r # s
    BY <1>1, <1>2, <2>2 DEF Capped!Open, TypeOK
  <2> QED  BY <2>1, <2>2
<1>3. ASSUME NEW r \in Rooms, NEW u \in Users, Capped!Admit(u, r)
      PROVE  Cardinality(members'[s]) <= MaxMembers
  <2>1. CASE r = s
    <3>1. members'[s] = members[s] \cup {u} /\ u \notin members[s]
      BY <1>3, <2>1 DEF Capped!Admit, TypeOK
    <3>2. Cardinality(members'[s]) = Cardinality(members[s]) + 1
      BY <1>0, <3>1, FS_AddElement
    <3>3. Capped!Cardinality(members[s]) = Cardinality(members[s])
      BY Zenon DEF Cardinality, Capped!Cardinality
    <3>4. Cardinality(members[s]) < MaxMembers
      BY <1>3, <2>1, <3>3 DEF Capped!Admit
    <3> QED  BY <1>0, <3>2, <3>4
  <2>2. CASE r # s
    BY <1>1, <1>3, <2>2 DEF Capped!Admit, TypeOK
  <2> QED  BY <2>1, <2>2
<1>4. ASSUME NEW r \in Rooms, NEW u \in Users, Capped!Dismiss(u, r)
      PROVE  Cardinality(members'[s]) <= MaxMembers
  BY <1>1, <1>4 DEF Capped!Dismiss, TypeOK
<1>5. ASSUME NEW r \in Rooms, Capped!Close(r)
      PROVE  Cardinality(members'[s]) <= MaxMembers
  BY <1>1, <1>5 DEF Capped!Close, TypeOK
<1>6. CASE UNCHANGED <<owner, members>>
  BY <1>1, <1>6
<1> QED  BY <1>2, <1>3, <1>4, <1>5, <1>6 DEF Capped!Next

\* As long as clients join by joinRoom alone, no room ever has more members than
\* the plan of its owner allows, for any number of concurrent requests: this one
\* limit FOR UPDATE of the room row does keep (room.service.ts:88).
THEOREM LockKeepsRoomsWithinPlan ==
  ASSUME Endpoints \subseteq {"join"}
  PROVE  Spec => []MembersWithinPlan
<1>1. Init => OneHolder /\ HolderFits
  BY DEF Init, OneHolder, HolderFits, HoldsLock, Idle
<1>2. Init => MembersWithinPlan
  <2> SUFFICES ASSUME Init, NEW r \in Rooms
               PROVE  Cardinality(members[r]) <= MaxMembers
    BY DEF MembersWithinPlan
  <2> QED  BY FS_EmptySet, PlanAssumption DEF Init
<1>3. TypeOK /\ OneHolder /\ HolderFits /\ [Next]_vars => HolderFits'
  BY HolderNext
<1>4. TypeOK /\ HolderFits /\ MembersWithinPlan /\ [Next]_vars => MembersWithinPlan'
  BY CappedStep, CapKept
<1> QED  BY <1>1, <1>2, <1>3, <1>4, OneHolderNext, TypeCorrect, PTL DEF Spec
=============================================================================
