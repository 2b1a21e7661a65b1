-------------------------- MODULE AuthSessions_proofs --------------------------
(* Theorems about AuthSessions, for any accounts, browsers, session limit and *)
(* number of concurrent requests.                                             *)
EXTENDS AuthSessions, CountingLemmas

-----------------------------------------------------------------------------
(* Types *)

LEMMA IdleOK == Idle \in Task /\ TaskOK(Idle)
  BY NoneAssumption DEF Idle, Task, Waits, TaskOK

\* A request that is given another record of the right kind leaves the others as
\* they are.
LEMMA TaskKeeps ==
  ASSUME TypeOK, NEW q \in Requests, NEW t \in Task, TaskOK(t),
         task' = [task EXCEPT ![q] = t]
  PROVE  task' \in [Requests -> Task] /\ \A p \in Requests : TaskOK(task[p])'
<1>1. task' \in [Requests -> Task] /\ \A p \in Requests : task'[p] = IF p = q THEN t ELSE task[p]
  BY DEF TypeOK
<1>2. ASSUME NEW p \in Requests
      PROVE  TaskOK(task[p])'
  <2>1. TaskOK(task'[p])
    BY <1>1 DEF TypeOK
  <2> QED  BY <2>1 DEF TaskOK
<1> QED  BY <1>1, <1>2

\* The three ways in which a request goes on, as records.
LEMMA TaskSteps ==
  ASSUME TypeOK, NEW q \in Requests
  PROVE  /\ End(q) => /\ task'[q] = Idle
                      /\ \A p \in Requests \ {q} : task'[p] = task[p]
         /\ \A pc : Continue(q, pc) =>
              /\ task'[q].pc = pc /\ task'[q].op = task[q].op
              /\ task'[q].browser = task[q].browser
              /\ task'[q].token = task[q].token /\ task'[q].fresh = task[q].fresh
              /\ \A p \in Requests \ {q} : task'[p] = task[p]
         /\ \A pc, op, b, t : Start(q, pc, op, b, t) =>
              /\ task'[q].pc = pc /\ task'[q].op = op /\ task'[q].browser = b
              /\ task'[q].token = t /\ task'[q].fresh = None
              /\ \A p \in Requests \ {q} : task'[p] = task[p]
<1>1. End(q) => /\ task'[q] = Idle
                /\ \A p \in Requests \ {q} : task'[p] = task[p]
  BY DEF End, TypeOK
<1>2. ASSUME NEW pc, Continue(q, pc)
      PROVE  /\ task'[q].pc = pc /\ task'[q].op = task[q].op
             /\ task'[q].browser = task[q].browser
             /\ task'[q].token = task[q].token /\ task'[q].fresh = task[q].fresh
             /\ \A p \in Requests \ {q} : task'[p] = task[p]
  <2>1. task'[q] = [task[q] EXCEPT !.pc = pc]
    BY <1>2 DEF Continue, TypeOK
  <2>2. task[q] \in Task
    BY DEF TypeOK
  <2> QED  BY <1>2, <2>1, <2>2 DEF Continue, TypeOK, Task
<1>3. ASSUME NEW pc, NEW op, NEW b, NEW t, Start(q, pc, op, b, t)
      PROVE  /\ task'[q].pc = pc /\ task'[q].op = op /\ task'[q].browser = b
             /\ task'[q].token = t /\ task'[q].fresh = None
             /\ \A p \in Requests \ {q} : task'[p] = task[p]
  BY <1>3 DEF Start, TypeOK
<1> QED  BY <1>1, <1>2, <1>3

LEMMA EndKeeps ==
  ASSUME TypeOK, NEW q \in Requests, End(q)
  PROVE  task' \in [Requests -> Task] /\ \A p \in Requests : TaskOK(task[p])'
  BY IdleOK, TaskKeeps DEF End

\* A place a request may go on to, given the one it is at.
Follows(t, pc) ==
  \/ pc = "user" /\ t.pc = "plan"
  \/ pc = "count" /\ t.pc \in {"user", "redeem"}
  \/ pc \in {"alarm", "drop", "redeem"} /\ t.pc = "find"
  \/ pc = "refused" /\ t.op = "refresh" /\ t.pc # "idle"
  \/ pc \in {"evict", "create"} /\ t.pc \in {"count", "evict"}
  \/ pc = "answer" /\ t.pc = "hash"
  \/ pc = "cleared" /\ t.pc # "idle"

LEMMA ContinueKeeps ==
  ASSUME TypeOK, NEW q \in Requests, NEW pc, Continue(q, pc), Follows(task[q], pc)
  PROVE  task' \in [Requests -> Task] /\ \A p \in Requests : TaskOK(task[p])'
<1> DEFINE t == [task[q] EXCEPT !.pc = pc]
<1>1. task[q] \in Task /\ TaskOK(task[q])
  BY DEF TypeOK
<1>2. pc \in Waits
  BY DEF Follows, Waits
<1>3. t \in Task
  BY <1>1, <1>2 DEF Task
<1>4. /\ t.pc = pc /\ t.op = task[q].op /\ t.browser = task[q].browser
      /\ t.token = task[q].token /\ t.fresh = task[q].fresh
  BY <1>1 DEF Task
<1>5. TaskOK(t)
  BY <1>1, <1>4 DEF TaskOK, Follows
<1>6. task' = [task EXCEPT ![q] = t]
  BY DEF Continue
<1> HIDE DEF t
<1> QED  BY <1>3, <1>5, <1>6, TaskKeeps

LEMMA RefuseKeeps ==
  ASSUME TypeOK, NEW q \in Requests, task[q].pc # "idle", Refuse(q)
  PROVE  task' \in [Requests -> Task] /\ \A p \in Requests : TaskOK(task[p])'
  BY EndKeeps, ContinueKeeps DEF Refuse, Follows

LEMMA StartKeeps ==
  ASSUME TypeOK, NEW q \in Requests, NEW pc, NEW op, NEW b \in Browsers, NEW t \in Tokens \cup {None},
         Start(q, pc, op, b, t),
         \/ pc \in {"plan", "user"} /\ op = "register" /\ t = None
         \/ pc = "count" /\ op = "login" /\ t = None
         \/ pc \in {"find", "refused"} /\ op = "refresh" /\ t # None
         \/ pc \in {"logout", "cleared"} /\ op = "logout" /\ t # None
         \/ pc = "logoutAll" /\ op = "logoutAll" /\ t = None
  PROVE  task' \in [Requests -> Task] /\ \A p \in Requests : TaskOK(task[p])'
<1> DEFINE s == [pc |-> pc, op |-> op, browser |-> b, token |-> t, fresh |-> None]
<1>1. s \in Task
  BY DEF Task, Waits
<1>2. TaskOK(s)
  BY NoneAssumption DEF TaskOK
<1>3. task' = [task EXCEPT ![q] = s]
  BY DEF Start
<1> HIDE DEF s
<1> QED  BY <1>1, <1>2, <1>3, TaskKeeps

\* The rows of S go, and what has become of the others stays.
LEMMA DeleteSteps ==
  ASSUME TypeOK, NEW S, NEW why \in Fates \ {"live", "unborn"}, Delete(S, why)
  PROVE  /\ row' \in [Tokens -> Row \cup {None}]
         /\ fate' \in [Tokens -> Fates]
         /\ \A t \in Tokens : row'[t] # None <=> fate'[t] = "live"
         /\ \A t \in Tokens : row'[t] = IF t \in S THEN None ELSE row[t]
         /\ \A t \in Tokens : fate'[t] = IF t \in S /\ fate[t] = "live" THEN why ELSE fate[t]
         /\ Live' = Live \ S
         /\ \A t \in Tokens : fate'[t] = "unborn" <=> fate[t] = "unborn"
<1>1. \A t \in Tokens : row'[t] = IF t \in S THEN None ELSE row[t]
  BY DEF Delete
<1>2. \A t \in Tokens : fate'[t] = IF t \in S /\ fate[t] = "live" THEN why ELSE fate[t]
  BY DEF Delete, Live, TypeOK
<1>3. row' \in [Tokens -> Row \cup {None}]
  BY DEF Delete, TypeOK
<1>4. fate' \in [Tokens -> Fates]
  BY DEF Delete, TypeOK
<1>5. \A t \in Tokens : row'[t] # None <=> fate'[t] = "live"
  BY <1>1, <1>2 DEF TypeOK
<1>6. Live' = Live \ S
  BY <1>1 DEF Live
<1> QED  BY <1>1, <1>2, <1>3, <1>4, <1>5, <1>6

LEMMA OverlapType == ASSUME NEW b PROVE Overlap(b) \subseteq Faults
  BY DEF Overlap, Faults

LEMMA EndedType == ASSUME NEW t PROVE Ended(t) \subseteq Faults
  BY DEF Ended, Faults

LEMMA TypeInit == Init => TypeOK
<1> SUFFICES ASSUME Init PROVE TypeOK
  OBVIOUS
<1>1. \A q \in Requests : task[q] = Idle
  BY DEF Init
<1>2. \A q \in Requests : TaskOK(task[q])
  BY <1>1, IdleOK
<1> QED  BY <1>1, <1>2, IdleOK, RegisteredAssumption DEF Init, TypeOK, Fates

LEMMA TypeBegin ==
  ASSUME TypeOK, NEW q \in Requests, Begin(q)
  PROVE  TypeOK'
<1> PICK b \in Browsers : \/ Register(q, b) \/ Login(q, b) \/ LogoutAll(q, b)
                          \/ Refresh(q, b) \/ RefreshLapsed(q, b)
                          \/ Logout(q, b) \/ LogoutLapsed(q, b)
  BY DEF Begin
<1>1. cookie[b] \in Tokens \cup {None}
  BY DEF TypeOK
<1>2. task' \in [Requests -> Task] /\ \A p \in Requests : TaskOK(task[p])'
  BY <1>1, StartKeeps DEF Register, Login, LogoutAll, Refresh, RefreshLapsed, Logout, LogoutLapsed
<1>3. faults' \subseteq Faults
  BY OverlapType DEF Register, Login, LogoutAll, Refresh, RefreshLapsed, Logout, LogoutLapsed, TypeOK, Faults
<1>4. UNCHANGED <<users, plan, row, cookie, signed, fate>>
  BY DEF Register, Login, LogoutAll, Refresh, RefreshLapsed, Logout, LogoutLapsed
<1> QED  BY <1>2, <1>3, <1>4 DEF TypeOK

LEMMA TypeProceed ==
  ASSUME TypeOK, NEW q \in Requests, Proceed(q)
  PROVE  TypeOK'
<1>0. task[q] \in Task /\ TaskOK(task[q])
  BY DEF TypeOK
<1>1. CASE CreatePlan(q)
  <2>1. task' \in [Requests -> Task] /\ \A p \in Requests : TaskOK(task[p])'
    BY <1>1, EndKeeps, ContinueKeeps DEF CreatePlan, Follows
  <2> QED  BY <1>1, <2>1 DEF CreatePlan, TypeOK
<1>2. CASE CreateUser(q)
  <2>1. task' \in [Requests -> Task] /\ \A p \in Requests : TaskOK(task[p])'
    BY <1>2, EndKeeps, ContinueKeeps DEF CreateUser, Follows
  <2>2. UserOf(q) \in Users
    BY <1>0, <1>2, AccountAssumption, NoneAssumption DEF CreateUser, UserOf, Task, TaskOK
  <2> QED  BY <1>2, <2>1, <2>2 DEF CreateUser, TypeOK
<1>3. CASE FindToken(q)
  <2>1. \E pc \in {"alarm", "drop", "redeem"} : Continue(q, pc)
    BY <1>3 DEF FindToken
  <2>2. task' \in [Requests -> Task] /\ \A p \in Requests : TaskOK(task[p])'
    BY <1>3, <2>1, ContinueKeeps DEF FindToken, Follows
  <2>3. faults' \subseteq Faults
    BY <1>3, EndedType DEF FindToken, TypeOK, Faults
  <2> QED  BY <1>3, <2>2, <2>3 DEF FindToken, TypeOK
<1>4. CASE Alarm(q)
  <2>1. task' \in [Requests -> Task] /\ \A p \in Requests : TaskOK(task[p])'
    BY <1>0, <1>4, ContinueKeeps DEF Alarm, Follows, TaskOK
  <2> QED  BY <1>4, <2>1, DeleteSteps DEF Alarm, TypeOK, Fates
<1>5. CASE DropExpired(q)
  <2>1. task' \in [Requests -> Task] /\ \A p \in Requests : TaskOK(task[p])'
    BY <1>0, <1>5, ContinueKeeps DEF DropExpired, Follows, TaskOK
  <2> QED  BY <1>5, <2>1, DeleteSteps DEF DropExpired, TypeOK, Fates
<1>6. CASE Redeem(q)
  <2>1. CASE row[task[q].token] = None
    <3>1. task' \in [Requests -> Task] /\ \A p \in Requests : TaskOK(task[p])'
      BY <1>6, <2>1, RefuseKeeps DEF Redeem
    <3> QED  BY <1>6, <2>1, <3>1, EndedType DEF Redeem, TypeOK
  <2>2. CASE row[task[q].token] # None
    <3>1. task' \in [Requests -> Task] /\ \A p \in Requests : TaskOK(task[p])'
      BY <1>6, <2>2, ContinueKeeps DEF Redeem, Follows
    <3> QED  BY <1>6, <2>2, <3>1, DeleteSteps DEF Redeem, TypeOK, Fates
  <2> QED  BY <2>1, <2>2
<1>7. CASE CountSessions(q)
  <2>1. \E pc \in {"evict", "create"} : Continue(q, pc)
    BY <1>7 DEF CountSessions
  <2>2. task' \in [Requests -> Task] /\ \A p \in Requests : TaskOK(task[p])'
    BY <1>7, <2>1, ContinueKeeps DEF CountSessions, Follows
  <2> QED  BY <1>7, <2>2 DEF CountSessions, TypeOK
<1>8. CASE Evict(q)
  <2>1. task' \in [Requests -> Task] /\ \A p \in Requests : TaskOK(task[p])'
    BY <1>8, ContinueKeeps DEF Evict, Follows
  <2> QED  BY <1>8, <2>1, DeleteSteps DEF Evict, TypeOK, Fates
<1>9. ASSUME NEW t \in Tokens, CreateRow(q, t)
      PROVE  TypeOK'
  <2> DEFINE s == [task[q] EXCEPT !.pc = "hash", !.fresh = t]
  <2>1. s \in Task /\ TaskOK(s)
    BY <1>0, <1>9, NoneAssumption DEF Task, Waits, TaskOK, CreateRow
  <2>2. task' = [task EXCEPT ![q] = s]
    BY <1>9 DEF CreateRow, TypeOK
  <2>3. task' \in [Requests -> Task] /\ \A p \in Requests : TaskOK(task[p])'
    <3> HIDE DEF s
    <3> QED  BY <2>1, <2>2, TaskKeeps
  <2>4. UserOf(q) \in Users
    BY <1>0, <1>9, AccountAssumption, NoneAssumption DEF CreateRow, UserOf, Task, TaskOK
  <2>5. [user |-> UserOf(q), hashed |-> FALSE, expired |-> FALSE] \in Row
    BY <2>4 DEF Row
  <2>6. row' \in [Tokens -> Row \cup {None}] /\ fate' \in [Tokens -> Fates]
    BY <1>9, <2>5 DEF CreateRow, TypeOK, Fates
  <2>7. \A x \in Tokens : row'[x] # None <=> fate'[x] = "live"
    BY <1>9, <2>5, NoneAssumption DEF CreateRow, TypeOK
  <2> QED  BY <1>9, <2>3, <2>6, <2>7 DEF CreateRow, TypeOK
<1>10. CASE StoreHash(q)
  <2>1. CASE row[task[q].fresh] = None
    <3>1. task' \in [Requests -> Task] /\ \A p \in Requests : TaskOK(task[p])'
      BY <1>10, <2>1, RefuseKeeps DEF StoreHash
    <3> QED  BY <1>10, <2>1, <3>1, EndedType DEF StoreHash, TypeOK
  <2>2. CASE row[task[q].fresh] # None
    <3>1. task' \in [Requests -> Task] /\ \A p \in Requests : TaskOK(task[p])'
      BY <1>10, <2>2, ContinueKeeps DEF StoreHash, Follows
    <3>2. task[q].fresh \in Tokens
      BY <1>0, <1>10 DEF StoreHash, Task, TaskOK
    <3>3. row[task[q].fresh] \in Row
      BY <2>2, <3>2 DEF TypeOK
    <3>4. [row[task[q].fresh] EXCEPT !.hashed = TRUE] \in Row
      BY <3>3 DEF Row
    <3>5. row' = [row EXCEPT ![task[q].fresh] = [row[task[q].fresh] EXCEPT !.hashed = TRUE]]
      BY <1>10, <2>2 DEF StoreHash
    <3>6. row' \in [Tokens -> Row \cup {None}] /\ \A t \in Tokens : row'[t] # None <=> row[t] # None
      <4> DEFINE new == [row[task[q].fresh] EXCEPT !.hashed = TRUE]
      <4>1. new \in Row /\ row' = [row EXCEPT ![task[q].fresh] = new]
        BY <3>4, <3>5
      <4> HIDE DEF new
      <4> QED  BY <2>2, <3>2, <4>1, NoneAssumption DEF TypeOK
    <3> QED  BY <1>10, <2>2, <3>1, <3>6 DEF StoreHash, TypeOK
  <2> QED  BY <2>1, <2>2
<1>11. CASE DeleteToken(q)
  <2>1. task' \in [Requests -> Task] /\ \A p \in Requests : TaskOK(task[p])'
    BY <1>11, ContinueKeeps DEF DeleteToken, Follows
  <2> QED  BY <1>11, <2>1, DeleteSteps DEF DeleteToken, TypeOK, Fates
<1>12. CASE DeleteAll(q)
  <2>1. task' \in [Requests -> Task] /\ \A p \in Requests : TaskOK(task[p])'
    BY <1>12, ContinueKeeps DEF DeleteAll, Follows
  <2>2. row' \in [Tokens -> Row \cup {None}] /\ fate' \in [Tokens -> Fates]
    BY <1>12 DEF DeleteAll, TypeOK, Fates
  <2>3. \A t \in Tokens : row'[t] # None <=> fate'[t] = "live"
    BY <1>12 DEF DeleteAll, TypeOK, RowsOf, Live, Between
  <2> QED  BY <1>12, <2>1, <2>2, <2>3 DEF DeleteAll, TypeOK
<1>13. CASE Answer(q)
  <2>1. task' \in [Requests -> Task] /\ \A p \in Requests : TaskOK(task[p])'
    BY <1>13, EndKeeps DEF Answer
  <2>2. task[q].fresh \in Tokens /\ task[q].browser \in Browsers
    BY <1>0, <1>13 DEF Answer, Task, TaskOK
  <2> QED  BY <1>13, <2>1, <2>2 DEF Answer, TypeOK
<1>14. CASE ClearCookie(q)
  <2>1. task' \in [Requests -> Task] /\ \A p \in Requests : TaskOK(task[p])'
    BY <1>14, EndKeeps DEF ClearCookie
  <2> QED  BY <1>14, <2>1 DEF ClearCookie, TypeOK
<1> QED  BY <1>1, <1>2, <1>3, <1>4, <1>5, <1>6, <1>7, <1>8, <1>9, <1>10, <1>11, <1>12, <1>13, <1>14
         DEF Proceed

LEMMA TypeNext == TypeOK /\ [Next]_vars => TypeOK'
<1> SUFFICES ASSUME TypeOK, [Next]_vars
             PROVE  TypeOK'
  OBVIOUS
<1>1. ASSUME NEW q \in Requests, Lose(q)
      PROVE  TypeOK'
  <2>1. task' \in [Requests -> Task] /\ \A p \in Requests : TaskOK(task[p])'
    BY <1>1, EndKeeps DEF Lose
  <2> QED  BY <1>1, <2>1 DEF Lose, TypeOK, Faults
<1>2. ASSUME NEW q \in Requests, Fail(q)
      PROVE  TypeOK'
  <2>1. task' \in [Requests -> Task] /\ \A p \in Requests : TaskOK(task[p])'
    BY <1>2, RefuseKeeps, ContinueKeeps DEF Fail, Follows
  <2> QED  BY <1>2, <2>1 DEF Fail, TypeOK, Faults
<1>3. ASSUME NEW t \in Tokens, Expire(t)
      PROVE  TypeOK'
  <2> DEFINE new == [row[t] EXCEPT !.expired = TRUE]
  <2>1. new \in Row /\ row' = [row EXCEPT ![t] = new]
    BY <1>3 DEF Expire, TypeOK, Row
  <2>2. row' \in [Tokens -> Row \cup {None}] /\ \A x \in Tokens : row'[x] # None <=> row[x] # None
    <3> HIDE DEF new
    <3> QED  BY <1>3, <2>1, NoneAssumption DEF Expire, TypeOK
  <2>3. \A p \in Requests : TaskOK(task[p])'
    BY <1>3 DEF Expire, TypeOK, TaskOK
  <2> QED  BY <1>3, <2>2, <2>3 DEF Expire, TypeOK
<1>4. CASE CleanUp
  <2>1. \A p \in Requests : TaskOK(task[p])'
    BY <1>4 DEF CleanUp, TypeOK, TaskOK
  <2> QED  BY <1>4, <2>1, DeleteSteps DEF CleanUp, TypeOK, Fates
<1>5. CASE Crash
  <2>1. \A p \in Requests : task'[p] = Idle
    BY <1>5 DEF Crash
  <2>2. \A p \in Requests : TaskOK(task'[p])
    BY <2>1, IdleOK
  <2>3. \A p \in Requests : TaskOK(task[p])'
    BY <2>2 DEF TaskOK
  <2>4. task' \in [Requests -> Task]
    BY <1>5, IdleOK DEF Crash
  <2> QED  BY <1>5, <2>3, <2>4 DEF Crash, TypeOK, Faults
<1>6. CASE UNCHANGED vars
  BY <1>6 DEF vars, TypeOK, TaskOK
<1> QED  BY <1>1, <1>2, <1>3, <1>4, <1>5, <1>6, TypeBegin, TypeProceed DEF Next

\* Types are right in every reachable state, and a token has a row exactly while
\* its fate is open.
THEOREM TypeCorrect == Spec => []TypeOK
  BY TypeInit, TypeNext, PTL DEF Spec

-----------------------------------------------------------------------------
(* The session limit *)

\* The rows that are there were there before, and no younger.
RowsShrink == \A t \in Tokens : row'[t] # None =>
  /\ row[t] # None
  /\ row'[t].user = row[t].user
  /\ row[t].expired => row'[t].expired

LEMMA DeleteShrinks ==
  ASSUME TypeOK, NEW S, NEW why, Delete(S, why)
  PROVE  RowsShrink
  BY DEF Delete, RowsShrink, TypeOK

\* Who is about to insert a row was about to before.
NoneArrives == \A p \in Requests : task'[p].pc = "create" =>
  task[p].pc = "create" /\ task'[p].browser = task[p].browser

LEMMA Arrivals ==
  ASSUME TypeOK, NEW q \in Requests,
         \/ End(q)
         \/ Refuse(q)
         \/ \E pc \in Waits \ {"create"} : Continue(q, pc)
         \/ \E pc \in Waits \ {"create"} : \E op, b, t : Start(q, pc, op, b, t)
  PROVE  NoneArrives
<1>1. task'[q].pc # "create"
  <2>1. CASE End(q) \/ \E pc \in Waits \ {"create"} : Continue(q, pc)
    BY <2>1, TaskSteps DEF Idle
  <2>2. CASE Refuse(q)
    BY <2>2, TaskSteps DEF Refuse, Idle
  <2>3. ASSUME NEW pc \in Waits \ {"create"}, NEW op, NEW b, NEW t, Start(q, pc, op, b, t)
        PROVE  task'[q].pc # "create"
    BY <2>3, TaskSteps
  <2> QED  BY <2>1, <2>2, <2>3
<1>2. \A p \in Requests \ {q} : task'[p] = task[p]
  BY TaskSteps DEF Refuse
<1> QED  BY <1>1, <1>2 DEF NoneArrives

LEMMA OtherSteps ==
  ASSUME TypeOK, [Next]_vars,
         ~ \E q \in Requests : CountSessions(q) \/ Evict(q) \/ \E t \in Tokens : CreateRow(q, t)
  PROVE  RowsShrink /\ NoneArrives
<1>0. UNCHANGED row => RowsShrink
  BY DEF RowsShrink
<1>1. ASSUME NEW q \in Requests, NEW b \in Browsers,
             \/ Register(q, b) \/ Login(q, b) \/ LogoutAll(q, b)
             \/ Refresh(q, b) \/ RefreshLapsed(q, b) \/ Logout(q, b) \/ LogoutLapsed(q, b)
      PROVE  RowsShrink /\ NoneArrives
  <2>1. \E pc \in Waits \ {"create"} : \E op, c, t : Start(q, pc, op, c, t)
    BY <1>1 DEF Register, Login, LogoutAll, Refresh, RefreshLapsed, Logout, LogoutLapsed, Waits
  <2>2. UNCHANGED row
    BY <1>1 DEF Register, Login, LogoutAll, Refresh, RefreshLapsed, Logout, LogoutLapsed
  <2> QED  BY <1>0, <2>1, <2>2, Arrivals
<1>2. ASSUME NEW q \in Requests, \/ CreatePlan(q) \/ CreateUser(q) \/ FindToken(q)
                                 \/ Answer(q) \/ ClearCookie(q) \/ Lose(q) \/ Fail(q)
      PROVE  RowsShrink /\ NoneArrives
  <2>1. \/ End(q) \/ Refuse(q)
        \/ \E pc \in Waits \ {"create"} : Continue(q, pc)
    BY <1>2 DEF CreatePlan, CreateUser, FindToken, Answer, ClearCookie, Lose, Fail, Waits
  <2>2. UNCHANGED row
    BY <1>2 DEF CreatePlan, CreateUser, FindToken, Answer, ClearCookie, Lose, Fail
  <2> QED  BY <1>0, <2>1, <2>2, Arrivals
<1>3. ASSUME NEW q \in Requests, Alarm(q) \/ DropExpired(q) \/ Redeem(q) \/ DeleteToken(q)
      PROVE  RowsShrink /\ NoneArrives
  <2>1. \/ Refuse(q)
        \/ \E pc \in Waits \ {"create"} : Continue(q, pc)
    BY <1>3 DEF Alarm, DropExpired, Redeem, DeleteToken, Waits
  <2>2. RowsShrink
    BY <1>0, <1>3, DeleteShrinks DEF Alarm, DropExpired, Redeem, DeleteToken
  <2> QED  BY <2>1, <2>2, Arrivals
<1>4. ASSUME NEW q \in Requests, DeleteAll(q)
      PROVE  RowsShrink /\ NoneArrives
  <2>1. \E pc \in Waits \ {"create"} : Continue(q, pc)
    BY <1>4 DEF DeleteAll, Waits
  <2>2. RowsShrink
    BY <1>4 DEF DeleteAll, RowsShrink, TypeOK
  <2> QED  BY <2>1, <2>2, Arrivals
<1>5. ASSUME NEW q \in Requests, StoreHash(q)
      PROVE  RowsShrink /\ NoneArrives
  <2>1. \/ Refuse(q)
        \/ \E pc \in Waits \ {"create"} : Continue(q, pc)
    BY <1>5 DEF StoreHash, Waits
  <2>2. CASE row[task[q].fresh] = None
    BY <1>0, <1>5, <2>1, <2>2, Arrivals DEF StoreHash
  <2>3. CASE row[task[q].fresh] # None
    <3>1. \A t \in Tokens : row'[t] = IF t = task[q].fresh THEN [row[t] EXCEPT !.hashed = TRUE] ELSE row[t]
      BY <1>5, <2>3 DEF StoreHash, TypeOK
    <3>2. \A t \in Tokens : row[t] # None => row[t] \in Row
      BY DEF TypeOK
    <3>3. RowsShrink
      BY <2>3, <3>1, <3>2 DEF RowsShrink, Row
    <3> QED  BY <2>1, <3>3, Arrivals
  <2> QED  BY <2>2, <2>3
<1>6. ASSUME NEW t \in Tokens, Expire(t)
      PROVE  RowsShrink /\ NoneArrives
  <2>1. row[t] \in Row /\ \A x \in Tokens : row'[x] = IF x = t THEN [row[t] EXCEPT !.expired = TRUE] ELSE row[x]
    BY <1>6 DEF Expire, TypeOK
  <2> QED  BY <1>6, <2>1 DEF Expire, Row, RowsShrink, NoneArrives
<1>7. CASE CleanUp
  BY <1>7, DeleteShrinks DEF CleanUp, NoneArrives
<1>8. CASE Crash
  BY <1>0, <1>8 DEF Crash, NoneArrives, Idle
<1>9. CASE UNCHANGED vars
  BY <1>0, <1>9 DEF vars, NoneArrives
<1> QED  BY <1>1, <1>2, <1>3, <1>4, <1>5, <1>6, <1>7, <1>8, <1>9 DEF Next, Begin, Proceed

LEMMA SessionsNext == TypeOK /\ SessionsExcess /\ [Next]_vars => SessionsExcess'
<1> SUFFICES ASSUME TypeOK, SessionsExcess, [Next]_vars, MaxSessions > 0, NEW w \in Users
             PROVE  (Cardinality(Active(w)) + Cardinality(Creating(w))
                       <= (MaxSessions - 1) + Cardinality(Requests))'
  BY DEF SessionsExcess
<1> DEFINE A == Active(w)
           B == Active(w)'
           E == Creating(w)
           F == Creating(w)'
<1>0. /\ A \in SUBSET Tokens /\ B \in SUBSET Tokens
      /\ E \in SUBSET Requests /\ F \in SUBSET Requests
      /\ Cardinality(A) + Cardinality(E) <= (MaxSessions - 1) + Cardinality(Requests)
      /\ MaxSessions \in Nat \ {0}
  BY MaxAssumption DEF SessionsExcess, Active, RowsOf, Live, Creating
<1>1. RowsShrink => B \subseteq A
  BY DEF RowsShrink, Active, RowsOf, Live
<1>2. NoneArrives => F \subseteq E
  BY DEF NoneArrives, Creating, UserOf
<1>3. ASSUME NEW q \in Requests, CountSessions(q)
      PROVE  \/ B \subseteq A /\ F \subseteq E
             \/ Cardinality(A) < MaxSessions /\ B \subseteq A
  <2>1. B = A
    BY <1>3 DEF CountSessions, Active, RowsOf, Live
  <2>2. CASE Continue(q, "evict")
    <3>1. NoneArrives
      BY <2>2, Arrivals DEF Waits
    <3> QED  BY <1>2, <2>1, <3>1
  <2>3. CASE ~(Cardinality(Active(UserOf(q))) >= MaxSessions) /\ Continue(q, "create")
    <3>1. CASE UserOf(q) = w
      <4>1. Cardinality(A) \in Nat
        BY <1>0, FiniteAssumption, FS_Subset, FS_CardinalityType
      <4> QED  BY <1>0, <2>1, <2>3, <3>1, <4>1
    <3>2. CASE UserOf(q) # w
      <4>1. /\ task'[q].browser = task[q].browser
            /\ \A p \in Requests \ {q} : task'[p] = task[p]
        BY <2>3, TaskSteps
      <4>2. F \subseteq E
        BY <3>2, <4>1 DEF Creating, UserOf
      <4> QED  BY <2>1, <4>2
    <3> QED  BY <3>1, <3>2
  <2> QED  BY <1>0, <1>3, <2>2, <2>3 DEF CountSessions
<1>4. ASSUME NEW q \in Requests, Evict(q)
      PROVE  \/ B \subseteq A /\ F \subseteq E
             \/ B = {}
  <2>1. RowsShrink /\ \A t \in RowsOf(UserOf(q)) : row'[t] = None
    BY <1>4, DeleteShrinks DEF Evict, Delete, RowsOf, Live
  <2>2. CASE UserOf(q) = w
    BY <2>1, <2>2 DEF RowsShrink, Active, RowsOf, Live
  <2>3. CASE UserOf(q) # w
    <3>1. /\ task'[q].browser = task[q].browser
          /\ \A p \in Requests \ {q} : task'[p] = task[p]
      BY <1>4, TaskSteps DEF Evict
    <3>2. F \subseteq E
      BY <2>3, <3>1 DEF Creating, UserOf
    <3> QED  BY <1>1, <2>1, <3>2
  <2> QED  BY <2>2, <2>3
<1>5. ASSUME NEW q \in Requests, NEW t \in Tokens, CreateRow(q, t)
      PROVE  \/ B \subseteq A /\ F \subseteq E
             \/ \E x \in Tokens, p \in E : B \subseteq A \cup {x} /\ F \subseteq E \ {p}
  <2>1. \A x \in Tokens : row'[x] = IF x = t THEN [user |-> UserOf(q), hashed |-> FALSE, expired |-> FALSE]
                                    ELSE row[x]
    BY <1>5 DEF CreateRow, TypeOK
  <2>2. task'[q].pc = "hash" /\ \A p \in Requests \ {q} : task'[p] = task[p]
    <3>1. task[q] \in Task
      BY DEF TypeOK
    <3> QED  BY <1>5, <3>1 DEF CreateRow, TypeOK, Task
  <2>3. F \subseteq E \ {q}
    BY <2>2 DEF Creating, UserOf
  <2>4. CASE UserOf(q) = w
    <3>1. q \in E
      BY <1>5, <2>4 DEF CreateRow, Creating
    <3>2. B \subseteq A \cup {t}
      BY <2>1 DEF Active, RowsOf, Live
    <3> QED  BY <2>3, <3>1, <3>2
  <2>5. CASE UserOf(q) # w
    <3>1. B \subseteq A
      BY <2>1, <2>5 DEF Active, RowsOf, Live
    <3> QED  BY <2>3, <3>1
  <2> QED  BY <2>4, <2>5
<1>6. \/ B \subseteq A /\ F \subseteq E
      \/ \E x \in Tokens, q \in E : B \subseteq A \cup {x} /\ F \subseteq E \ {q}
      \/ Cardinality(A) < MaxSessions /\ B \subseteq A
      \/ B = {}
  BY <1>1, <1>2, <1>3, <1>4, <1>5, OtherSteps
<1>7. Cardinality(B) + Cardinality(F) <= (MaxSessions - 1) + Cardinality(Requests)
  BY <1>0, <1>6, ExcessSteps, FiniteAssumption
<1> QED  BY <1>7

\* With n requests at a time nobody has more than n - 1 sessions too many.
THEOREM SessionsBounded == Spec => []SessionsExcess
<1>1. Init => SessionsExcess
  <2> SUFFICES ASSUME Init, MaxSessions > 0, NEW u \in Users
               PROVE  Cardinality(Active(u)) + Cardinality(Creating(u))
                        <= (MaxSessions - 1) + Cardinality(Requests)
    BY DEF SessionsExcess
  <2>1. Active(u) = {} /\ Creating(u) = {}
    BY DEF Init, Active, RowsOf, Live, Creating, Idle
  <2> QED  BY <2>1, FS_EmptySet, FS_CardinalityType, FiniteAssumption, MaxAssumption
<1> QED  BY <1>1, SessionsNext, TypeCorrect, PTL DEF Spec

\* With one request at a time the session limit of the plan is kept.
THEOREM SerialRequestsKeepLimit ==
  ASSUME Cardinality(Requests) = 1, MaxSessions > 0
  PROVE  Spec => [](\A u \in Users : Cardinality(Active(u)) <= MaxSessions)
<1>1. TypeOK /\ SessionsExcess => \A u \in Users : Cardinality(Active(u)) <= MaxSessions
  <2> SUFFICES ASSUME TypeOK, SessionsExcess, NEW u \in Users
               PROVE  Cardinality(Active(u)) <= MaxSessions
    OBVIOUS
  <2>1. Cardinality(Active(u)) \in Nat
    <3>1. Active(u) \subseteq Tokens
      BY DEF Active, RowsOf, Live
    <3> QED  BY <3>1, FiniteAssumption, FS_Subset, FS_CardinalityType
  <2>2. Cardinality(Creating(u)) \in Nat
    <3>1. Creating(u) \subseteq Requests
      BY DEF Creating
    <3> QED  BY <3>1, FiniteAssumption, FS_Subset, FS_CardinalityType
  <2>3. Cardinality(Active(u)) + Cardinality(Creating(u)) <= (MaxSessions - 1) + 1
    BY DEF SessionsExcess
  <2>4. ASSUME NEW m \in Nat, NEW n \in Nat, NEW k \in Nat, m + n <= (k - 1) + 1
        PROVE  m <= k
    BY <2>4
  <2> QED  BY <2>1, <2>2, <2>3, <2>4, MaxAssumption
<1> QED
  BY <1>1, SessionsBounded, TypeCorrect, PTL

-----------------------------------------------------------------------------
(* The hashes *)

\* No one has a token that has not been given out.
Unborn == \A t \in Tokens : fate[t] = "unborn" =>
  /\ \A b \in Browsers : cookie[b] # t
  /\ \A q \in Requests : task[q].token # t /\ task[q].fresh # t

\* A row that was there keeps its hash, and the others are new.
RowsKept == \A t \in Tokens :
  /\ fate'[t] = "unborn" => fate[t] = "unborn"
  /\ row'[t] # None => \/ fate[t] = "unborn"
                       \/ row[t] # None /\ (row[t].hashed => row'[t].hashed)

\* Tokens are handed on: from a request to its browser and back, and from a new row
\* to the request that inserted it, which answers when the hash is stored.
HandedOn ==
  /\ \A b \in Browsers : \/ cookie'[b] \in {None, cookie[b]}
                         \/ \E q \in Requests : task[q].pc = "answer" /\ cookie'[b] = task[q].fresh
  /\ \A q \in Requests :
       /\ \/ task'[q].token \in {None, task[q].token}
          \/ \E b \in Browsers : task'[q].token = cookie[b]
       /\ task'[q].fresh \in {None, task[q].fresh} \/ fate'[task'[q].fresh] # "unborn"
       /\ task'[q].pc = "answer" => /\ task'[q].fresh = task[q].fresh
                                    /\ \/ task[q].pc = "answer"
                                       \/ row'[task[q].fresh].hashed

LEMMA DeleteKeeps ==
  ASSUME TypeOK, NEW S, NEW why \in Fates \ {"live", "unborn"}, Delete(S, why)
  PROVE  RowsKept
  BY DeleteSteps DEF RowsKept

LEMMA RowsStay == ASSUME TypeOK, UNCHANGED <<row, fate>> PROVE RowsKept
  BY DEF RowsKept, TypeOK

LEMMA Goes ==
  ASSUME TypeOK, NEW q \in Requests, UNCHANGED cookie,
         \/ End(q)
         \/ Refuse(q)
         \/ \E pc \in Waits \ {"answer"} : Continue(q, pc)
  PROVE  HandedOn
<1>1. \A p \in Requests \ {q} : task'[p] = task[p]
  BY TaskSteps DEF Refuse
<1>2. /\ task'[q].token \in {None, task[q].token} /\ task'[q].fresh \in {None, task[q].fresh}
      /\ task'[q].pc # "answer"
  <2>1. CASE End(q)
    BY <2>1, TaskSteps DEF Idle
  <2>2. CASE \E pc \in Waits \ {"answer"} : Continue(q, pc)
    BY <2>2, TaskSteps
  <2>3. CASE Refuse(q)
    BY <2>1, <2>2, <2>3 DEF Refuse, Waits
  <2> QED  BY <2>1, <2>2, <2>3
<1> QED  BY <1>1, <1>2 DEF HandedOn

LEMMA HandingOn ==
  ASSUME TypeOK, [Next]_vars
  PROVE  RowsKept /\ HandedOn
<1>1. ASSUME NEW q \in Requests, NEW b \in Browsers,
             \/ Register(q, b) \/ Login(q, b) \/ LogoutAll(q, b)
             \/ Refresh(q, b) \/ RefreshLapsed(q, b) \/ Logout(q, b) \/ LogoutLapsed(q, b)
      PROVE  RowsKept /\ HandedOn
  <2>1. PICK pc \in Waits \ {"answer"}, t \in {None, cookie[b]} : \E op : Start(q, pc, op, b, t)
    BY <1>1 DEF Register, Login, LogoutAll, Refresh, RefreshLapsed, Logout, LogoutLapsed, Waits
  <2>2. UNCHANGED <<row, fate, cookie>>
    BY <1>1 DEF Register, Login, LogoutAll, Refresh, RefreshLapsed, Logout, LogoutLapsed
  <2>3. /\ task'[q].pc = pc /\ task'[q].token = t /\ task'[q].fresh = None
        /\ \A p \in Requests \ {q} : task'[p] = task[p]
    BY <2>1, TaskSteps
  <2>4. HandedOn
    BY <2>1, <2>2, <2>3 DEF HandedOn
  <2> QED  BY <2>2, <2>4, RowsStay
<1>2. ASSUME NEW q \in Requests, \/ CreatePlan(q) \/ CreateUser(q) \/ FindToken(q)
                                 \/ CountSessions(q) \/ Lose(q) \/ Fail(q)
      PROVE  RowsKept /\ HandedOn
  <2>1. \/ End(q) \/ Refuse(q)
        \/ \E pc \in Waits \ {"answer"} : Continue(q, pc)
    BY <1>2 DEF CreatePlan, CreateUser, FindToken, CountSessions, Lose, Fail, Waits
  <2>2. UNCHANGED <<row, fate, cookie>>
    BY <1>2 DEF CreatePlan, CreateUser, FindToken, CountSessions, Lose, Fail
  <2> QED  BY <2>1, <2>2, RowsStay, Goes
<1>3. ASSUME NEW q \in Requests,
             Alarm(q) \/ DropExpired(q) \/ Redeem(q) \/ Evict(q) \/ DeleteToken(q)
      PROVE  RowsKept /\ HandedOn
  <2>1. /\ UNCHANGED cookie
        /\ Refuse(q) \/ \E pc \in Waits \ {"answer"} : Continue(q, pc)
    BY <1>3 DEF Alarm, DropExpired, Redeem, Evict, DeleteToken, Waits
  <2>2. UNCHANGED <<row, fate>> \/ \E S : \E why \in Fates \ {"live", "unborn"} : Delete(S, why)
    <3>1. {"revoked", "ended", "redeemed"} \subseteq Fates \ {"live", "unborn"}
      BY DEF Fates
    <3> QED  BY <1>3, <3>1 DEF Alarm, DropExpired, Redeem, Evict, DeleteToken
  <2> QED  BY <2>1, <2>2, RowsStay, DeleteKeeps, Goes
<1>4. ASSUME NEW q \in Requests, DeleteAll(q)
      PROVE  RowsKept /\ HandedOn
  <2>1. RowsKept
    BY <1>4 DEF DeleteAll, RowsKept, TypeOK, Fates
  <2> QED  BY <1>4, <2>1, Goes DEF DeleteAll, Waits
<1>5. ASSUME NEW q \in Requests, NEW t \in Tokens, CreateRow(q, t)
      PROVE  RowsKept /\ HandedOn
  <2>1. RowsKept
    BY <1>5 DEF CreateRow, RowsKept, TypeOK
  <2>2. /\ task'[q].pc = "hash" /\ task'[q].token = task[q].token /\ task'[q].fresh = t
        /\ \A p \in Requests \ {q} : task'[p] = task[p]
    <3>1. task[q] \in Task
      BY DEF TypeOK
    <3> QED  BY <1>5, <3>1 DEF CreateRow, TypeOK, Task
  <2>3. fate'[t] = "live" /\ UNCHANGED cookie
    BY <1>5 DEF CreateRow, TypeOK
  <2> QED  BY <2>1, <2>2, <2>3 DEF HandedOn
<1>6. ASSUME NEW q \in Requests, StoreHash(q)
      PROVE  RowsKept /\ HandedOn
  <2>1. CASE row[task[q].fresh] = None
    BY <1>6, <2>1, RowsStay, Goes DEF StoreHash
  <2>2. CASE row[task[q].fresh] # None
    <3>1. task[q].fresh \in Tokens
      BY <1>6 DEF StoreHash, TypeOK, Task, TaskOK
    <3>2. row[task[q].fresh] \in Row /\ \A t \in Tokens : row[t] # None => row[t] \in Row
      BY <2>2, <3>1 DEF TypeOK
    <3>3. \A t \in Tokens : row'[t] = IF t = task[q].fresh THEN [row[t] EXCEPT !.hashed = TRUE] ELSE row[t]
      BY <1>6, <2>2 DEF StoreHash, TypeOK
    <3>4. row'[task[q].fresh].hashed
      BY <3>1, <3>2, <3>3 DEF Row
    <3>5. RowsKept
      BY <1>6, <2>2, <3>2, <3>3 DEF StoreHash, RowsKept, Row
    <3>6. Continue(q, "answer") /\ UNCHANGED cookie
      BY <1>6, <2>2 DEF StoreHash
    <3>7. HandedOn
      BY <3>4, <3>6, TaskSteps DEF HandedOn
    <3> QED  BY <3>5, <3>7
  <2> QED  BY <2>1, <2>2
<1>7. ASSUME NEW q \in Requests, Answer(q)
      PROVE  RowsKept /\ HandedOn
  <2>1. /\ task'[q] = Idle /\ \A p \in Requests \ {q} : task'[p] = task[p]
    BY <1>7, TaskSteps DEF Answer
  <2>2. \A b \in Browsers : cookie'[b] \in {cookie[b], task[q].fresh}
    BY <1>7 DEF Answer, TypeOK
  <2>3. HandedOn
    BY <1>7, <2>1, <2>2 DEF HandedOn, Idle, Answer
  <2> QED  BY <1>7, <2>3, RowsStay DEF Answer
<1>8. ASSUME NEW q \in Requests, ClearCookie(q)
      PROVE  RowsKept /\ HandedOn
  <2>1. /\ task'[q] = Idle /\ \A p \in Requests \ {q} : task'[p] = task[p]
    BY <1>8, TaskSteps DEF ClearCookie
  <2>2. \A b \in Browsers : cookie'[b] \in {cookie[b], None}
    BY <1>8 DEF ClearCookie, TypeOK
  <2>3. HandedOn
    BY <2>1, <2>2 DEF HandedOn, Idle
  <2> QED  BY <1>8, <2>3, RowsStay DEF ClearCookie
<1>9. ASSUME NEW t \in Tokens, Expire(t)
      PROVE  RowsKept /\ HandedOn
  <2>1. row[t] \in Row /\ \A x \in Tokens : row'[x] = IF x = t THEN [row[t] EXCEPT !.expired = TRUE] ELSE row[x]
    BY <1>9 DEF Expire, TypeOK
  <2>2. RowsKept
    BY <1>9, <2>1 DEF Expire, Row, RowsKept
  <2> QED  BY <1>9, <2>2 DEF Expire, HandedOn
<1>10. CASE CleanUp
  <2>1. RowsKept
    BY <1>10, DeleteKeeps DEF CleanUp, Fates
  <2> QED  BY <1>10, <2>1 DEF CleanUp, HandedOn
<1>11. CASE Crash
  <2>1. HandedOn
    BY <1>11 DEF Crash, HandedOn, Idle
  <2> QED  BY <1>11, <2>1, RowsStay DEF Crash
<1>12. CASE UNCHANGED vars
  <2>1. HandedOn
    BY <1>12 DEF vars, HandedOn
  <2> QED  BY <1>12, <2>1, RowsStay DEF vars
<1> QED  BY <1>1, <1>2, <1>3, <1>4, <1>5, <1>6, <1>7, <1>8, <1>9, <1>10, <1>11, <1>12
         DEF Next, Begin, Proceed

LEMMA UnbornNext == TypeOK /\ Unborn /\ [Next]_vars => Unborn'
<1> SUFFICES ASSUME TypeOK, Unborn, [Next]_vars, NEW t \in Tokens, fate'[t] = "unborn"
             PROVE  /\ \A b \in Browsers : cookie'[b] # t
                    /\ \A q \in Requests : task'[q].token # t /\ task'[q].fresh # t
  BY DEF Unborn
<1>1. RowsKept /\ HandedOn
  BY HandingOn
<1>2. fate[t] = "unborn" /\ t # None
  BY <1>1, NoneAssumption DEF RowsKept
<1>3. \A b \in Browsers : cookie'[b] # t
  BY <1>1, <1>2 DEF HandedOn, Unborn
<1>4. ASSUME NEW q \in Requests
      PROVE  task'[q].token # t /\ task'[q].fresh # t
  BY <1>1, <1>2 DEF HandedOn, Unborn
<1> QED  BY <1>3, <1>4

LEMMA UnbornInit == Init => Unborn
  BY NoneAssumption DEF Init, Unborn, Idle

LEMMA HashedNext == TypeOK /\ Unborn /\ HeldIsHashed /\ [Next]_vars => HeldIsHashed'
<1> SUFFICES ASSUME TypeOK, Unborn, HeldIsHashed, [Next]_vars
             PROVE  HeldIsHashed'
  OBVIOUS
<1>1. RowsKept /\ HandedOn
  BY HandingOn
<1>2. ASSUME NEW t \in Tokens, fate[t] # "unborn", Hashed(t)
      PROVE  t # None => row'[t] = None \/ row'[t].hashed
  BY <1>1, <1>2 DEF RowsKept, Hashed
<1>3. ASSUME NEW t, \/ \E b \in Browsers : t = cookie[b]
                    \/ \E q \in Requests : t = task[q].token
                    \/ \E q \in Requests : task[q].pc = "answer" /\ t = task[q].fresh
      PROVE  t # None => row'[t] = None \/ row'[t].hashed
  <2>1. t \in Tokens \cup {None}
    BY <1>3 DEF TypeOK, Task
  <2>2. t \in Tokens => fate[t] # "unborn"
    BY <1>3 DEF Unborn
  <2>3. Hashed(t)
    BY <1>3 DEF HeldIsHashed
  <2> QED  BY <1>2, <2>1, <2>2, <2>3
<1>4. ASSUME NEW b \in Browsers
      PROVE  cookie'[b] # None => row'[cookie'[b]] = None \/ row'[cookie'[b]].hashed
  BY <1>1, <1>3 DEF HandedOn
<1>5. ASSUME NEW q \in Requests
      PROVE  task'[q].token # None => row'[task'[q].token] = None \/ row'[task'[q].token].hashed
  BY <1>1, <1>3 DEF HandedOn
<1>6. ASSUME NEW q \in Requests, task'[q].pc = "answer"
      PROVE  task'[q].fresh # None => row'[task'[q].fresh] = None \/ row'[task'[q].fresh].hashed
  BY <1>1, <1>3, <1>6 DEF HandedOn
<1> QED  BY <1>4, <1>5, <1>6 DEF HeldIsHashed, Hashed

\* Whatever a browser holds or presents has its hash in the row, if there is a row.
THEOREM HeldAreHashed == Spec => []HeldIsHashed
<1>1. Init => HeldIsHashed
  BY DEF Init, HeldIsHashed, Hashed, Idle
<1> QED  BY <1>1, UnbornInit, UnbornNext, HashedNext, TypeCorrect, PTL DEF Spec

-----------------------------------------------------------------------------
(* Single use *)

\* A step of one request changes its own grant only.
LEMMA GrantSteps ==
  ASSUME TypeOK, NEW q \in Requests, \A p \in Requests \ {q} : task'[p] = task[p]
  PROVE  /\ q \notin Paid /\ q \notin Paid' => Grants' = Grants
         /\ q \notin Paid /\ q \in Paid' => Grants' = Grants \cup {<<q, task'[q].token>>}
         /\ q \in Paid /\ q \notin Paid' => Grants' = Grants \ {<<q, task[q].token>>}
         /\ q \in Paid /\ q \in Paid' /\ task'[q].token = task[q].token => Grants' = Grants
<1>1. \A p \in Requests \ {q} : p \in Paid <=> p \in Paid'
  BY DEF Paid
<1>2. Paid \subseteq Requests /\ Paid' \subseteq Requests
  BY DEF Paid
<1>3. ASSUME q \notin Paid, q \notin Paid'
      PROVE  Grants' = Grants
  BY <1>1, <1>2, <1>3 DEF Grants
<1>4. ASSUME q \notin Paid, q \in Paid'
      PROVE  Grants' = Grants \cup {<<q, task'[q].token>>}
  BY <1>1, <1>2, <1>4 DEF Grants
<1>5. ASSUME q \in Paid, q \notin Paid'
      PROVE  Grants' = Grants \ {<<q, task[q].token>>}
  BY <1>1, <1>2, <1>5 DEF Grants
<1>6. ASSUME q \in Paid, q \in Paid', task'[q].token = task[q].token
      PROVE  Grants' = Grants
  BY <1>1, <1>2, <1>6 DEF Grants
<1> QED  BY <1>3, <1>4, <1>5, <1>6

\* A delete, whatever its reason, revokes.
LEMMA RevokeStep ==
  ASSUME TypeOK, NEW S, NEW why \in Fates \ {"live", "unborn"}, Delete(S, why), Grants' = Grants
  PROVE  Promise!Next
<1>1. Live' = Live \ (S \cap Live) /\ Issued' = Issued
  BY DeleteSteps DEF Issued
<1>2. Promise!Revoke(S \cap Live)
  BY <1>1 DEF Promise!Revoke
<1> QED  BY <1>2 DEF Promise!Next

\* Every step of a request is a step of the promise or none.
LEMMA PromiseStep ==
  TypeOK /\ Unborn /\ [Next]_vars => [Promise!Next]_<<Issued, Live, Grants>>
<1> SUFFICES ASSUME TypeOK, Unborn, [Next]_vars
             PROVE  Promise!Next \/ UNCHANGED <<Issued, Live, Grants>>
  OBVIOUS
<1>0. UNCHANGED <<row, fate>> => UNCHANGED <<Issued, Live>>
  BY DEF Issued, Live
<1>1. ASSUME NEW q \in Requests, NEW b \in Browsers,
             \/ Register(q, b) \/ LogoutAll(q, b)
             \/ Refresh(q, b) \/ RefreshLapsed(q, b) \/ Logout(q, b) \/ LogoutLapsed(q, b)
      PROVE  UNCHANGED <<Issued, Live, Grants>>
  <2>1. PICK pc \in {"plan", "user", "logoutAll", "find", "refused", "logout", "cleared"} :
          \E op, t : Start(q, pc, op, b, t)
    BY <1>1 DEF Register, LogoutAll, Refresh, RefreshLapsed, Logout, LogoutLapsed
  <2>2. task'[q].pc = pc /\ \A p \in Requests \ {q} : task'[p] = task[p]
    BY <2>1, TaskSteps
  <2>3. q \notin Paid /\ q \notin Paid'
    BY <2>1, <2>2 DEF Paid, Start
  <2>4. UNCHANGED <<row, fate>>
    BY <1>1 DEF Register, LogoutAll, Refresh, RefreshLapsed, Logout, LogoutLapsed
  <2> QED  BY <1>0, <2>2, <2>3, <2>4, GrantSteps
<1>2. ASSUME NEW q \in Requests, NEW b \in Browsers, Login(q, b)
      PROVE  Promise!Next
  <2>1. /\ task'[q].pc = "count" /\ task'[q].token = None
        /\ \A p \in Requests \ {q} : task'[p] = task[p]
    BY <1>2, TaskSteps DEF Login
  <2>2. q \notin Paid /\ q \in Paid'
    BY <1>2, <2>1 DEF Paid, Start, Login
  <2>3. Promise!Authenticate(q)
    BY <1>0, <1>2, <2>1, <2>2, GrantSteps DEF Login, Promise!Authenticate
  <2> QED  BY <2>3 DEF Promise!Next
<1>3. ASSUME NEW q \in Requests, CreateUser(q)
      PROVE  Promise!Next \/ UNCHANGED <<Issued, Live, Grants>>
  <2>1. task[q].token = None
    BY <1>3 DEF CreateUser, TypeOK, TaskOK
  <2>2. q \notin Paid /\ UNCHANGED <<Issued, Live>>
    BY <1>0, <1>3 DEF CreateUser, Paid
  <2>3. CASE End(q)
    <3>1. q \notin Paid' /\ \A p \in Requests \ {q} : task'[p] = task[p]
      BY <2>3, TaskSteps DEF Paid, Idle
    <3> QED  BY <2>2, <3>1, GrantSteps
  <2>4. CASE Continue(q, "count")
    <3>1. q \in Paid' /\ task'[q].token = None /\ \A p \in Requests \ {q} : task'[p] = task[p]
      BY <2>1, <2>4, TaskSteps DEF Paid
    <3>2. Promise!Authenticate(q)
      BY <2>2, <3>1, GrantSteps DEF Promise!Authenticate
    <3> QED  BY <3>2 DEF Promise!Next
  <2> QED  BY <1>3, <2>3, <2>4 DEF CreateUser
<1>4. ASSUME NEW q \in Requests, Redeem(q)
      PROVE  Promise!Next \/ UNCHANGED <<Issued, Live, Grants>>
  <2> DEFINE t == task[q].token
  <2>1. t \in Tokens /\ q \notin Paid
    BY <1>4 DEF Redeem, TypeOK, TaskOK, Task, Paid
  <2>2. CASE row[t] = None
    <3>1. q \notin Paid' /\ \A p \in Requests \ {q} : task'[p] = task[p]
      BY <1>4, <2>2, TaskSteps DEF Redeem, Refuse, Paid, Idle
    <3> QED  BY <1>0, <1>4, <2>1, <2>2, <3>1, GrantSteps DEF Redeem
  <2>3. CASE row[t] # None
    <3>1. Delete({t}, "redeemed") /\ Continue(q, "count")
      BY <1>4, <2>3 DEF Redeem
    <3>2. q \in Paid' /\ task'[q].token = t /\ \A p \in Requests \ {q} : task'[p] = task[p]
      BY <3>1, TaskSteps DEF Paid
    <3>3. Live' = Live \ {t} /\ Issued' = Issued
      BY <3>1, DeleteSteps DEF Fates, Issued
    <3>4. t \in Live
      BY <2>1, <2>3 DEF Live
    <3>5. Grants' = Grants \cup {<<q, t>>}
      BY <2>1, <3>2, GrantSteps
    <3>6. Promise!Redeem(q, t)
      BY <3>3, <3>4, <3>5 DEF Promise!Redeem
    <3> QED  BY <2>1, <3>6 DEF Promise!Next
  <2> QED  BY <2>2, <2>3
<1>5. ASSUME NEW q \in Requests, NEW t \in Tokens, CreateRow(q, t)
      PROVE  Promise!Next
  <2> DEFINE g == <<q, task[q].token>>
  <2>1. /\ task'[q].pc = "hash" /\ \A p \in Requests \ {q} : task'[p] = task[p]
    <3>1. task[q] \in Task
      BY DEF TypeOK
    <3> QED  BY <1>5, <3>1 DEF CreateRow, TypeOK, Task
  <2>2. q \in Paid /\ q \notin Paid'
    BY <1>5, <2>1 DEF CreateRow, Paid
  <2>3. g \in Grants /\ Grants' = Grants \ {g}
    BY <2>1, <2>2, GrantSteps DEF Grants
  <2>4. t \in Tokens \ Issued /\ Issued' = Issued \cup {t}
    BY <1>5 DEF CreateRow, Issued, TypeOK
  <2>5. Live' = Live \cup {t}
    <3>1. UserOf(q) \in Users
      BY <1>5, AccountAssumption, NoneAssumption DEF CreateRow, UserOf, TypeOK, Task, TaskOK
    <3>2. [user |-> UserOf(q), hashed |-> FALSE, expired |-> FALSE] \in Row
      BY <3>1 DEF Row
    <3> QED  BY <1>5, <3>2, NoneAssumption DEF CreateRow, Live, TypeOK
  <2>6. Promise!Issue(g, t)
    BY <2>3, <2>4, <2>5 DEF Promise!Issue
  <2> QED  BY <2>3, <2>6 DEF Promise!Next
<1>6. ASSUME NEW q \in Requests, Alarm(q) \/ DropExpired(q) \/ Evict(q) \/ DeleteToken(q)
      PROVE  Promise!Next
  <2>1. PICK pc \in {"refused", "create", "cleared"} : Continue(q, pc)
    BY <1>6 DEF Alarm, DropExpired, Evict, DeleteToken
  <2>2. /\ task'[q].pc = pc /\ task'[q].token = task[q].token
        /\ \A p \in Requests \ {q} : task'[p] = task[p]
    BY <2>1, TaskSteps
  <2>3. q \in Paid <=> q \in Paid'
    BY <1>6, <2>1, <2>2, TaskSteps DEF Alarm, DropExpired, Evict, DeleteToken, Paid
  <2>4. Grants' = Grants
    BY <2>2, <2>3, GrantSteps
  <2>5. {"revoked", "ended"} \subseteq Fates \ {"live", "unborn"}
    BY DEF Fates
  <2> QED  BY <1>6, <2>4, <2>5, RevokeStep DEF Alarm, DropExpired, Evict, DeleteToken
<1>7. ASSUME NEW q \in Requests, DeleteAll(q)
      PROVE  Promise!Next
  <2>1. /\ task'[q].pc = "cleared" /\ \A p \in Requests \ {q} : task'[p] = task[p]
    BY <1>7, TaskSteps DEF DeleteAll
  <2>2. Grants' = Grants
    BY <1>7, <2>1, GrantSteps DEF DeleteAll, Paid
  <2> DEFINE gone == RowsOf(UserOf(q))
  <2>3. gone \subseteq Live
    BY DEF RowsOf
  <2>4. Live' = Live \ gone
    BY <1>7 DEF DeleteAll, Live, RowsOf
  <2>5. Issued' = Issued
    BY <1>7 DEF DeleteAll, Issued, TypeOK, RowsOf, Live, Between
  <2>6. Promise!Revoke(gone)
    BY <2>2, <2>4, <2>5 DEF Promise!Revoke
  <2> QED  BY <2>3, <2>6 DEF Promise!Next
<1>8. ASSUME NEW q \in Requests, CreatePlan(q) \/ FindToken(q) \/ StoreHash(q)
                                 \/ Answer(q) \/ ClearCookie(q) \/ Lose(q)
      PROVE  UNCHANGED <<Issued, Live, Grants>>
  <2>1. q \notin Paid
    BY <1>8 DEF CreatePlan, FindToken, StoreHash, Answer, ClearCookie, Lose, Paid, Arriving
  <2>2. \/ End(q) \/ Refuse(q)
        \/ \E pc \in {"user", "alarm", "drop", "redeem", "answer"} : Continue(q, pc)
    BY <1>8 DEF CreatePlan, FindToken, StoreHash, Answer, ClearCookie, Lose
  <2>3. q \notin Paid' /\ \A p \in Requests \ {q} : task'[p] = task[p]
    <3>1. CASE End(q)
      BY <3>1, TaskSteps DEF Paid, Idle
    <3>2. CASE \E pc \in {"user", "alarm", "drop", "redeem", "answer", "refused"} : Continue(q, pc)
      BY <3>2, TaskSteps DEF Paid
    <3> QED  BY <2>2, <3>1, <3>2 DEF Refuse
  <2>4. Grants' = Grants
    BY <2>1, <2>3, GrantSteps
  <2>5. Live' = Live /\ Issued' = Issued
    <3>1. CASE StoreHash(q)
      <4>1. \A t \in Tokens : row'[t] # None <=> row[t] # None
        <5>1. TypeOK'
          BY TypeNext
        <5>2. UNCHANGED fate
          BY <3>1 DEF StoreHash
        <5> QED  BY <5>1, <5>2 DEF TypeOK
      <4> QED  BY <3>1, <4>1 DEF StoreHash, Live, Issued
    <3>2. CASE ~StoreHash(q)
      BY <1>0, <1>8, <3>2 DEF CreatePlan, FindToken, Answer, ClearCookie, Lose
    <3> QED  BY <3>1, <3>2
  <2> QED  BY <2>4, <2>5
<1>9. ASSUME NEW q \in Requests, CountSessions(q)
      PROVE  UNCHANGED <<Issued, Live, Grants>>
  <2>1. /\ task'[q].pc \in {"evict", "create"} /\ task'[q].token = task[q].token
        /\ \A p \in Requests \ {q} : task'[p] = task[p]
    BY <1>9, TaskSteps DEF CountSessions
  <2>2. Grants' = Grants
    BY <1>9, <2>1, GrantSteps DEF CountSessions, Paid
  <2> QED  BY <1>0, <1>9, <2>2 DEF CountSessions
<1>10. ASSUME NEW q \in Requests, Fail(q)
       PROVE  Promise!Next \/ UNCHANGED <<Issued, Live, Grants>>
  <2>1. q \notin Paid' /\ \A p \in Requests \ {q} : task'[p] = task[p]
    <3>1. CASE End(q)
      BY <3>1, TaskSteps DEF Paid, Idle
    <3>2. CASE \E pc \in {"cleared", "refused"} : Continue(q, pc)
      BY <3>2, TaskSteps DEF Paid
    <3> QED  BY <1>10, <3>1, <3>2 DEF Fail, Refuse
  <2>2. UNCHANGED <<Issued, Live>>
    BY <1>0, <1>10 DEF Fail
  <2>3. CASE q \in Paid
    <3> DEFINE G == {<<q, task[q].token>>}
    <3>1. G \subseteq Grants /\ Grants' = Grants \ G
      BY <2>1, <2>3, GrantSteps DEF Grants
    <3>2. Promise!Abandon(G)
      BY <2>2, <3>1 DEF Promise!Abandon
    <3> QED  BY <3>1, <3>2 DEF Promise!Next
  <2>4. CASE q \notin Paid
    BY <2>1, <2>2, <2>4, GrantSteps
  <2> QED  BY <2>3, <2>4
<1>11. ASSUME NEW t \in Tokens, Expire(t)
       PROVE  UNCHANGED <<Issued, Live, Grants>>
  <2>1. \A x \in Tokens : row'[x] # None <=> row[x] # None
    <3>1. TypeOK'
      BY TypeNext
    <3>2. UNCHANGED fate
      BY <1>11 DEF Expire
    <3> QED  BY <3>1, <3>2 DEF TypeOK
  <2> QED  BY <1>11, <2>1 DEF Expire, Live, Issued, Grants, Paid
<1>12. CASE CleanUp
  <2>1. Grants' = Grants
    BY <1>12 DEF CleanUp, Grants, Paid
  <2> QED  BY <1>12, <2>1, RevokeStep DEF CleanUp, Fates
<1>13. CASE Crash
  <2>1. Grants' = {}
    BY <1>13 DEF Crash, Grants, Paid, Idle
  <2>2. Promise!Abandon(Grants)
    BY <1>0, <1>13, <2>1 DEF Crash, Promise!Abandon
  <2> QED  BY <2>2 DEF Promise!Next
<1>14. CASE UNCHANGED vars
  BY <1>14 DEF vars, Issued, Live, Grants, Paid
<1> QED  BY <1>1, <1>2, <1>3, <1>4, <1>5, <1>6, <1>7, <1>8, <1>9, <1>10, <1>11, <1>12, <1>13, <1>14
         DEF Next, Begin, Proceed

\* The refresh tokens are single-use tokens, whatever the requests do at a time.
THEOREM TokensAreSingleUse == Spec => RefinesPromise
<1>1. Init => Promise!Init
  <2> SUFFICES ASSUME Init PROVE Issued = {} /\ Live = {} /\ Grants = {}
    BY DEF Promise!Init
  <2>1. Paid = {}
    BY DEF Init, Paid, Idle
  <2> QED  BY <2>1 DEF Init, Issued, Live, Grants
<1>2. [Promise!Next]_<<Issued, Live, Grants>> => [Promise!Next]_(Promise!vars)
  BY DEF Promise!vars
<1> QED  BY <1>1, <1>2, PromiseStep, UnbornInit, UnbornNext, TypeCorrect, PTL
         DEF Spec, RefinesPromise, Promise!Spec

\* And so each refresh token is redeemed once at most, however many requests
\* present it, and has one heir at most: a row that is gone never comes back, nor
\* does the right to a new token that went with it (auth.service.ts:129).
THEOREM EachTokenOnce == Spec => []Promise!OneGrant /\ Promise!SpentIsSpent
<1>1. None \notin Tokens
  BY NoneAssumption
<1> QED
  BY <1>1, TokensAreSingleUse, Promise!EachTokenOnce, PTL DEF RefinesPromise

-----------------------------------------------------------------------------
(* Staying signed in *)

\* The tokens that are on their way to a browser.
Coming(q) == task[q].pc \in {"hash", "answer"}

\* While there has been no mishap a browser has one request at a time, which presents
\* the token the browser holds, no alarm is raised, no refresh is refused, and every
\* token that is held or coming is of one browser and good, or ended, or being
\* exchanged.
NoAlarm == \A q \in Requests : task[q].pc \notin {"alarm", "drop", "refused"}
OneRequest == \A p, q \in Requests : task[p].browser = task[q].browser /\ task[p].browser # None => p = q
Presented == \A q \in Requests : task[q].token # None => task[q].token = cookie[task[q].browser]
Holders == \A b \in Browsers : b \in signed <=> cookie[b] # None
OneHolder ==
  /\ \A b, c \in Browsers : cookie[b] = cookie[c] /\ cookie[b] # None => b = c
  /\ \A q \in Requests : Coming(q) => /\ \A b \in Browsers : cookie[b] # task[q].fresh
                                      /\ \A p \in Requests \ {q} : Coming(p) => task[p].fresh # task[q].fresh
Good(t) == fate[t] \in {"live", "ended"}
HeldGood == \A b \in signed : Good(cookie[b]) \/ \E q \in Requests : Rotating(q, b)
ComingGood == \A q \in Requests : Coming(q) => Good(task[q].fresh)

Steady == faults = {} => /\ NoAlarm /\ OneRequest /\ Presented /\ Holders
                         /\ OneHolder /\ HeldGood /\ ComingGood

\* Steps that end sessions at most.
FatesEnd == \A t \in Tokens : Good(t) => fate'[t] \in {"live", "ended"}

LEMMA QuietStep ==
  ASSUME TypeOK, Steady, faults = {}, NEW q \in Requests,
         UNCHANGED <<cookie, signed>>, FatesEnd,
         \A p \in Requests \ {q} : task'[p] = task[p],
         \/ /\ task'[q] = Idle /\ task[q].op # "refresh"
         \/ /\ task'[q].browser = task[q].browser /\ task'[q].token = task[q].token
            /\ task'[q].op = task[q].op /\ task'[q].fresh = task[q].fresh
            /\ task'[q].pc \notin {"alarm", "drop", "refused", "hash"}
            /\ task'[q].pc = "answer" => Coming(q)
            /\ task[q].op = "refresh" /\ task[q].pc \in Issuing => task'[q].pc \in Issuing
  PROVE  Steady'
<1>1. NoAlarm'
  BY DEF Steady, NoAlarm, Idle
<1>2. OneRequest'
  BY DEF Steady, OneRequest, Idle
<1>3. Presented'
  BY DEF Steady, Presented, Idle
<1>4. Holders'
  BY DEF Steady, Holders
<1>5. \A p \in Requests : Coming(p)' => Coming(p) /\ task'[p].fresh = task[p].fresh
  BY DEF Coming, Idle
<1>6. OneHolder'
  BY <1>5 DEF Steady, OneHolder
<1>7. ComingGood'
  <2>1. \A p \in Requests : Coming(p) => task[p].fresh \in Tokens
    BY DEF Coming, TypeOK, TaskOK, Task
  <2> QED  BY <1>5, <2>1 DEF Steady, ComingGood, FatesEnd, Good
<1>8. HeldGood'
  <2> SUFFICES ASSUME NEW b \in signed
               PROVE  Good(cookie[b])' \/ \E p \in Requests : Rotating(p, b)'
    BY DEF HeldGood
  <2>1. cookie[b] \in Tokens
    BY DEF Steady, Holders, TypeOK
  <2>2. Good(cookie[b]) => Good(cookie[b])'
    BY <2>1 DEF FatesEnd, Good
  <2>3. ASSUME NEW p \in Requests, Rotating(p, b)
        PROVE  Rotating(p, b)'
    BY <2>3 DEF Rotating
  <2> QED  BY <2>2, <2>3 DEF Steady, HeldGood
<1> QED  BY <1>1, <1>2, <1>3, <1>4, <1>6, <1>7, <1>8 DEF Steady

LEMMA DeleteEnds ==
  ASSUME TypeOK, NEW S, Delete(S, "ended")
  PROVE  FatesEnd
  BY DeleteSteps DEF FatesEnd, Good, Fates

\* What a refresh presents is good until it is redeemed.
LEMMA PresentedGood ==
  ASSUME TypeOK, Steady, faults = {}, NEW q \in Requests, task[q].pc \in {"find", "redeem"}
  PROVE  /\ task[q].browser \in Browsers /\ task[q].token \in Tokens
         /\ task[q].token = cookie[task[q].browser]
         /\ Good(task[q].token)
<1>1. task[q].browser \in Browsers /\ task[q].token \in Tokens /\ task[q].token # None
  BY NoneAssumption DEF TypeOK, TaskOK, Task
<1>2. task[q].token = cookie[task[q].browser] /\ task[q].browser \in signed
  BY <1>1 DEF Steady, Presented, Holders
<1>3. ~ \E p \in Requests : Rotating(p, task[q].browser)
  BY <1>1, NoneAssumption DEF Steady, OneRequest, Rotating, Issuing
<1> QED  BY <1>1, <1>2, <1>3 DEF Steady, HeldGood

LEMMA SteadyBegin ==
  ASSUME TypeOK, Steady, faults' = {}, NEW q \in Requests, NEW b \in Browsers,
         \/ Register(q, b) \/ Login(q, b) \/ LogoutAll(q, b)
         \/ Refresh(q, b) \/ RefreshLapsed(q, b) \/ Logout(q, b) \/ LogoutLapsed(q, b)
  PROVE  Steady'
<1>0. faults = {} /\ Overlap(b) = {} /\ ~RefreshLapsed(q, b)
  BY DEF Register, Login, LogoutAll, Refresh, RefreshLapsed, Logout, LogoutLapsed
<1>1. PICK pc \in {"plan", "user", "count", "logoutAll", "find", "logout", "cleared"},
           t \in {None, cookie[b]} : \E op : Start(q, pc, op, b, t)
  BY <1>0 DEF Register, Login, LogoutAll, Refresh, Logout, LogoutLapsed
<1>2. UNCHANGED <<fate, cookie, signed>>
  BY DEF Register, Login, LogoutAll, Refresh, RefreshLapsed, Logout, LogoutLapsed
<1>3. /\ task'[q].pc = pc /\ task'[q].browser = b /\ task'[q].token = t
      /\ \A p \in Requests \ {q} : task'[p] = task[p]
  BY <1>1, TaskSteps
<1>4. \A p \in Requests : task[p].browser # b
  BY <1>0 DEF Overlap
<1>5. NoAlarm'
  BY <1>0, <1>3 DEF Steady, NoAlarm
<1>6. OneRequest'
  BY <1>0, <1>3, <1>4 DEF Steady, OneRequest
<1>7. Presented'
  BY <1>0, <1>2, <1>3 DEF Steady, Presented
<1>8. Holders'
  BY <1>0, <1>2 DEF Steady, Holders
<1>9. \A p \in Requests : Coming(p)' => Coming(p) /\ task'[p].fresh = task[p].fresh
  BY <1>3 DEF Coming
<1>10. OneHolder'
  BY <1>0, <1>2, <1>9 DEF Steady, OneHolder
<1>11. ComingGood'
  BY <1>0, <1>2, <1>9 DEF Steady, ComingGood, Good
<1>12. HeldGood'
  <2>1. \A c \in Browsers, p \in Requests : Rotating(p, c) => Rotating(p, c)'
    BY <1>1, <1>2, <1>3 DEF Rotating, Start, Issuing
  <2>2. signed \subseteq Browsers
    BY DEF TypeOK
  <2> QED  BY <1>0, <1>2, <2>1, <2>2 DEF Steady, HeldGood, Good
<1> QED  BY <1>5, <1>6, <1>7, <1>8, <1>10, <1>11, <1>12 DEF Steady

LEMMA SteadyProceed ==
  ASSUME TypeOK, Unborn, HeldIsHashed, Steady, faults' = {}, NEW q \in Requests, Proceed(q)
  PROVE  Steady'
<1>0. faults = {}
  BY DEF Proceed, CreatePlan, CreateUser, FindToken, Alarm, DropExpired, Redeem, CountSessions,
         Evict, CreateRow, StoreHash, DeleteToken, DeleteAll, Answer, ClearCookie
<1>a. /\ NoAlarm /\ OneRequest /\ Presented /\ Holders /\ OneHolder /\ HeldGood /\ ComingGood
  BY <1>0 DEF Steady
<1>b. UNCHANGED fate => FatesEnd
  BY DEF FatesEnd, Good
<1>c. task[q].pc # "idle" => task[q].browser \in Browsers /\ task[q].browser # None
  BY NoneAssumption DEF TypeOK, TaskOK, Task
<1>1. CASE CreatePlan(q) \/ CreateUser(q)
  <2>1. task[q].op = "register" /\ UNCHANGED <<cookie, signed, fate>> /\ task[q].pc \in {"plan", "user"}
    BY <1>1 DEF CreatePlan, CreateUser, TypeOK, TaskOK
  <2>2. End(q) \/ Continue(q, "user") \/ Continue(q, "count")
    BY <1>1 DEF CreatePlan, CreateUser
  <2> QED  BY <1>0, <1>b, <2>1, <2>2, TaskSteps, QuietStep
<1>2. CASE FindToken(q)
  <2> DEFINE t == task[q].token
  <2>1. t \in Tokens /\ Good(t)
    BY <1>0, <1>2, PresentedGood DEF FindToken
  <2>2. row[t] # None
    BY <1>2, <2>1 DEF FindToken, TypeOK, Good, Ended
  <2>3. row[t].hashed
    BY <2>1, <2>2, NoneAssumption DEF HeldIsHashed, Hashed
  <2>4. ~row[t].expired
    BY <1>2, <2>2 DEF FindToken
  <2>5. Continue(q, "redeem") /\ UNCHANGED <<cookie, signed, fate>> /\ task[q].pc = "find"
    BY <1>2, <2>2, <2>3, <2>4 DEF FindToken
  <2> QED  BY <1>0, <1>b, <2>5, TaskSteps, QuietStep DEF Issuing
<1>3. CASE Alarm(q) \/ DropExpired(q)
  BY <1>a, <1>3 DEF Alarm, DropExpired, NoAlarm
<1>4. CASE Redeem(q)
  <2> DEFINE t == task[q].token
             b == task[q].browser
  <2>1. b \in Browsers /\ t \in Tokens /\ t = cookie[b] /\ t # None /\ Good(t)
    BY <1>0, <1>4, PresentedGood, NoneAssumption DEF Redeem
  <2>2. row[t] # None
    BY <1>4, <2>1 DEF Redeem, TypeOK, Good, Ended
  <2>3. Delete({t}, "redeemed") /\ Continue(q, "count") /\ UNCHANGED <<cookie, signed>>
    BY <1>4, <2>2 DEF Redeem
  <2>4. /\ task'[q].pc = "count" /\ task'[q].op = "refresh" /\ task'[q].browser = b
        /\ task'[q].token = t /\ \A p \in Requests \ {q} : task'[p] = task[p]
    BY <1>4, <2>3, TaskSteps DEF Redeem, TypeOK, TaskOK
  <2>5. \A x \in Tokens \ {t} : fate'[x] = fate[x]
    BY <2>3, DeleteSteps DEF Fates
  <2>6. NoAlarm' /\ OneRequest' /\ Presented' /\ Holders'
    BY <1>a, <2>3, <2>4 DEF NoAlarm, OneRequest, Presented, Holders
  <2>7. \A p \in Requests : Coming(p)' => Coming(p) /\ task'[p].fresh = task[p].fresh
    BY <2>4 DEF Coming
  <2>8. OneHolder'
    BY <1>a, <2>3, <2>7 DEF OneHolder
  <2>9. ASSUME NEW p \in Requests, Coming(p)'
        PROVE  Good(task[p].fresh)'
    <3>1. Coming(p) /\ task'[p].fresh = task[p].fresh
      BY <2>7, <2>9
    <3>2. task[p].fresh \in Tokens /\ task[p].fresh # t
      BY <1>a, <2>1, <3>1 DEF OneHolder, Coming, TypeOK, TaskOK, Task
    <3> QED  BY <1>a, <2>5, <3>1, <3>2 DEF ComingGood, Good
  <2>10. ASSUME NEW c \in signed
         PROVE  Good(cookie[c])' \/ \E p \in Requests : Rotating(p, c)'
    <3>1. CASE c = b
      BY <2>1, <2>3, <2>4, <3>1 DEF Rotating, Issuing
    <3>2. CASE c # b
      <4>1. c \in Browsers /\ cookie[c] \in Tokens /\ cookie[c] # t
        BY <1>a, <2>1, <2>10, <3>2 DEF Holders, OneHolder, TypeOK
      <4>2. Good(cookie[c]) => Good(cookie[c])'
        BY <2>3, <2>5, <4>1 DEF Good
      <4>3. \A p \in Requests : Rotating(p, c) => Rotating(p, c)'
        BY <1>4, <2>3, <2>4 DEF Rotating, Issuing, Redeem
      <4> QED  BY <1>a, <4>2, <4>3 DEF HeldGood
    <3> QED  BY <3>1, <3>2
  <2> QED  BY <2>3, <2>6, <2>8, <2>9, <2>10 DEF Steady, ComingGood, HeldGood
<1>5. CASE CountSessions(q)
  <2>1. UNCHANGED <<cookie, signed, fate>> /\ \E pc \in {"evict", "create"} : Continue(q, pc)
    BY <1>5 DEF CountSessions
  <2> QED  BY <1>0, <1>b, <1>5, <2>1, TaskSteps, QuietStep DEF Issuing
<1>6. CASE Evict(q)
  <2>1. UNCHANGED <<cookie, signed>> /\ Continue(q, "create") /\ FatesEnd
    BY <1>6, DeleteEnds DEF Evict
  <2> QED  BY <1>0, <1>6, <2>1, TaskSteps, QuietStep DEF Issuing
<1>7. ASSUME NEW t \in Tokens, CreateRow(q, t)
      PROVE  Steady'
  <2>1. /\ task'[q].pc = "hash" /\ task'[q].op = task[q].op /\ task'[q].browser = task[q].browser
        /\ task'[q].token = task[q].token /\ task'[q].fresh = t
        /\ \A p \in Requests \ {q} : task'[p] = task[p]
    <3>1. task[q] \in Task
      BY DEF TypeOK
    <3> QED  BY <1>7, <3>1 DEF CreateRow, TypeOK, Task
  <2>2. /\ fate[t] = "unborn" /\ task[q].pc = "create" /\ UNCHANGED <<cookie, signed>>
        /\ \A x \in Tokens : fate'[x] = IF x = t THEN "live" ELSE fate[x]
    BY <1>7 DEF CreateRow, TypeOK
  <2>3. NoAlarm' /\ OneRequest' /\ Presented' /\ Holders'
    BY <1>a, <2>1, <2>2 DEF NoAlarm, OneRequest, Presented, Holders
  <2>4. \A x \in Tokens : Good(x) => Good(x)'
    BY <2>2 DEF Good
  <2>5. \A p \in Requests \ {q} : Coming(p)' => Coming(p) /\ task'[p].fresh = task[p].fresh
    BY <2>1 DEF Coming
  <2>6. OneHolder'
    <3>1. /\ \A b \in Browsers : cookie[b] # t
          /\ \A p \in Requests : task[p].fresh # t
      BY <2>2 DEF Unborn
    <3> QED  BY <1>a, <2>1, <2>2, <2>5, <3>1 DEF OneHolder
  <2>7. ASSUME NEW p \in Requests, Coming(p)'
        PROVE  Good(task[p].fresh)'
    <3>1. CASE p = q
      BY <2>1, <2>2, <3>1 DEF Good
    <3>2. CASE p # q
      <4>1. Coming(p) /\ task[p].fresh \in Tokens /\ task'[p].fresh = task[p].fresh
        BY <2>5, <2>7, <3>2 DEF Coming, TypeOK, TaskOK, Task
      <4> QED  BY <1>a, <2>4, <4>1 DEF ComingGood, Good
    <3> QED  BY <3>1, <3>2
  <2>8. ASSUME NEW c \in signed
        PROVE  Good(cookie[c])' \/ \E p \in Requests : Rotating(p, c)'
    <3>1. cookie[c] \in Tokens
      BY <1>a, <2>8 DEF Holders, TypeOK
    <3>2. \A p \in Requests : Rotating(p, c) => Rotating(p, c)'
      BY <2>1, <2>2 DEF Rotating, Issuing
    <3>3. Good(cookie[c]) => Good(cookie[c])'
      BY <2>2, <3>1 DEF Good
    <3> QED  BY <1>a, <3>2, <3>3 DEF HeldGood
  <2> QED  BY <2>2, <2>3, <2>6, <2>7, <2>8 DEF Steady, ComingGood, HeldGood
<1>8. CASE StoreHash(q)
  <2>1. task[q].fresh \in Tokens /\ Good(task[q].fresh)
    BY <1>a, <1>8 DEF StoreHash, Coming, ComingGood, TypeOK, TaskOK, Task
  <2>2. row[task[q].fresh] # None
    BY <1>8, <2>1 DEF StoreHash, TypeOK, Good, Ended
  <2>3. UNCHANGED <<cookie, signed, fate>> /\ Continue(q, "answer") /\ Coming(q)
    BY <1>8, <2>2 DEF StoreHash, Coming
  <2> QED  BY <1>0, <1>b, <2>3, TaskSteps, QuietStep DEF Issuing
<1>9. CASE DeleteToken(q)
  <2>1. /\ UNCHANGED <<cookie, signed>> /\ Continue(q, "cleared") /\ FatesEnd
        /\ task[q].op = "logout"
    BY <1>9, DeleteEnds DEF DeleteToken, TypeOK, TaskOK
  <2> QED  BY <1>0, <2>1, TaskSteps, QuietStep
<1>10. CASE DeleteAll(q)
  <2>1. FatesEnd
    BY <1>10 DEF DeleteAll, FatesEnd, Good, Between, RowsOf, Live
  <2>2. UNCHANGED <<cookie, signed>> /\ Continue(q, "cleared") /\ task[q].pc = "logoutAll"
    BY <1>10 DEF DeleteAll
  <2> QED  BY <1>0, <2>1, <2>2, TaskSteps, QuietStep DEF Issuing
<1>11. CASE Answer(q)
  <2> DEFINE t == task[q].fresh
             b == task[q].browser
  <2>1. /\ b \in Browsers /\ b # None /\ t \in Tokens /\ t # None /\ Coming(q)
        /\ fate' = fate /\ signed' = signed \cup {b}
        /\ \A c \in Browsers : cookie'[c] = IF c = b THEN t ELSE cookie[c]
    BY <1>11, <1>c, NoneAssumption DEF Answer, TypeOK, TaskOK, Task, Coming
  <2>2. task'[q] = Idle /\ \A p \in Requests \ {q} : task'[p] = task[p]
    BY <1>11, TaskSteps DEF Answer
  <2>3. NoAlarm' /\ OneRequest' /\ Holders'
    BY <1>a, <2>1, <2>2 DEF NoAlarm, OneRequest, Holders, Idle
  <2>4. ASSUME NEW p \in Requests, task'[p].token # None
        PROVE  task'[p].token = cookie'[task'[p].browser]
    <3>1. p # q /\ task'[p] = task[p]
      BY <2>2, <2>4 DEF Idle
    <3>2. task[p].pc # "idle"
      BY <2>4, <3>1 DEF TypeOK, TaskOK, Idle
    <3>3. task[p].browser \in Browsers /\ task[p].browser # b
      BY <1>a, <2>1, <3>1, <3>2, NoneAssumption DEF OneRequest, TypeOK, TaskOK, Task
    <3> QED  BY <1>a, <2>1, <2>4, <3>1, <3>3 DEF Presented
  <2>5. \A p \in Requests : Coming(p)' => p # q /\ Coming(p) /\ task'[p].fresh = task[p].fresh
    BY <2>2 DEF Coming, Idle
  <2>6. OneHolder'
    <3>1. ASSUME NEW c \in Browsers, NEW d \in Browsers, cookie'[c] = cookie'[d], cookie'[c] # None
          PROVE  c = d
      BY <1>a, <2>1, <3>1 DEF OneHolder
    <3>2. ASSUME NEW p \in Requests, Coming(p)'
          PROVE  /\ \A c \in Browsers : cookie'[c] # task'[p].fresh
                 /\ \A x \in Requests \ {p} : Coming(x)' => task'[x].fresh # task'[p].fresh
      BY <1>a, <2>1, <2>5, <3>2 DEF OneHolder
    <3> QED  BY <3>1, <3>2 DEF OneHolder
  <2>7. ComingGood'
    BY <1>a, <2>1, <2>5 DEF ComingGood, Good
  <2>8. ASSUME NEW c \in signed'
        PROVE  Good(cookie[c])' \/ \E p \in Requests : Rotating(p, c)'
    <3>1. CASE c = b
      BY <1>a, <2>1, <3>1 DEF ComingGood, Good
    <3>2. CASE c # b
      <4>1. c \in signed /\ c \in Browsers /\ cookie'[c] = cookie[c]
        BY <2>1, <2>8, <3>2 DEF TypeOK
      <4>2. \A p \in Requests : Rotating(p, c) => Rotating(p, c)'
        BY <2>2, <3>2, <4>1 DEF Rotating
      <4> QED  BY <1>a, <2>1, <4>1, <4>2 DEF HeldGood, Good
    <3> QED  BY <3>1, <3>2
  <2> QED  BY <2>3, <2>4, <2>6, <2>7, <2>8 DEF Steady, Presented, HeldGood
<1>12. CASE ClearCookie(q)
  <2> DEFINE b == task[q].browser
  <2>1. /\ task[q].pc = "cleared" /\ b \in Browsers /\ b # None /\ fate' = fate /\ signed' = signed \ {b}
        /\ \A c \in Browsers : cookie'[c] = IF c = b THEN None ELSE cookie[c]
    BY <1>a, <1>c, <1>12 DEF ClearCookie, NoAlarm, TypeOK
  <2>2. task'[q] = Idle /\ \A p \in Requests \ {q} : task'[p] = task[p]
    BY <1>12, TaskSteps DEF ClearCookie
  <2>3. NoAlarm' /\ OneRequest' /\ Holders'
    BY <1>a, <2>1, <2>2 DEF NoAlarm, OneRequest, Holders, Idle
  <2>4. ASSUME NEW p \in Requests, task'[p].token # None
        PROVE  task'[p].token = cookie'[task'[p].browser]
    <3>1. p # q /\ task'[p] = task[p]
      BY <2>2, <2>4 DEF Idle
    <3>2. task[p].pc # "idle"
      BY <2>4, <3>1 DEF TypeOK, TaskOK, Idle
    <3>3. task[p].browser \in Browsers /\ task[p].browser # b
      BY <1>a, <2>1, <3>1, <3>2, NoneAssumption DEF OneRequest, TypeOK, TaskOK, Task
    <3> QED  BY <1>a, <2>1, <2>4, <3>1, <3>3 DEF Presented
  <2>5. \A p \in Requests : Coming(p)' => p # q /\ Coming(p) /\ task'[p].fresh = task[p].fresh
    BY <2>2 DEF Coming, Idle
  <2>6. OneHolder'
    <3>1. \A p \in Requests : Coming(p) => task[p].fresh # None
      BY DEF Coming, TypeOK, TaskOK
    <3> QED  BY <1>a, <2>1, <2>5, <3>1 DEF OneHolder
  <2>7. ComingGood'
    BY <1>a, <2>1, <2>5 DEF ComingGood, Good
  <2>8. ASSUME NEW c \in signed'
        PROVE  Good(cookie[c])' \/ \E p \in Requests : Rotating(p, c)'
    <3>1. c \in signed /\ c # b /\ c \in Browsers /\ cookie'[c] = cookie[c]
      BY <2>1, <2>8 DEF TypeOK
    <3>2. \A p \in Requests : Rotating(p, c) => Rotating(p, c)'
      BY <2>2, <3>1 DEF Rotating
    <3> QED  BY <1>a, <2>1, <3>1, <3>2 DEF HeldGood, Good
  <2> QED  BY <2>3, <2>4, <2>6, <2>7, <2>8 DEF Steady, Presented, HeldGood
<1> QED  BY <1>1, <1>2, <1>3, <1>4, <1>5, <1>6, <1>7, <1>8, <1>9, <1>10, <1>11, <1>12 DEF Proceed

LEMMA SteadyNext ==
  TypeOK /\ Unborn /\ HeldIsHashed /\ Steady /\ [Next]_vars => Steady'
<1> SUFFICES ASSUME TypeOK, Unborn, HeldIsHashed, Steady, [Next]_vars, faults' = {}
             PROVE  Steady'
  BY DEF Steady
<1>1. ASSUME NEW q \in Requests, Begin(q)
      PROVE  Steady'
  BY <1>1, SteadyBegin DEF Begin
<1>2. ASSUME NEW q \in Requests, Lose(q) \/ Fail(q)
      PROVE  FALSE
  BY <1>2 DEF Lose, Fail
<1>3. ~Crash
  BY DEF Crash
<1>4. ASSUME UNCHANGED <<cookie, signed, task, faults>>, FatesEnd
      PROVE  Steady'
  <2>1. /\ \A b \in signed : cookie[b] \in Tokens
        /\ \A q \in Requests : Coming(q) => task[q].fresh \in Tokens
    BY <1>4 DEF Steady, Holders, Coming, TypeOK, TaskOK, Task
  <2>2. /\ NoAlarm' /\ OneRequest' /\ Presented' /\ Holders' /\ OneHolder'
    BY <1>4 DEF Steady, NoAlarm, OneRequest, Presented, Holders, OneHolder, Coming
  <2>3. HeldGood' /\ ComingGood'
    BY <1>4, <2>1 DEF Steady, HeldGood, ComingGood, Coming, FatesEnd, Good, Rotating
  <2> QED  BY <2>2, <2>3 DEF Steady
<1>5. ASSUME NEW t \in Tokens, Expire(t)
      PROVE  Steady'
  BY <1>4, <1>5 DEF Expire, FatesEnd, Good
<1>6. CASE CleanUp
  BY <1>4, <1>6, DeleteEnds DEF CleanUp
<1>7. CASE UNCHANGED vars
  BY <1>4, <1>7 DEF vars, FatesEnd, Good
<1> QED  BY <1>1, <1>2, <1>3, <1>5, <1>6, <1>7, SteadyProceed DEF Next

\* Without a mishap no browser loses its session but by a logout-all, the session
\* limit or age.
THEOREM BrowsersStaySignedIn == Spec => []StaysSignedIn
<1>1. Init => Steady
  BY NoneAssumption DEF Init, Steady, NoAlarm, OneRequest, Presented, Holders, OneHolder, HeldGood,
                        ComingGood, Coming, Idle
<1>2. Init => HeldIsHashed
  BY DEF Init, HeldIsHashed, Hashed, Idle
<1>3. TypeOK /\ Steady => StaysSignedIn
  <2> SUFFICES ASSUME TypeOK, Steady, faults = {}, NEW b \in signed
               PROVE  /\ cookie[b] # None
                      /\ \/ row[cookie[b]] # None
                         \/ fate[cookie[b]] = "ended"
                         \/ \E q \in Requests : Rotating(q, b)
    BY DEF StaysSignedIn
  <2>1. b \in Browsers /\ cookie[b] # None /\ cookie[b] \in Tokens
    BY DEF Steady, Holders, TypeOK
  <2> QED  BY <2>1 DEF Steady, HeldGood, Good, TypeOK
<1> QED  BY <1>1, <1>2, <1>3, UnbornInit, UnbornNext, HashedNext, SteadyNext, TypeCorrect, PTL
         DEF Spec
================================================================================
