------------------------- MODULE Maintenance_proofs -------------------------
(* Proofs about Maintenance, for any number of plans and rooms, any limits, *)
(* batches and attempts.                                                    *)
EXTENDS Maintenance, RoomChat_proofs, SequenceTheorems

-----------------------------------------------------------------------------
(* Types *)

LEMMA NewType == New \in Job
BY DEF New, Job

\* What the loop over the plans does when it turns to the plans of S.
LEMMA NextPlanFacts ==
  ASSUME now \in Nat, NEW S \in SUBSET Plans, NextPlan(S)
  PROVE  \/ job' = {} /\ pass' = NoPass
         \/ /\ job' = job
            /\ \E p \in S : pass' = [todo |-> S \ {p}, plan |-> p, cutoff |-> now - days[p]]
BY DEF NextPlan

LEMMA NextPlanTypes ==
  ASSUME TypeOK, NEW S \in SUBSET Plans, NextPlan(S), job # {}
  PROVE  (/\ \A j, k \in job : j = k
          /\ job \subseteq Job
          /\ pass \in Pass
          /\ pass # NoPass => job # {} /\ pass.plan # None)'
<1>1. now \in Nat
  BY DEF TypeOK, ChatTypeOK
<1>2. CASE job' = {} /\ pass' = NoPass
  BY <1>2 DEF NoPass, Pass
<1>3. ASSUME NEW p \in S, job' = job,
             pass' = [todo |-> S \ {p}, plan |-> p, cutoff |-> now - days[p]]
      PROVE  pass' \in Pass /\ pass'.plan # None
  <2>1. days[p] \in Nat /\ p \in Plans /\ p # None
    BY PlansAssumption, NoPlanAssumption
  <2>2. now - days[p] \in Int
    BY <1>1, <2>1
  <2> QED  BY <1>3, <2>1, <2>2 DEF Pass
<1> QED  BY <1>1, <1>2, <1>3, NextPlanFacts DEF TypeOK

LEMMA NoPassTypes ==
  ASSUME job' = {}, pass' = NoPass
  PROVE  (/\ \A j, k \in job : j = k
          /\ job \subseteq Job
          /\ pass \in Pass
          /\ pass # NoPass => job # {} /\ pass.plan # None)'
BY DEF NoPass, Pass

LEMMA WaitType ==
  ASSUME queue \in Seq(Job), NEW j \in Job, Wait(j)
  PROVE  queue' \in Seq(Job)
<1>1. PICK k \in 0..Len(queue) :
        queue' = SubSeq(queue, 1, k) \o <<j>> \o SubSeq(queue, k + 1, Len(queue))
  BY DEF Wait
<1>2. Len(queue) \in Nat
  OBVIOUS
<1>3. SubSeq(queue, 1, k) \in Seq(Job) /\ SubSeq(queue, k + 1, Len(queue)) \in Seq(Job)
  <2>1. \A m \in 1..k : m \in 1..Len(queue)
    BY <1>2
  <2>2. \A m \in (k + 1)..Len(queue) : m \in 1..Len(queue)
    BY <1>2
  <2> QED  BY <1>2, <2>1, <2>2
<1>4. <<j>> \in Seq(Job)
  OBVIOUS
<1> QED  BY <1>1, <1>3, <1>4

\* The rows that a batch leaves.
LEMMA BatchRows ==
  ASSUME TypeOK, DeleteBatch
  PROVE  /\ row' \in [Ids -> Row \cup {None, Deleted}]
         /\ \A i \in Ids : \/ row'[i] = row[i]
                           \/ row'[i] = Deleted /\ i \in Old(pass.plan, pass.cutoff)
BY DEF TypeOK, ChatTypeOK, DeleteBatch

LEMMA BatchChatTypes ==
  ASSUME TypeOK, DeleteBatch
  PROVE  ChatTypeOK'
<1>1. UNCHANGED <<now, limits, sent, member, task, reader, seen, late, mishaps>>
  BY DEF DeleteBatch
<1>2. None # Deleted
  BY NoneAssumption
<1>3. \A h \in Handlers : TaskOK(task[h])'
  BY <1>1, <1>2, BatchRows DEF TypeOK, ChatTypeOK, TaskOK, Task
<1>4. \A i \in Ids : Exists(i)' => row'[i].at <= now'
  BY <1>1, BatchRows DEF TypeOK, ChatTypeOK, Exists
<1> QED  BY <1>1, <1>3, <1>4, BatchRows DEF TypeOK, ChatTypeOK

LEMMA BatchTypes ==
  ASSUME TypeOK, DeleteBatch
  PROVE  TypeOK'
<1>1. ChatTypeOK' /\ queue' = queue
  BY BatchChatTypes DEF DeleteBatch
<1>2. CASE UNCHANGED <<job, pass, cleaned>>
  BY <1>1, <1>2 DEF TypeOK
<1>3. CASE /\ cleaned' = [cleaned EXCEPT ![pass.plan] = IF pass.cutoff > @ THEN pass.cutoff ELSE @]
           /\ NextPlan(pass.todo)
  <2>1. pass \in Pass /\ pass.plan \in Plans /\ pass # NoPass /\ pass.todo \in SUBSET Plans
    BY DEF TypeOK, Pass, NoPass, DeleteBatch
  <2>2. cleaned' \in [Plans -> Nat]
    BY <1>3, <2>1 DEF TypeOK, Pass
  <2>3. job # {}
    BY <2>1 DEF TypeOK
  <2> QED  BY <1>1, <1>3, <2>1, <2>2, <2>3, NextPlanTypes DEF TypeOK
<1> QED  BY <1>2, <1>3 DEF DeleteBatch

LEMMA FailTypes ==
  ASSUME TypeOK, JobFails
  PROVE  TypeOK'
<1>1. queue' \in Seq(Job)
  <2>1. PICK j \in job : IF j.tries + 1 < Attempts THEN Wait([j EXCEPT !.tries = @ + 1])
                         ELSE UNCHANGED queue
    BY DEF JobFails
  <2>2. [j EXCEPT !.tries = @ + 1] \in Job
    BY DEF TypeOK, Job
  <2> QED  BY <2>1, <2>2, WaitType DEF TypeOK
<1>2. ChatTypeOK'
  BY DEF TypeOK, ChatTypeOK, JobFails, TaskOK, Exists
<1>3. cleaned' \in [Plans -> Nat]
  BY DEF TypeOK, JobFails
<1> QED  BY <1>1, <1>2, <1>3, NoPassTypes DEF TypeOK, JobFails

LEMMA RestartTypes ==
  ASSUME TypeOK, Restart
  PROVE  TypeOK'
<1>1. queue' \in Seq(Job)
  <2>1. CASE UNCHANGED queue
    BY <2>1 DEF TypeOK
  <2>2. ASSUME NEW j \in job, queue' = <<[j EXCEPT !.stalls = 1]>> \o queue
        PROVE  queue' \in Seq(Job)
    <3>1. [j EXCEPT !.stalls = 1] \in Job
      BY DEF TypeOK, Job
    <3> QED  BY <2>2, <3>1 DEF TypeOK
  <2> QED  BY <2>1, <2>2 DEF Restart
<1>2. mishaps' \in Nat
  BY DEF TypeOK, ChatTypeOK, Restart
<1>3. ChatTypeOK'
  BY <1>2, TypesForget DEF TypeOK, Restart
<1>4. cleaned' \in [Plans -> Nat]
  BY DEF TypeOK, Restart
<1> QED  BY <1>1, <1>3, <1>4, NoPassTypes DEF TypeOK, Restart

\* Every variable has its type, and a pass is that of a running job (TypeOK).
THEOREM TypeCorrect == Spec => []TypeOK
<1>1. Init => TypeOK
  <2> SUFFICES ASSUME Init PROVE TypeOK
    OBVIOUS
  <2>1. ChatTypeOK
    BY TypesInit DEF Init
  <2> QED  BY <2>1 DEF Init, TypeOK, NoPass, Pass
<1>2. ASSUME TypeOK, [Next]_vars  PROVE TypeOK'
  <2>1. CASE (ChatNext \/ UNCHANGED chatVars) /\ UNCHANGED jobVars
    <3>1. ChatTypeOK'
      BY <1>2, <2>1, TypesNext DEF TypeOK
    <3> QED  BY <1>2, <2>1, <3>1 DEF TypeOK, jobVars
  <2>2. ASSUME UNCHANGED chatVars  PROVE ChatTypeOK'
    BY <1>2, <2>2, TypesNext DEF TypeOK
  <2>3. CASE Schedule
    BY <1>2, <2>2, <2>3, NewType DEF TypeOK, Schedule
  <2>4. CASE StartJob
    <3>1. Head(queue) \in Job /\ Tail(queue) \in Seq(Job)
      BY <1>2, <2>4 DEF TypeOK, StartJob
    <3> QED  BY <1>2, <2>2, <2>4, <3>1 DEF TypeOK, StartJob
  <2>5. CASE FindPlans
    <3>1. {p \in Plans : days[p] > 0} \in SUBSET Plans
      OBVIOUS
    <3> QED  BY <1>2, <2>2, <2>5, <3>1, NextPlanTypes DEF TypeOK, FindPlans
  <2> QED  BY <1>2, <2>1, <2>3, <2>4, <2>5, BatchTypes, FailTypes, RestartTypes DEF Next, vars
<1> QED  BY <1>1, <1>2, PTL DEF Spec

-----------------------------------------------------------------------------
(* What is deleted and what stays *)

\* A pass looks at plans with a limit only, with a cutoff that such messages have
\* passed.
PassInv ==
  /\ \A p \in pass.todo : days[p] > 0
  /\ pass.plan # None => days[pass.plan] > 0 /\ pass.cutoff <= now - days[pass.plan]

\* The inductive invariant: no plan has been done with a time to come.
RetentionInv == PassInv /\ PassesComplete /\ \A p \in Plans : cleaned[p] <= now

LEMMA NextPlanKeeps ==
  ASSUME TypeOK, NEW S \in SUBSET Plans, NextPlan(S), \A p \in S : days[p] > 0, now' = now
  PROVE  PassInv'
<1>1. now \in Nat
  BY DEF TypeOK, ChatTypeOK
<1>2. CASE pass' = NoPass
  BY <1>2 DEF PassInv, NoPass
<1>3. ASSUME NEW p \in S, pass' = [todo |-> S \ {p}, plan |-> p, cutoff |-> now - days[p]]
      PROVE  PassInv'
  <2>1. days[p] \in Nat
    BY PlansAssumption
  <2> QED  BY <1>1, <1>3, <2>1 DEF PassInv
<1> QED  BY <1>1, <1>2, <1>3, NextPlanFacts

LEMMA RetentionBatch ==
  ASSUME TypeOK, RetentionInv, DeleteBatch
  PROVE  RetentionInv'
<1> DEFINE O == Old(pass.plan, pass.cutoff)
<1>1. pass \in Pass /\ pass.plan \in Plans /\ pass.todo \in SUBSET Plans /\ pass.cutoff \in Int
  BY DEF TypeOK, Pass, DeleteBatch
<1>2. now' = now /\ now \in Nat
  BY DEF TypeOK, ChatTypeOK, DeleteBatch
<1>3. PICK P \in SUBSET O :
       /\ P = O \/ Cardinality(P) = Batch
       /\ row' = [i \in Ids |-> IF i \in P THEN Deleted ELSE row[i]]
       /\ \/ Cardinality(P) = Batch /\ UNCHANGED <<job, pass, cleaned>>
          \/ /\ Cardinality(P) # Batch
             /\ cleaned' = [cleaned EXCEPT ![pass.plan] = IF pass.cutoff > @ THEN pass.cutoff ELSE @]
             /\ NextPlan(pass.todo)
  BY DEF DeleteBatch
<1>4. \A i \in Ids : Exists(i)' => /\ row'[i] = row[i] /\ i \notin P /\ Exists(i)
                                   /\ row[i].at \in Nat /\ row[i].at <= now
                                   /\ planOf[row[i].room] \in Plans
  <2>1. \A i \in Ids : Exists(i) => row[i] \in Row /\ row[i].at <= now
    BY DEF TypeOK, ChatTypeOK, Exists
  <2>2. \A i \in Ids : Exists(i)' => row'[i] = row[i] /\ i \notin P /\ Exists(i)
    BY <1>3 DEF Exists
  <2> QED  BY <2>1, <2>2, PlansAssumption DEF Row
<1>5. CASE UNCHANGED <<job, pass, cleaned>>
  <2>1. PassesComplete'
    BY <1>4, <1>5 DEF RetentionInv, PassesComplete
  <2> QED  BY <1>2, <1>5, <2>1 DEF RetentionInv, PassInv
<1>6. CASE /\ Cardinality(P) # Batch
           /\ cleaned' = [cleaned EXCEPT ![pass.plan] = IF pass.cutoff > @ THEN pass.cutoff ELSE @]
           /\ NextPlan(pass.todo)
  <2>1. PassInv'
    BY <1>1, <1>2, <1>6, NextPlanKeeps DEF RetentionInv, PassInv
  <2>2. days[pass.plan] \in Nat /\ pass.cutoff <= now - days[pass.plan]
    BY <1>1, PlansAssumption DEF RetentionInv, PassInv, DeleteBatch
  <2>3. \A p \in Plans : cleaned'[p] = IF p = pass.plan /\ pass.cutoff > cleaned[p]
                                       THEN pass.cutoff ELSE cleaned[p]
    BY <1>1, <1>6 DEF TypeOK
  <2>4. \A p \in Plans : cleaned'[p] <= now'
    BY <1>1, <1>2, <2>2, <2>3 DEF RetentionInv
  <2>5. ASSUME NEW i \in Ids, Exists(i)'
        PROVE  (row[i].at >= cleaned[planOf[row[i].room]])'
    <3> DEFINE p == planOf[row[i].room]
    <3>1. row'[i] = row[i] /\ row[i].at \in Nat /\ p \in Plans /\ cleaned[p] \in Nat
      BY <1>4, <2>5 DEF TypeOK
    <3>2. row[i].at >= cleaned[p]
      BY <1>4, <2>5 DEF RetentionInv, PassesComplete
    <3>3. CASE p = pass.plan
      <4>1. i \notin O
        BY <1>3, <1>4, <1>6, <2>5
      <4>2. row[i].at >= pass.cutoff
        BY <1>1, <1>4, <2>5, <3>1, <3>3, <4>1 DEF Old
      <4> QED  BY <2>3, <3>1, <3>2, <4>2
    <3>4. CASE p # pass.plan
      BY <2>3, <3>1, <3>2, <3>4
    <3> QED  BY <3>3, <3>4
  <2> QED  BY <2>1, <2>4, <2>5 DEF RetentionInv, PassesComplete
<1> QED  BY <1>3, <1>5, <1>6

LEMMA RetentionChat ==
  ASSUME TypeOK, RetentionInv, ChatNext, UNCHANGED jobVars
  PROVE  RetentionInv'
<1>1. now \in Nat /\ cleaned \in [Plans -> Nat] /\ pass \in Pass /\ UNCHANGED <<pass, cleaned>>
  BY DEF TypeOK, ChatTypeOK, jobVars
<1>2. CASE UNCHANGED <<now, row>>
  BY <1>1, <1>2 DEF RetentionInv, PassInv, PassesComplete, Exists
<1>3. CASE Tick
  <2>1. row' = row /\ now' = now + 1
    BY <1>3 DEF Tick
  <2>2. PassesComplete'
    BY <1>1, <2>1 DEF RetentionInv, PassesComplete, Exists
  <2>3. PassInv'
    <3>1. pass.plan # None => days[pass.plan] \in Nat /\ pass.cutoff \in Int
      BY <1>1, PlansAssumption DEF Pass
    <3> QED  BY <1>1, <2>1, <3>1 DEF RetentionInv, PassInv
  <2> QED  BY <1>1, <2>1, <2>2, <2>3 DEF RetentionInv
<1>4. ASSUME NEW h \in Handlers, NEW i \in Ids, InsertMessage(h, i)
      PROVE  RetentionInv'
  <2>1. /\ now' = now /\ row'[i].at = now /\ row'[i].room \in Rooms
        /\ \A j \in Ids : j # i => row'[j] = row[j]
    BY <1>4 DEF InsertMessage, TypeOK, ChatTypeOK, TaskOK, Task
  <2>2. planOf[row'[i].room] \in Plans
    BY <2>1, PlansAssumption
  <2>3. PassesComplete'
    BY <1>1, <2>1, <2>2 DEF RetentionInv, PassesComplete, Exists
  <2> QED  BY <1>1, <2>1, <2>3 DEF RetentionInv, PassInv
<1>5. ASSUME NEW h \in Handlers, \/ \E u \in Users, r \in Rooms : Chat(h, u, r)
                                 \/ CheckMembership(h) \/ EmitMessage(h) \/ ChatFails(h)
      PROVE  RetentionInv'
  BY <1>2, <1>5 DEF Chat, CheckMembership, EmitMessage, ChatFails
<1>6. ASSUME NEW u \in Users, NEW r \in Rooms, RemoveMember(u, r) \/ AddMember(u, r)
      PROVE  RetentionInv'
  BY <1>2, <1>6 DEF RemoveMember, AddMember
<1>7. CASE EnterChannel \/ ReadPage
  BY <1>2, <1>7 DEF EnterChannel, ReadPage
<1> QED  BY <1>3, <1>4, <1>5, <1>6, <1>7 DEF ChatNext

\* The invariant holds.
LEMMA RetentionCorrect == Spec => []RetentionInv
<1>1. Init => RetentionInv
  <2> SUFFICES ASSUME Init PROVE RetentionInv
    OBVIOUS
  <2>1. ChatTypeOK /\ now = 0
    BY TypesInit DEF Init, ChatInit
  <2>2. \A i \in Ids : Exists(i) => row[i].at \in Nat /\ planOf[row[i].room] \in Plans
    BY <2>1, PlansAssumption DEF ChatTypeOK, Exists, Row
  <2> QED  BY <2>1, <2>2 DEF Init, RetentionInv, PassInv, PassesComplete, NoPass
<1>2. ASSUME TypeOK, RetentionInv, [Next]_vars  PROVE RetentionInv'
  <2>1. CASE UNCHANGED <<now, row, pass, cleaned>>
    BY <1>2, <2>1 DEF RetentionInv, PassInv, PassesComplete, Exists
  <2>2. CASE Schedule \/ StartJob \/ UNCHANGED vars
    BY <2>1, <2>2 DEF Schedule, StartJob, vars, chatVars, jobVars
  <2>3. CASE FindPlans
    <3>1. UNCHANGED <<now, row, cleaned>> /\ PassInv'
      BY <1>2, <2>3, NextPlanKeeps DEF FindPlans, chatVars
    <3> QED  BY <1>2, <3>1 DEF RetentionInv, PassesComplete, Exists
  <2>4. CASE JobFails \/ Restart
    <3>1. UNCHANGED <<now, row, cleaned>> /\ pass' = NoPass
      BY <2>4 DEF JobFails, Restart, ForgetChat
    <3> QED  BY <1>2, <3>1 DEF RetentionInv, PassInv, PassesComplete, Exists, NoPass
  <2> QED  BY <1>2, <2>2, <2>3, <2>4, RetentionBatch, RetentionChat DEF Next
<1> QED  BY <1>1, <1>2, TypeCorrect, PTL DEF Spec

\* A plan pass that ends leaves nothing behind (PassesComplete).
THEOREM PassesAreComplete == Spec => []PassesComplete
<1>1. RetentionInv => PassesComplete
  BY DEF RetentionInv
<1> QED  BY <1>1, RetentionCorrect, PTL

\* No message is deleted before its time (NothingEarly).
THEOREM NothingIsEarly == Spec => NothingEarly
<1> DEFINE Due == \A i \in Ids : Exists(i) /\ row'[i] = Deleted =>
                    /\ days[planOf[row[i].room]] > 0
                    /\ row[i].at < now - days[planOf[row[i].room]]
<1>1. ASSUME TypeOK, RetentionInv, [Next]_vars
      PROVE  [Due]_vars
  <2>1. CASE row' = row
    BY <2>1 DEF Exists
  <2>2. CASE DeleteBatch
    <3>1. ASSUME NEW i \in Ids, Exists(i), row'[i] = Deleted
          PROVE  /\ days[planOf[row[i].room]] > 0
                 /\ row[i].at < now - days[planOf[row[i].room]]
      <4>1. planOf[row[i].room] = pass.plan /\ row[i].at < pass.cutoff /\ pass.plan # None
        BY <1>1, <2>2, <3>1, BatchRows DEF Old, Exists, DeleteBatch
      <4>2. days[pass.plan] > 0 /\ pass.cutoff <= now - days[pass.plan]
        BY <1>1, <4>1 DEF RetentionInv, PassInv
      <4>3. row[i].at \in Nat /\ pass.cutoff \in Int /\ now \in Nat /\ days[pass.plan] \in Nat
        <5>1. row[i] \in Row /\ pass \in Pass
          BY <1>1, <3>1 DEF TypeOK, ChatTypeOK, Exists
        <5> QED  BY <1>1, <4>1, <5>1, PlansAssumption DEF Row, Pass, TypeOK, ChatTypeOK
      <4> QED  BY <4>1, <4>2, <4>3
    <3> QED  BY <3>1
  <2>3. ASSUME NEW h \in Handlers, NEW j \in Ids, InsertMessage(h, j)
        PROVE  Due
    <3>1. row'[j] # Deleted /\ \A i \in Ids : i # j => row'[i] = row[i]
      <4>1. [room |-> task[h].room, user |-> task[h].user, at |-> now] \in Row
        BY <1>1, <2>3 DEF InsertMessage, TypeOK, ChatTypeOK, TaskOK, Task, Row
      <4> QED  BY <1>1, <2>3, <4>1, NoneAssumption DEF InsertMessage, TypeOK, ChatTypeOK
    <3> QED  BY <3>1 DEF Exists
  <2>4. CASE \/ Schedule \/ StartJob \/ FindPlans \/ JobFails \/ Restart \/ UNCHANGED vars
    BY <2>1, <2>4 DEF Schedule, StartJob, FindPlans, JobFails, Restart, ForgetChat, vars, chatVars
  <2>5. ASSUME NEW h \in Handlers, \/ \E u \in Users, r \in Rooms : Chat(h, u, r)
                                   \/ CheckMembership(h) \/ EmitMessage(h) \/ ChatFails(h)
        PROVE  [Due]_vars
    BY <2>1, <2>5 DEF Chat, CheckMembership, EmitMessage, ChatFails
  <2>6. ASSUME NEW u \in Users, NEW r \in Rooms, RemoveMember(u, r) \/ AddMember(u, r)
        PROVE  [Due]_vars
    BY <2>1, <2>6 DEF RemoveMember, AddMember
  <2>7. CASE Tick \/ EnterChannel \/ ReadPage
    BY <2>1, <2>7 DEF Tick, EnterChannel, ReadPage
  <2> QED  BY <1>1, <2>2, <2>3, <2>4, <2>5, <2>6, <2>7 DEF Next, ChatNext
<1> QED  BY <1>1, TypeCorrect, RetentionCorrect, PTL DEF Spec, NothingEarly
=============================================================================
