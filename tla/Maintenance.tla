---------------------------- MODULE Maintenance ----------------------------
(***************************************************************************)
(* The maintenance queue and its worker (src/jobs/queues.ts, workers.ts)   *)
(* with the deletion of old messages (cleanExpiredMessages of              *)
(* src/services/message.service.ts), beside the chat that goes on, and the *)
(* end of the process at any moment.  The queue is kept in Redis and       *)
(* outlives the process.  The other recurring job is one query: CleanUp of *)
(* AuthSessions.                                                           *)
(***************************************************************************)
EXTENDS RoomChat

CONSTANTS
  Plans,      \* the subscription plans
  planOf,     \* the plan of the owner of each room
  days,       \* chatRetentionDays of each plan, in ticks; 0 is unlimited
  Batch,      \* how many messages a query deletes at most
  Attempts    \* attempts of a job

ASSUME PlansAssumption == planOf \in [Rooms -> Plans] /\ days \in [Plans -> Nat]
ASSUME BatchAssumption == Batch \in Nat \ {0}
ASSUME AttemptsAssumption == Attempts \in Nat \ {0}
ASSUME NoPlanAssumption == None \notin Plans

VARIABLES
  queue,    \* the jobs that wait for the worker
  job,      \* the jobs the worker is at: one at most
  pass,     \* where cleanExpiredMessages is: todo, plan, cutoff
  cleaned   \* history: the latest cutoff with which each plan has been done

jobVars == <<queue, job, pass, cleaned>>
vars == <<chatVars, jobVars>>

-----------------------------------------------------------------------------
(* State *)

\* A cleanup-expired-messages job: how often it has failed and has been stalled.
Job == [tries : Nat, stalls : 0..1]
New == [tries |-> 0, stalls |-> 0]

\* Without a plan the plans have not been read, or there is no such job.
Pass == [todo : SUBSET Plans, plan : Plans \cup {None}, cutoff : Int]
NoPass == [todo |-> {}, plan |-> None, cutoff |-> 0]

Init ==
  /\ ChatInit
  /\ queue = <<>>
  /\ job = {}
  /\ pass = NoPass
  /\ cleaned = [p \in Plans |-> 0]

-----------------------------------------------------------------------------
(* The queue *)

\* The next occurrence of the job is due.  There is one at a time: the one after it
\* is made when it starts.
Schedule ==
  /\ \A k \in 1..Len(queue) : queue[k] # New
  /\ queue' = Append(queue, New)
  /\ UNCHANGED <<chatVars, job, pass, cleaned>>

StartJob ==
  /\ job = {} /\ queue # <<>>
  /\ job' = {Head(queue)}
  /\ queue' = Tail(queue)
  /\ UNCHANGED <<chatVars, pass, cleaned>>

\* A job waits again; its backoff decides for how long, hence before which others.
Wait(j) ==
  \E k \in 0..Len(queue) :
    queue' = SubSeq(queue, 1, k) \o <<j>> \o SubSeq(queue, k + 1, Len(queue))

-----------------------------------------------------------------------------
(* cleanExpiredMessages *)

\* Mutant: what the first plan allows is applied to all.
NextPlan_OneCutoff(S) ==
  IF S = {} THEN job' = {} /\ pass' = NoPass
  ELSE \E p \in S :
    /\ pass' = [todo |-> S \ {p}, plan |-> p,
                cutoff |-> IF pass.plan = None THEN now - days[p] ELSE pass.cutoff]
    /\ UNCHANGED job

\* The head of the loop over the plans, whose order is open.
NextPlan(S) ==
  IF S = {} THEN job' = {} /\ pass' = NoPass
  ELSE \E p \in S :
    /\ pass' = [todo |-> S \ {p}, plan |-> p, cutoff |-> now - days[p]]
    /\ UNCHANGED job

\* Mutant: one plan is read.
FindPlans_First ==
  /\ job # {} /\ pass = NoPass
  /\ NextPlan({CHOOSE p \in Plans : days[p] > 0})
  /\ UNCHANGED <<chatVars, queue, cleaned>>

FindPlans ==
  /\ job # {} /\ pass = NoPass
  /\ NextPlan({p \in Plans : days[p] > 0})
  /\ UNCHANGED <<chatVars, queue, cleaned>>

\* The messages in the rooms of the owners with plan p.
Old(p, cutoff) == {i \in Ids : Exists(i) /\ planOf[row[i].room] = p /\ row[i].at < cutoff}

\* Mutant: one batch for each plan.
DeleteBatch_Once ==
  /\ pass.plan # None
  /\ \E P \in SUBSET Old(pass.plan, pass.cutoff) :
       /\ P = Old(pass.plan, pass.cutoff) \/ Cardinality(P) = Batch
       /\ Cardinality(P) <= Batch
       /\ row' = [i \in Ids |-> IF i \in P THEN Deleted ELSE row[i]]
       /\ cleaned' = [cleaned EXCEPT ![pass.plan] = IF pass.cutoff > @ THEN pass.cutoff ELSE @]
       /\ NextPlan(pass.todo)
  /\ UNCHANGED <<now, limits, sent, member, task, reader, seen, late, mishaps, queue>>

\* One query; a full batch is followed by another for the same plan.
DeleteBatch ==
  /\ pass.plan # None
  /\ \E P \in SUBSET Old(pass.plan, pass.cutoff) :
       /\ P = Old(pass.plan, pass.cutoff) \/ Cardinality(P) = Batch
       /\ Cardinality(P) <= Batch
       /\ row' = [i \in Ids |-> IF i \in P THEN Deleted ELSE row[i]]
       /\ \/ Cardinality(P) = Batch /\ UNCHANGED <<job, pass, cleaned>>
          \/ /\ Cardinality(P) # Batch
             /\ cleaned' = [cleaned EXCEPT ![pass.plan] = IF pass.cutoff > @ THEN pass.cutoff ELSE @]
             /\ NextPlan(pass.todo)
  /\ UNCHANGED <<now, limits, sent, member, task, reader, seen, late, mishaps, queue>>

\* Mutant: the job goes on where it was.
JobFails_KeepsPass ==
  /\ "dbError" \in Events
  /\ mishaps < MaxMishaps
  /\ \E j \in job : IF j.tries + 1 < Attempts THEN Wait([j EXCEPT !.tries = @ + 1])
                    ELSE UNCHANGED queue
  /\ job' = {}
  /\ mishaps' = mishaps + 1
  /\ UNCHANGED <<now, limits, sent, member, row, task, reader, seen, late, pass, cleaned>>

\* A query throws: the job is tried again, from its beginning, or given up.
JobFails ==
  /\ "dbError" \in Events
  /\ mishaps < MaxMishaps
  /\ \E j \in job : IF j.tries + 1 < Attempts THEN Wait([j EXCEPT !.tries = @ + 1])
                    ELSE UNCHANGED queue
  /\ job' = {}
  /\ pass' = NoPass
  /\ mishaps' = mishaps + 1
  /\ UNCHANGED <<now, limits, sent, member, row, task, reader, seen, late, cleaned>>

\* The process ends, by a crash or by a signal (the handlers of server.ts wait for
\* the worker, that of prisma.ts does not), and is started again.  A job it was at
\* is found stalled: once it is queued again, the second time it is given up.
Restart ==
  /\ "restart" \in Events
  /\ mishaps < MaxMishaps
  /\ ForgetChat
  /\ IF \E j \in job : j.stalls = 0
     THEN \E j \in job : queue' = <<[j EXCEPT !.stalls = 1]>> \o queue
     ELSE UNCHANGED queue
  /\ job' = {}
  /\ pass' = NoPass
  /\ mishaps' = mishaps + 1
  /\ UNCHANGED cleaned

-----------------------------------------------------------------------------
Next ==
  \/ ChatNext /\ UNCHANGED jobVars
  \/ Schedule
  \/ StartJob
  \/ FindPlans
  \/ DeleteBatch
  \/ JobFails
  \/ Restart

Spec == Init /\ [][Next]_vars

\* The scheduler of the queue brings each job back, an idle worker takes the first
\* that waits, and a query of a job comes to an end.
JobStep == StartJob \/ FindPlans \/ DeleteBatch
FairSpec ==
  /\ Spec
  /\ WF_vars(Schedule)
  /\ WF_vars(JobStep)

-----------------------------------------------------------------------------
(* What holds *)

\* Every variable has its type, and a pass is that of a running job.
TypeOK ==
  /\ ChatTypeOK
  /\ queue \in Seq(Job)
  /\ \A j, k \in job : j = k
  /\ job \subseteq Job
  /\ pass \in Pass
  /\ pass # NoPass => job # {} /\ pass.plan # None
  /\ cleaned \in [Plans -> Nat]

\* When cleanExpiredMessages has done with a plan, no message is left that was older
\* than the plan allows when it turned to the plan (message.service.ts:96): not
\* beyond a full batch, nor when messages are sent meanwhile, nor after a pass that
\* broke off and was tried again.
PassesComplete == \A i \in Ids : Exists(i) => row[i].at >= cleaned[planOf[row[i].room]]

\* No message is deleted sooner than the plan of the owner of its room says, and
\* none where the plan has no limit (message.service.ts:73, 80).
NothingEarly ==
  [][\A i \in Ids : Exists(i) /\ row'[i] = Deleted =>
       /\ days[planOf[row[i].room]] > 0
       /\ row[i].at < now - days[planOf[row[i].room]]]_vars

\* A message older than its plan allows is deleted some time, whatever fails a
\* bounded number of times: a job that is given up is made up for by the next
\* occurrence (queues.ts:26).
Expired(i) == /\ Exists(i)
              /\ days[planOf[row[i].room]] > 0
              /\ row[i].at < now - days[planOf[row[i].room]]
RetentionKept == \A i \in Ids : Expired(i) ~> ~Exists(i)
=============================================================================
