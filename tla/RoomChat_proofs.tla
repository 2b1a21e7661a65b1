--------------------------- MODULE RoomChat_proofs ---------------------------
(* Proofs about RoomChat, for any number of users, rooms, messages and      *)
(* activations, any limit and any length of a page.                         *)
EXTENDS RoomChat, FiniteSetTheorems, TLAPS

-----------------------------------------------------------------------------
(* Types *)

LEMMA TypesInit == ChatInit => ChatTypeOK
<1> SUFFICES ASSUME ChatInit PROVE ChatTypeOK
  OBVIOUS
<1> USE DEF ChatInit
<1>1. row \in [Ids -> Row \cup {None}]
  BY OldRowsAssumption
<1>2. \A i \in Ids : Exists(i) => row[i].at <= now
  BY OldAssumption DEF Exists
<1>3. task \in [Handlers -> Task] /\ \A h \in Handlers : TaskOK(task[h])
  BY DEF Idle, Task, TaskOK
<1>4. reader \in Reader /\ reader.phase # "reading"
  BY DEF Away, Reader
<1>5. sent \in [Users -> Seq(Entry)]
  OBVIOUS
<1> QED  BY <1>1, <1>2, <1>3, <1>4, <1>5 DEF ChatTypeOK

\* What a message leaves in the map of the limiter, and the end of its entry.
LEMMA CountedType ==
  ASSUME ChatTypeOK, NEW u \in Users
  PROVE  Counted(u) \in [count : Nat, resetAt : Nat]
<1>1. CASE Opens(u)
  BY <1>1, LimitAssumption DEF Counted, ChatTypeOK
<1>2. CASE ~Opens(u)
  <2>1. limits[u] \in [count : Nat, resetAt : Nat]
    BY <1>2 DEF Opens, ChatTypeOK
  <2> QED  BY <1>2, <2>1 DEF Counted
<1> QED  BY <1>1, <1>2

LEMMA TypesChat ==
  ASSUME ChatTypeOK, NEW h \in Handlers, NEW u \in Users, NEW r \in Rooms, Chat(h, u, r)
  PROVE  ChatTypeOK'
<1> USE DEF ChatTypeOK, Chat
<1> DEFINE t == [pc |-> "member", user |-> u, room |-> r, id |-> None]
           e == [at |-> now, start |-> Counted(u).resetAt - Window, n |-> Counted(u).count]
<1>1. Counted(u) \in [count : Nat, resetAt : Nat]
  BY CountedType
<1>2. limits' \in [Users -> [count : Nat, resetAt : Nat] \cup {None}]
  BY <1>1
<1>3. e \in Entry
  BY <1>1, LimitAssumption DEF Entry
<1>4. sent' \in [Users -> Seq(Entry)]
  <2>1. sent' = [sent EXCEPT ![u] = Append(@, e)]
    OBVIOUS
  <2>2. Append(sent[u], e) \in Seq(Entry)
    BY <1>3
  <2> QED  BY <2>1, <2>2
<1>5. t \in Task /\ TaskOK(t)
  BY UserRoomAssumption DEF Task, TaskOK, Idle
<1>6. task' \in [Handlers -> Task] /\ \A g \in Handlers : TaskOK(task'[g])
  BY <1>5
<1>7. \A g \in Handlers : TaskOK(task[g])'
  BY <1>6 DEF TaskOK
<1> QED  BY <1>2, <1>4, <1>6, <1>7 DEF Exists

\* One activation goes on or ends, and no row is touched.
LEMMA TypesTask ==
  ASSUME ChatTypeOK, NEW h \in Handlers, NEW t \in Task, TaskOK(t),
         task' = [task EXCEPT ![h] = t], row' = row
  PROVE  (task \in [Handlers -> Task] /\ \A g \in Handlers : TaskOK(task[g]))'
BY DEF ChatTypeOK, TaskOK

LEMMA IdleType == Idle \in Task /\ TaskOK(Idle)
BY DEF Idle, Task, TaskOK

LEMMA TypesCheckMembership ==
  ASSUME ChatTypeOK, NEW h \in Handlers, CheckMembership(h)
  PROVE  ChatTypeOK'
<1> USE DEF CheckMembership
<1> DEFINE t == IF <<task[h].user, task[h].room>> \in member
                THEN [task[h] EXCEPT !.pc = "insert"] ELSE Idle
<1>1. t \in Task /\ TaskOK(t)
  BY IdleType DEF ChatTypeOK, Task, TaskOK
<1>2. (task \in [Handlers -> Task] /\ \A g \in Handlers : TaskOK(task[g]))'
  <2>1. task' = [task EXCEPT ![h] = t]
    OBVIOUS
  <2> QED  BY ONLY <1>1, <2>1, TypesTask, ChatTypeOK, h \in Handlers, row' = row, CheckMembership(h)
<1> QED  BY <1>2 DEF ChatTypeOK, Exists

LEMMA TypesInsert ==
  ASSUME ChatTypeOK, NEW h \in Handlers, NEW i \in Ids, InsertMessage(h, i)
  PROVE  ChatTypeOK'
<1> USE DEF InsertMessage
<1> DEFINE new == [room |-> task[h].room, user |-> task[h].user, at |-> now]
           m == <<task[h].user, task[h].room>>
<1>1. task[h] \in Task /\ task[h].user \in Users /\ task[h].room \in Rooms
  BY DEF ChatTypeOK, TaskOK, Task
<1>2. new \in Row
  BY <1>1 DEF ChatTypeOK, Row
<1>3. new # None /\ new # Deleted
  BY <1>2, NoneAssumption
<1>4. row' \in [Ids -> Row \cup {None, Deleted}] /\ row'[i] = new
  BY <1>2 DEF ChatTypeOK
<1>5. \A j \in Ids : Exists(j)' => row'[j].at <= now'
  BY <1>4 DEF Exists, ChatTypeOK
<1>6. late' \in [Users \X Rooms -> Nat]
  <2>1. m \in Users \X Rooms
    BY <1>1
  <2> QED  BY <2>1 DEF ChatTypeOK
<1>7. task' \in [Handlers -> Task]
  BY <1>1 DEF ChatTypeOK, Task
<1>8. ASSUME NEW g \in Handlers  PROVE TaskOK(task[g])'
  <2>1. CASE g = h
    BY <1>1, <1>3, <1>4, <2>1, UserRoomAssumption, NoneAssumption DEF ChatTypeOK, TaskOK, Task
  <2>2. CASE g # h
    <3>1. task'[g] = task[g] /\ TaskOK(task[g]) /\ task[g] \in Task
      BY <2>2 DEF ChatTypeOK
    <3>2. \A j \in Ids : row[j] # None => row'[j] # None
      BY <1>3, <1>4 DEF ChatTypeOK
    <3> QED  BY <3>1, <3>2 DEF TaskOK, Task
  <2> QED  BY <2>1, <2>2
<1> QED  BY <1>4, <1>5, <1>6, <1>7, <1>8 DEF ChatTypeOK

LEMMA TypesEmit ==
  ASSUME ChatTypeOK, NEW h \in Handlers, EmitMessage(h)
  PROVE  ChatTypeOK'
<1> USE DEF EmitMessage
<1>1. (task \in [Handlers -> Task] /\ \A g \in Handlers : TaskOK(task[g]))'
  BY IdleType, TypesTask
<1>2. seen' \subseteq Ids
  BY DEF ChatTypeOK, TaskOK, Task
<1> QED  BY <1>1, <1>2 DEF ChatTypeOK, Exists

LEMMA TypesChatFails ==
  ASSUME ChatTypeOK, NEW h \in Handlers, ChatFails(h)
  PROVE  ChatTypeOK'
<1> USE DEF ChatFails
<1>1. (task \in [Handlers -> Task] /\ \A g \in Handlers : TaskOK(task[g]))'
  BY IdleType, TypesTask
<1> QED  BY <1>1 DEF ChatTypeOK, Exists

LEMMA TypesReadPage ==
  ASSUME ChatTypeOK, ReadPage
  PROVE  ChatTypeOK'
<1> USE DEF ReadPage
<1>1. PICK P \in SUBSET Older(reader.cursor) :
       /\ IsPage(P, Older(reader.cursor))
       /\ seen' = seen \cup P
       /\ \/ /\ Cardinality(P) = PageSize
             /\ \E i \in P : /\ \A j \in P : row[j].at >= row[i].at
                             /\ reader' = [phase |-> "reading", cursor |-> row[i].at,
                                           edges |-> reader.edges \cup {row[i].at}]
          \/ /\ Cardinality(P) # PageSize
             /\ reader' = [reader EXCEPT !.phase = "done"]
  OBVIOUS
<1>2. \A i \in P : i \in Ids /\ row[i] \in Row
  BY DEF Older, Messages, Exists, ChatTypeOK
<1>3. reader' \in Reader /\ (reader'.phase = "reading" => reader'.cursor # None)
  <2>1. ASSUME NEW i \in P,
               reader' = [phase |-> "reading", cursor |-> row[i].at,
                          edges |-> reader.edges \cup {row[i].at}]
        PROVE  reader' \in Reader /\ reader'.cursor # None
    <3>1. row[i].at \in Nat
      BY <1>2 DEF Row
    <3> QED  BY <2>1, <3>1, NoneAssumption DEF ChatTypeOK, Reader
  <2>2. CASE reader' = [reader EXCEPT !.phase = "done"]
    BY <2>2 DEF ChatTypeOK, Reader
  <2> QED  BY <1>1, <2>1, <2>2
<1>4. seen' \subseteq Ids
  BY <1>1, <1>2 DEF ChatTypeOK
<1>5. \A h \in Handlers : TaskOK(task[h])'
  BY DEF TaskOK, ChatTypeOK
<1> QED  BY <1>3, <1>4, <1>5 DEF ChatTypeOK, Exists

\* The steps of no activation and no client.
LEMMA TypesRest ==
  ASSUME ChatTypeOK,
         \/ Tick
         \/ \E u \in Users, r \in Rooms : RemoveMember(u, r) \/ AddMember(u, r)
         \/ EnterChannel
         \/ UNCHANGED chatVars
  PROVE  ChatTypeOK'
<1> USE DEF ChatTypeOK
<1>1. CASE Tick
  BY <1>1 DEF Tick, TaskOK, Exists, Row
<1>2. ASSUME NEW u \in Users, NEW r \in Rooms, RemoveMember(u, r) \/ AddMember(u, r)
      PROVE  ChatTypeOK'
  <2>1. member' \subseteq Users \X Rooms /\ late' \in [Users \X Rooms -> Nat]
    <3>1. CASE RemoveMember(u, r)
      <4>1. late' = [late EXCEPT ![<<u, r>>] = 0] /\ member' \subseteq member
        BY <3>1 DEF RemoveMember
      <4> QED  BY <4>1
    <3>2. CASE AddMember(u, r)
      <4>1. member' = member \cup {<<u, r>>} /\ late' = late
        BY <3>2 DEF AddMember
      <4> QED  BY <4>1
    <3> QED  BY <1>2, <3>1, <3>2
  <2> QED  BY <1>2, <2>1 DEF RemoveMember, AddMember, TaskOK, Exists
<1>3. CASE EnterChannel
  BY <1>3 DEF EnterChannel, TaskOK, Exists, Reader
<1>4. CASE UNCHANGED chatVars
  BY <1>4 DEF chatVars, TaskOK, Exists
<1> QED  BY <1>1, <1>2, <1>3, <1>4

LEMMA TypesForget ==
  ASSUME ChatTypeOK, ForgetChat, mishaps' \in Nat
  PROVE  ChatTypeOK'
<1>1. task' \in [Handlers -> Task] /\ \A h \in Handlers : TaskOK(task[h])'
  BY IdleType DEF ForgetChat, Idle, TaskOK
<1>2. sent' \in [Users -> Seq(Entry)]
  BY DEF ForgetChat
<1>3. reader' \in Reader /\ reader'.phase # "reading"
  BY DEF ForgetChat, Away, Reader
<1> QED  BY <1>1, <1>2, <1>3 DEF ForgetChat, ChatTypeOK, Exists

\* A step of the chat keeps the types.
LEMMA TypesNext ==
  ASSUME ChatTypeOK, ChatNext \/ UNCHANGED chatVars
  PROVE  ChatTypeOK'
<1>1. ASSUME NEW h \in Handlers, \E u \in Users, r \in Rooms : Chat(h, u, r)
      PROVE  ChatTypeOK'
  BY <1>1, TypesChat
<1>2. ASSUME NEW h \in Handlers, \E i \in Ids : InsertMessage(h, i)
      PROVE  ChatTypeOK'
  BY <1>2, TypesInsert
<1> QED  BY <1>1, <1>2, TypesCheckMembership, TypesEmit, TypesChatFails, TypesReadPage,
            TypesRest DEF ChatNext

\* Every variable of the chat has its type (ChatTypeOK).
THEOREM ChatTypeCorrect == ChatSpec => []ChatTypeOK
<1>1. ASSUME ChatTypeOK, [ChatNext \/ RestartChat]_chatVars
      PROVE  ChatTypeOK'
  <2>1. CASE RestartChat
    <3>1. mishaps' \in Nat
      BY <1>1, <2>1 DEF RestartChat, ChatTypeOK
    <3> QED  BY <1>1, <2>1, <3>1, TypesForget DEF RestartChat
  <2> QED  BY <1>1, <2>1, TypesNext
<1> QED  BY <1>1, TypesInit, PTL DEF ChatSpec

-----------------------------------------------------------------------------
(* The rate of the messages *)

\* Of two messages of a user the later is of a later window, or of the same and
\* numbered accordingly.
Follows(d, e, k) ==
  \/ e.start >= d.start + Window
  \/ e.start = d.start /\ e.n = d.n + k

WindowOK(e) ==
  /\ e.start <= e.at /\ e.at < e.start + Window
  /\ 1 <= e.n /\ e.n <= Max
  /\ e.n = 1 => e.at = e.start

\* The inductive invariant for one user: s is what passed, l the entry in the map.
LogOK(s, l) ==
  /\ \A i \in 1..Len(s) : WindowOK(s[i])
  /\ \A i, j \in 1..Len(s) : i < j => Follows(s[i], s[j], j - i)
  /\ Len(s) = 0 => l = None
  /\ Len(s) > 0 => l = [count |-> s[Len(s)].n, resetAt |-> s[Len(s)].start + Window]

RateInv == \A u \in Users : /\ LogOK(sent[u], limits[u])
                              /\ \A i \in 1..Len(sent[u]) : sent[u][i].at <= now

\* One more message in the log.
LEMMA LogGrows ==
  ASSUME NEW s \in Seq(Entry), NEW e \in Entry, NEW l, LogOK(s, l),
         WindowOK(e),
         \A i \in 1..Len(s) : Follows(s[i], e, Len(s) + 1 - i)
  PROVE  LogOK(Append(s, e), [count |-> e.n, resetAt |-> e.start + Window])
<1> DEFINE a == Append(s, e)
<1>1. Len(s) \in Nat /\ Len(a) = Len(s) + 1 /\ a[Len(s) + 1] = e
  OBVIOUS
<1>2. \A i \in 1..Len(s) : a[i] = s[i]
  OBVIOUS
<1>3. \A i \in 1..Len(a) : WindowOK(a[i])
  BY <1>1, <1>2 DEF LogOK
<1>4. ASSUME NEW i \in 1..Len(a), NEW j \in 1..Len(a), i < j
      PROVE  Follows(a[i], a[j], j - i)
  <2>1. i \in 1..Len(s)
    BY <1>1, <1>4
  <2>2. CASE j = Len(s) + 1
    BY <1>1, <1>2, <2>1, <2>2
  <2>3. CASE j \in 1..Len(s)
    BY <1>2, <1>4, <2>1, <2>3 DEF LogOK
  <2> QED  BY <1>1, <2>2, <2>3
<1>5. Len(a) # 0 /\ a[Len(a)] = e
  BY <1>1
<1> QED  BY <1>3, <1>4, <1>5 DEF LogOK

LEMMA RateChat ==
  ASSUME ChatTypeOK, RateInv, NEW h \in Handlers, NEW u \in Users, NEW r \in Rooms, Chat(h, u, r)
  PROVE  RateInv'
<1> DEFINE s == sent[u]
           l == limits[u]
           c == Counted(u)
           e == [at |-> now, start |-> c.resetAt - Window, n |-> c.count]
           Fits == WindowOK(e) /\ \A i \in 1..Len(s) : Follows(s[i], e, Len(s) + 1 - i)
<1>1. s \in Seq(Entry) /\ Len(s) \in Nat /\ now \in Nat /\ LogOK(s, l)
  BY DEF ChatTypeOK, RateInv
<1>2. c \in [count : Nat, resetAt : Nat]
  BY CountedType
<1>3. e \in Entry /\ e.at = now /\ e.start = c.resetAt - Window /\ e.n = c.count
  BY <1>1, <1>2, LimitAssumption DEF Entry
<1>4. \A i \in 1..Len(s) : s[i] \in Entry /\ s[i].at \in Nat /\ s[i].start \in Int /\ s[i].n \in Nat
  <2>1. \A i \in 1..Len(s) : s[i] \in Entry
    BY <1>1
  <2> QED  BY <2>1 DEF Entry
<1>5. ASSUME Len(s) = 0  PROVE Fits
  <2>1. c = [count |-> 1, resetAt |-> now + Window]
    BY <1>1, <1>5 DEF LogOK, Counted, Opens
  <2>2. WindowOK(e)
    BY <1>1, <1>3, <2>1, LimitAssumption DEF WindowOK
  <2> QED  BY <1>1, <1>5, <2>2
<1>6. ASSUME Len(s) > 0  PROVE Fits
  <2> DEFINE d == s[Len(s)]
  <2>1. Len(s) \in 1..Len(s) /\ d \in Entry /\ WindowOK(d)
    BY <1>1, <1>4, <1>6 DEF LogOK
  <2>2. l = [count |-> d.n, resetAt |-> d.start + Window] /\ l # None
    <3>1. l = [count |-> d.n, resetAt |-> d.start + Window]
      BY <1>1, <1>6 DEF LogOK
    <3>2. d.start + Window \in Nat
      BY <2>1, LimitAssumption DEF Entry, WindowOK
    <3>3. l \in [count : Nat, resetAt : Nat]
      BY <2>1, <3>1, <3>2 DEF Entry
    <3> QED  BY <3>1, <3>3, NoneAssumption
  <2>3. \A i \in 1..Len(s) : i = Len(s) \/ Follows(s[i], d, Len(s) - i)
    BY <1>1, <2>1 DEF LogOK
  <2>4. CASE Opens(u)
    <3>1. c = [count |-> 1, resetAt |-> now + Window] /\ now >= d.start + Window
      BY <2>2, <2>4 DEF Counted, Opens
    <3>2. WindowOK(e)
      BY <1>1, <1>3, <3>1, LimitAssumption DEF WindowOK
    <3>3. \A i \in 1..Len(s) : s[i].start <= d.start
      BY <1>1, <1>4, <2>1, <2>3, LimitAssumption DEF Follows
    <3>4. e.start = now
      BY <1>1, <1>3, <3>1, LimitAssumption
    <3>5. \A i \in 1..Len(s) : Follows(s[i], e, Len(s) + 1 - i)
      <4>1. \A i \in 1..Len(s) : now >= s[i].start + Window
        BY <1>1, <1>4, <2>1, <3>1, <3>3, LimitAssumption
      <4> QED  BY <3>4, <4>1 DEF Follows
    <3> QED  BY <3>2, <3>5
  <2>5. CASE ~Opens(u)
    <3>1. c = [l EXCEPT !.count = @ + 1] /\ now < d.start + Window /\ d.n < Max
      BY <1>1, <2>1, <2>2, <2>5, LimitAssumption DEF Counted, Opens, Chat, Passes, Entry
    <3>2. e.start = d.start /\ e.n = d.n + 1
      BY <1>3, <2>1, <2>2, <3>1, LimitAssumption DEF Entry
    <3>3. d.start <= now
      <4>1. d.at <= now
        BY <2>1 DEF RateInv
      <4> QED  BY <1>1, <1>4, <2>1, <4>1 DEF WindowOK
    <3>4. WindowOK(e)
      BY <1>1, <1>3, <2>1, <3>1, <3>2, <3>3, LimitAssumption DEF WindowOK, Entry
    <3>5. ASSUME NEW i \in 1..Len(s)
          PROVE  Follows(s[i], e, Len(s) + 1 - i)
      <4>1. CASE i = Len(s)
        BY <1>1, <2>1, <3>2, <4>1 DEF Follows, Entry
      <4>2. CASE Follows(s[i], d, Len(s) - i)
        <5>1. Len(s) - i + 1 = Len(s) + 1 - i /\ Len(s) - i \in Int
          BY <1>1
        <5> QED  BY <1>4, <2>1, <3>2, <4>2, <5>1 DEF Follows
      <4> QED  BY <2>3, <4>1, <4>2
    <3> QED  BY <3>4, <3>5
  <2> QED  BY <2>4, <2>5
<1>7. Fits
  BY <1>1, <1>5, <1>6
<1>8. c = [count |-> e.n, resetAt |-> e.start + Window]
  BY <1>2, <1>3, LimitAssumption
<1>9. LogOK(Append(s, e), c)
  BY <1>1, <1>3, <1>7, <1>8, LogGrows
<1>10. sent' = [sent EXCEPT ![u] = Append(s, e)] /\ limits' = [limits EXCEPT ![u] = c] /\ now' = now
  BY DEF Chat
<1>11. \A i \in 1..Len(Append(s, e)) : Append(s, e)[i].at <= now
  BY <1>1, <1>3 DEF RateInv
<1> QED  BY <1>9, <1>10, <1>11 DEF RateInv, ChatTypeOK

\* Sums of windows: la and fa are moments, ls, ms, fs the starts of their windows
\* and of one between.
LEMMA LaterStart ==
  ASSUME NEW ls \in Int, NEW ms \in Int, NEW fs \in Int, NEW w \in Int,
         ls >= ms, ms >= fs + w
  PROVE  ls >= fs + w
OBVIOUS

LEMMA SameMoment ==
  ASSUME NEW la \in Int, NEW ls \in Int, NEW ms \in Int, NEW fs \in Int, NEW fa \in Int,
         NEW w \in Int, la >= ls, ls >= ms, ms >= fs + w, fa = fs
  PROVE  la >= fa + w
OBVIOUS

LEMMA LaterWindows ==
  ASSUME NEW la \in Int, NEW ls \in Int, NEW ms \in Int, NEW fs \in Int, NEW fa \in Int,
         NEW w \in Int, la >= ls, ls >= ms + w, ms >= fs + w, fa < fs + w
  PROVE  la >= fa + w
OBVIOUS

\* What the invariant says of a log: 2 Max - 1 messages later a window has passed.
LEMMA LogSpreads ==
  ASSUME NEW s \in Seq(Entry), NEW l, LogOK(s, l),
         NEW i \in 1..Len(s), i + 2 * Max - 1 <= Len(s)
  PROVE  s[i + 2 * Max - 1].at >= s[i].at + Window
<1> DEFINE k == i + Max
           j == i + 2 * Max - 1
           first == s[i]
           before == s[k - 1]
           middle == s[k]
           last == s[j]
<1>1. Max \in Nat /\ Max >= 1 /\ Window \in Nat /\ Window >= 1 /\ Len(s) \in Nat
  BY LimitAssumption
<1>2. k - 1 \in 1..Len(s) /\ k \in 1..Len(s) /\ j \in 1..Len(s) /\ i < k /\ k <= j
  BY <1>1
<1>3. \A x \in 1..Len(s) : /\ s[x].at \in Nat /\ s[x].start \in Int /\ s[x].n \in Nat
                           /\ WindowOK(s[x])
  <2>1. \A x \in 1..Len(s) : s[x] \in Entry
    OBVIOUS
  <2> QED  BY <2>1 DEF LogOK, Entry
<1>4. \A x, y \in 1..Len(s) : x < y => Follows(s[x], s[y], y - x)
  BY DEF LogOK
<1>5. Follows(first, middle, Max)
  <2>1. k - i = Max
    BY <1>1
  <2> QED  BY <1>2, <1>4, <2>1
<1>6. k < j => Follows(middle, last, Max - 1)
  <2>1. j - k = Max - 1
    BY <1>1
  <2> QED  BY <1>2, <1>4, <2>1
<1>7. Follows(before, middle, 1)
  <2>1. k - (k - 1) = 1 /\ k - 1 < k
    BY <1>1
  <2> QED  BY <1>2, <1>4, <2>1
<1>8. i < k - 1 => Follows(first, before, Max - 1)
  <2>1. (k - 1) - i = Max - 1
    BY <1>1
  <2> QED  BY <1>2, <1>4, <2>1
<1>9. /\ k = j => Max = 1 /\ middle = last
      /\ ~(i < k - 1) => Max = 1 /\ before = first
  <2>1. k = j => Max = 1
    BY <1>1
  <2>2. ~(i < k - 1) => Max = 1 /\ k - 1 = i
    BY <1>1
  <2> QED  BY <2>1, <2>2
<1>10. /\ first.at \in Nat /\ first.start \in Int /\ first.n \in Nat
       /\ before.at \in Nat /\ before.start \in Int /\ before.n \in Nat
       /\ middle.at \in Nat /\ middle.start \in Int /\ middle.n \in Nat
       /\ last.at \in Nat /\ last.start \in Int /\ last.n \in Nat
       /\ WindowOK(first) /\ WindowOK(before) /\ WindowOK(middle) /\ WindowOK(last)
  BY <1>2, <1>3
<1> SUFFICES last.at >= first.at + Window
  OBVIOUS
<1> HIDE DEF first, before, middle, last
<1>11. /\ first.at \in Int /\ first.start \in Int /\ before.start \in Int
       /\ middle.start \in Int /\ last.at \in Int /\ last.start \in Int /\ Window \in Int
  BY <1>1, <1>10
<1>12. middle.start >= first.start + Window
  BY <1>1, <1>5, <1>10 DEF Follows, WindowOK
\* Unless the middle one opens a window, the last is of a later one.
<1>13. CASE middle.n # 1
  <2>1. k < j
    BY <1>1, <1>2, <1>9, <1>10, <1>13 DEF WindowOK
  <2>2. last.start >= middle.start + Window
    BY <1>1, <1>6, <1>10, <1>13, <2>1 DEF Follows, WindowOK
  <2>3. last.at >= last.start /\ first.at < first.start + Window
    BY <1>10 DEF WindowOK
  <2> QED  BY <1>11, <1>12, <2>2, <2>3, LaterWindows
\* If it does, the one before it is of an earlier window.
<1>14. CASE middle.n = 1
  <2>1. last.start >= middle.start
    BY <1>1, <1>2, <1>6, <1>9, <1>10 DEF Follows
  <2>2. middle.start >= before.start + Window
    BY <1>1, <1>7, <1>10, <1>14 DEF Follows, WindowOK
  <2>3. before.start >= first.start + Window \/ first.n = 1
    <3>1. CASE i < k - 1
      BY <1>1, <1>8, <1>10, <3>1 DEF Follows, WindowOK
    <3>2. CASE ~(i < k - 1)
      BY <1>9, <1>10, <3>2 DEF WindowOK
    <3> QED  BY <3>1, <3>2
  <2>4. last.at >= last.start /\ (first.n = 1 => first.at = first.start) /\ first.at < first.start + Window
    BY <1>10 DEF WindowOK
  <2>5. CASE first.n = 1
    <3>1. first.at = first.start /\ last.at >= last.start
      BY <2>4, <2>5
    <3> QED  BY <1>11, <1>12, <2>1, <3>1, SameMoment
  <2>6. CASE before.start >= first.start + Window
    <3>1. last.start >= before.start + Window
      BY <1>11, <2>1, <2>2, LaterStart
    <3> QED  BY <1>11, <2>4, <2>6, <3>1, LaterWindows
  <2> QED  BY <2>3, <2>5, <2>6
<1> QED  BY <1>13, <1>14

\* However the messages are spread over time, no more than 2 Max - 1 of a user pass
\* the limit within a window (RateHolds).
THEOREM RateIsLimited == ChatSpec => []RateHolds
<1>1. ChatInit => RateInv
  BY DEF ChatInit, RateInv, LogOK
<1>2. ASSUME ChatTypeOK, RateInv, [ChatNext \/ RestartChat]_chatVars
      PROVE  RateInv'
  <2>1. CASE now' = now /\ UNCHANGED <<limits, sent>>
    BY <1>2, <2>1 DEF RateInv
  <2>2. CASE Tick
    <3>1. \A u \in Users : \A i \in 1..Len(sent[u]) : sent[u][i].at \in Nat
      <4>1. \A u \in Users : \A i \in 1..Len(sent[u]) : sent[u][i] \in Entry
        BY <1>2 DEF ChatTypeOK
      <4> QED  BY <4>1 DEF Entry
    <3> QED  BY <1>2, <2>2, <3>1 DEF RateInv, Tick, ChatTypeOK
  <2>3. ASSUME NEW h \in Handlers, NEW u \in Users, NEW r \in Rooms, Chat(h, u, r)
        PROVE  RateInv'
    BY <1>2, <2>3, RateChat
  <2>4. CASE RestartChat
    BY <2>4 DEF RestartChat, ForgetChat, RateInv, LogOK
  <2>5. CASE UNCHANGED chatVars
    BY <2>1, <2>5 DEF chatVars
  <2>6. ASSUME NEW h \in Handlers, \/ CheckMembership(h) \/ EmitMessage(h) \/ ChatFails(h)
                                   \/ \E i \in Ids : InsertMessage(h, i)
        PROVE  RateInv'
    BY <2>1, <2>6 DEF CheckMembership, EmitMessage, ChatFails, InsertMessage
  <2>7. ASSUME NEW u \in Users, NEW r \in Rooms, RemoveMember(u, r) \/ AddMember(u, r)
        PROVE  RateInv'
    BY <2>1, <2>7 DEF RemoveMember, AddMember
  <2>8. CASE EnterChannel \/ ReadPage
    BY <2>1, <2>8 DEF EnterChannel, ReadPage
  <2> QED  BY <1>2, <2>2, <2>3, <2>4, <2>5, <2>6, <2>7, <2>8 DEF ChatNext
<1>3. ChatTypeOK /\ RateInv => RateHolds
  BY LogSpreads DEF ChatTypeOK, RateInv, RateHolds
<1> QED  BY <1>1, <1>2, <1>3, ChatTypeCorrect, PTL DEF ChatSpec

-----------------------------------------------------------------------------
(* Messages of those who have left *)

\* Where no activation gets to the insert for a pair but a member's, and what is
\* stored comes from one that was there, the sum does not grow.
LEMMA StoringSteps ==
  ASSUME ChatTypeOK, NEW u \in Users, NEW r \in Rooms,
         <<u, r>> \notin member => late[<<u, r>>] + Cardinality(Storing(u, r)) <= Cardinality(Handlers),
         <<u, r>> \notin member',
         late' \in [Users \X Rooms -> Nat],
         \/ /\ <<u, r>> \notin member
            /\ late'[<<u, r>>] = late[<<u, r>>]
            /\ Storing(u, r)' \subseteq Storing(u, r)
         \/ /\ <<u, r>> \notin member
            /\ late'[<<u, r>>] = late[<<u, r>>] + 1
            /\ \E h \in Storing(u, r) : Storing(u, r)' \subseteq Storing(u, r) \ {h}
         \/ late'[<<u, r>>] = 0
  PROVE  late'[<<u, r>>] + Cardinality(Storing(u, r)') <= Cardinality(Handlers)
<1> DEFINE S == Storing(u, r)
<1>1. /\ S \subseteq Handlers /\ S' \subseteq Handlers
      /\ IsFiniteSet(S) /\ IsFiniteSet(S')
      /\ Cardinality(Handlers) \in Nat /\ Cardinality(S) \in Nat /\ Cardinality(S') \in Nat
  BY HandlersAssumption, FS_Subset, FS_CardinalityType DEF Storing
<1>2. late[<<u, r>>] \in Nat /\ late'[<<u, r>>] \in Nat
  BY DEF ChatTypeOK
<1>3. CASE S' \subseteq S /\ <<u, r>> \notin member /\ late'[<<u, r>>] = late[<<u, r>>]
  <2>1. Cardinality(S') <= Cardinality(S)
    BY <1>1, <1>3, FS_Subset
  <2> QED  BY <1>1, <1>2, <1>3, <2>1
<1>4. ASSUME NEW h \in S, S' \subseteq S \ {h}, <<u, r>> \notin member,
             late'[<<u, r>>] = late[<<u, r>>] + 1
      PROVE  late'[<<u, r>>] + Cardinality(S') <= Cardinality(Handlers)
  <2>1. IsFiniteSet(S \ {h}) /\ Cardinality(S \ {h}) = Cardinality(S) - 1
    BY <1>1, FS_RemoveElement
  <2>2. Cardinality(S') <= Cardinality(S \ {h})
    BY <1>4, <2>1, FS_Subset
  <2> QED  BY <1>1, <1>2, <1>4, <2>1, <2>2
<1>5. CASE late'[<<u, r>>] = 0
  <2>1. Cardinality(S') <= Cardinality(Handlers)
    BY <1>1, HandlersAssumption, FS_Subset
  <2> QED  BY <1>1, <1>5, <2>1
<1> QED  BY <1>3, <1>4, <1>5

\* After a removal a user stores no more messages in the room than there were
\* activations past the check (FewLateMessages).
THEOREM LateMessagesAreFew == ChatSpec => []FewLateMessages
<1>1. ChatInit => FewLateMessages
  BY DEF ChatInit, FewLateMessages
<1>2. ASSUME ChatTypeOK, ChatTypeOK', FewLateMessages, [ChatNext \/ RestartChat]_chatVars
      PROVE  FewLateMessages'
  <2> SUFFICES ASSUME NEW u \in Users, NEW r \in Rooms, <<u, r>> \notin member'
               PROVE  late'[<<u, r>>] + Cardinality(Storing(u, r)') <= Cardinality(Handlers)
    BY DEF FewLateMessages
  <2>1. late' \in [Users \X Rooms -> Nat] /\ late \in [Users \X Rooms -> Nat]
    BY <1>2 DEF ChatTypeOK
  <2>2. <<u, r>> \notin member => late[<<u, r>>] + Cardinality(Storing(u, r)) <= Cardinality(Handlers)
    BY <1>2 DEF FewLateMessages
  <2>3. CASE member' = member /\ late' = late /\ Storing(u, r)' \subseteq Storing(u, r)
    BY <1>2, <2>1, <2>2, <2>3, StoringSteps
  <2>4. CASE late'[<<u, r>>] = 0
    BY <1>2, <2>1, <2>2, <2>4, StoringSteps
  <2>5. CASE UNCHANGED <<member, late, task>>
    BY <2>3, <2>5 DEF Storing
  <2>6. ASSUME NEW h \in Handlers, \E v \in Users, s \in Rooms : Chat(h, v, s)
        PROVE  Storing(u, r)' \subseteq Storing(u, r) /\ member' = member /\ late' = late
    BY <1>2, <2>6 DEF Chat, Storing, ChatTypeOK
  <2>7. ASSUME NEW h \in Handlers, CheckMembership(h)
        PROVE  Storing(u, r)' \subseteq Storing(u, r) /\ member' = member /\ late' = late
    <3>1. member' = member /\ late' = late
      BY <2>7 DEF CheckMembership
    <3>2. \A g \in Handlers : g # h => task'[g] = task[g]
      BY <1>2, <2>7 DEF CheckMembership, ChatTypeOK
    <3>3. h \notin Storing(u, r)'
      <4>1. CASE <<task[h].user, task[h].room>> \in member
        <5>1. task'[h].user = task[h].user /\ task'[h].room = task[h].room
          BY <1>2, <2>7, <4>1 DEF CheckMembership, ChatTypeOK, Task
        <5> QED  BY <3>1, <4>1, <5>1 DEF Storing
      <4>2. CASE <<task[h].user, task[h].room>> \notin member
        BY <1>2, <2>7, <4>2 DEF CheckMembership, ChatTypeOK, Storing, Idle
      <4> QED  BY <4>1, <4>2
    <3> QED  BY <3>1, <3>2, <3>3 DEF Storing
  <2>8. ASSUME NEW h \in Handlers, EmitMessage(h) \/ ChatFails(h)
        PROVE  Storing(u, r)' \subseteq Storing(u, r) /\ member' = member /\ late' = late
    <3>1. member' = member /\ late' = late /\ task' = [task EXCEPT ![h] = Idle]
      BY <2>8 DEF EmitMessage, ChatFails
    <3>2. task'[h].pc = "idle" /\ \A g \in Handlers : g # h => task'[g] = task[g]
      BY <1>2, <3>1 DEF ChatTypeOK, Idle
    <3> QED  BY <3>1, <3>2 DEF Storing
  <2>9. ASSUME NEW h \in Handlers, NEW i \in Ids, InsertMessage(h, i)
        PROVE  late'[<<u, r>>] + Cardinality(Storing(u, r)') <= Cardinality(Handlers)
    <3>1. Storing(u, r)' \subseteq Storing(u, r) \ {h} /\ member' = member
      BY <1>2, <2>9 DEF InsertMessage, Storing, ChatTypeOK, Task
    <3>2. CASE task[h].user = u /\ task[h].room = r
      <4>1. h \in Storing(u, r)
        BY <2>9, <3>2 DEF InsertMessage, Storing
      <4>2. late'[<<u, r>>] = late[<<u, r>>] + 1
        BY <2>1, <2>9, <3>1, <3>2 DEF InsertMessage
      <4> QED  BY <1>2, <2>1, <2>2, <3>1, <4>1, <4>2, StoringSteps
    <3>3. CASE ~(task[h].user = u /\ task[h].room = r)
      <4>1. <<task[h].user, task[h].room>> # <<u, r>>
        BY <3>3
      <4>2. late'[<<u, r>>] = late[<<u, r>>]
        BY <2>1, <2>9, <4>1 DEF InsertMessage
      <4>3. <<u, r>> \notin member /\ Storing(u, r)' \subseteq Storing(u, r)
        BY <3>1
      <4> QED  BY <1>2, <2>1, <2>2, <4>2, <4>3, StoringSteps
    <3> QED  BY <3>2, <3>3
  <2>10. ASSUME NEW v \in Users, NEW s \in Rooms, RemoveMember(v, s)
         PROVE  late'[<<u, r>>] + Cardinality(Storing(u, r)') <= Cardinality(Handlers)
    <3>1. CASE <<v, s>> = <<u, r>>
      BY <2>1, <2>4, <2>10, <3>1 DEF RemoveMember
    <3>2. CASE <<v, s>> # <<u, r>>
      <4>1. late'[<<u, r>>] = late[<<u, r>>] /\ <<u, r>> \notin member /\ Storing(u, r)' = Storing(u, r)
        BY <2>1, <2>10, <3>2 DEF RemoveMember, Storing
      <4> QED  BY <1>2, <2>1, <2>2, <4>1, StoringSteps
    <3> QED  BY <3>1, <3>2
  <2>11. ASSUME NEW v \in Users, NEW s \in Rooms, AddMember(v, s)
         PROVE  late'[<<u, r>>] + Cardinality(Storing(u, r)') <= Cardinality(Handlers)
    <3>1. late' = late /\ <<u, r>> \notin member /\ Storing(u, r)' = Storing(u, r)
      BY <2>11 DEF AddMember, Storing
    <3> QED  BY <1>2, <2>1, <2>2, <3>1, StoringSteps
  <2>12. CASE RestartChat
    BY <2>3, <2>12 DEF RestartChat, ForgetChat, Storing, Idle
  <2>13. CASE Tick \/ EnterChannel \/ ReadPage \/ UNCHANGED chatVars
    BY <2>5, <2>13 DEF Tick, EnterChannel, ReadPage, chatVars
  <2> QED  BY <1>2, <2>3, <2>6, <2>7, <2>8, <2>9, <2>10, <2>11, <2>12, <2>13 DEF ChatNext
<1> QED  BY <1>1, <1>2, ChatTypeCorrect, PTL DEF ChatSpec

-----------------------------------------------------------------------------
(* The client and the history *)

\* An activation that is to emit has the room of its message, and a client that has
\* not read has no cursor.
EmitsOwnRoom == \A h \in Handlers :
  task[h].pc = "emit" /\ Exists(task[h].id) => row[task[h].id].room = task[h].room
ReaderInv == EmitsOwnRoom /\ (reader.phase \in {"away", "joined"} => reader.cursor = None)
             /\ ReaderMissesOnlyTies

\* Where the rows, the client and the activations that are to emit stay.
LEMMA ReaderStays ==
  ASSUME ChatTypeOK, ReaderInv, UNCHANGED <<row, reader, seen>>,
         \A h \in Handlers : \/ task'[h] = task[h]
                             \/ task[h].pc # "emit" /\ task'[h].pc # "emit"
  PROVE  ReaderInv'
<1>1. EmitsOwnRoom'
  BY DEF ReaderInv, EmitsOwnRoom, Exists
<1>2. \A i \in Ids : (\E h \in Handlers : task[h].pc = "emit" /\ task[h].id = i)
                       => \E h \in Handlers : task'[h].pc = "emit" /\ task'[h].id = i
  OBVIOUS
<1>3. ReaderMissesOnlyTies'
  BY <1>2 DEF ReaderInv, ReaderMissesOnlyTies, Messages, Exists, Ahead
<1> QED  BY <1>1, <1>3 DEF ReaderInv

LEMMA ReaderInsert ==
  ASSUME ChatTypeOK, ReaderInv, NEW h \in Handlers, NEW i \in Ids, InsertMessage(h, i)
  PROVE  ReaderInv'
<1> USE DEF InsertMessage
<1>1. /\ task'[h].pc = "emit" /\ task'[h].id = i
      /\ row'[i].room = task'[h].room
      /\ \A g \in Handlers : g # h => task'[g] = task[g]
      /\ \A j \in Ids : j # i => row'[j] = row[j]
  BY DEF ChatTypeOK, Task
<1>2. EmitsOwnRoom'
  <2> SUFFICES ASSUME NEW g \in Handlers, (task[g].pc = "emit" /\ Exists(task[g].id))'
               PROVE  (row[task[g].id].room = task[g].room)'
    BY DEF EmitsOwnRoom
  <2>1. CASE g = h
    BY <1>1, <2>1
  <2>2. CASE g # h
    <3>1. task'[g] = task[g] /\ task[g].pc = "emit" /\ task[g].id \in Ids /\ row[task[g].id] # None
      BY <1>1, <2>2 DEF ChatTypeOK, TaskOK, Task
    <3>2. row'[task[g].id] = row[task[g].id]
      BY <1>1, <3>1
    <3> QED  BY <3>1, <3>2 DEF ReaderInv, EmitsOwnRoom, Exists
  <2> QED  BY <2>1, <2>2
<1>3. ReaderMissesOnlyTies'
  <2> SUFFICES ASSUME reader.phase # "away", NEW j \in Messages(Watched)'
               PROVE  \/ j \in seen
                      \/ Ahead(j)'
                      \/ \E g \in Handlers : task'[g].pc = "emit" /\ task'[g].id = j
                      \/ row'[j].at \in reader.edges
    BY DEF ReaderMissesOnlyTies
  <2>1. CASE j = i
    BY <1>1, <2>1
  <2>2. CASE j # i
    <3>1. j \in Messages(Watched) /\ row'[j] = row[j]
      BY <1>1, <2>2 DEF Messages, Exists
    <3>2. \A g \in Handlers : task[g].pc = "emit" => task'[g] = task[g]
      BY <1>1
    <3> QED  BY <3>1, <3>2 DEF ReaderInv, ReaderMissesOnlyTies, Ahead
  <2> QED  BY <2>1, <2>2
<1> QED  BY <1>2, <1>3 DEF ReaderInv

LEMMA ReaderEmit ==
  ASSUME ChatTypeOK, ReaderInv, NEW h \in Handlers, EmitMessage(h)
  PROVE  ReaderInv'
<1> USE DEF EmitMessage
<1>1. task'[h].pc = "idle" /\ \A g \in Handlers : g # h => task'[g] = task[g]
  BY DEF ChatTypeOK, Idle
<1>2. EmitsOwnRoom'
  BY <1>1 DEF ReaderInv, EmitsOwnRoom, Exists
<1>3. ReaderMissesOnlyTies'
  <2> SUFFICES ASSUME reader.phase # "away", NEW j \in Messages(Watched)
               PROVE  \/ j \in seen'
                      \/ Ahead(j)
                      \/ \E g \in Handlers : task'[g].pc = "emit" /\ task'[g].id = j
                      \/ row[j].at \in reader.edges
    BY DEF ReaderMissesOnlyTies, Messages, Exists, Ahead
  <2>1. CASE task[h].id = j
    <3>1. task[h].room = Watched
      BY <2>1 DEF ReaderInv, EmitsOwnRoom, Messages
    <3> QED  BY <2>1, <3>1
  <2>2. CASE task[h].id # j
    <3>1. seen \subseteq seen'
      OBVIOUS
    <3> QED  BY <1>1, <2>2, <3>1 DEF ReaderInv, ReaderMissesOnlyTies
  <2> QED  BY <2>1, <2>2
<1> QED  BY <1>2, <1>3 DEF ReaderInv

LEMMA ReaderReads ==
  ASSUME ChatTypeOK, ReaderInv, ReadPage
  PROVE  ReaderInv'
<1> USE DEF ReadPage
<1>1. PICK P \in SUBSET Older(reader.cursor) :
       /\ IsPage(P, Older(reader.cursor))
       /\ seen' = seen \cup P
       /\ \/ /\ Cardinality(P) = PageSize
             /\ \E i \in P : /\ \A j \in P : row[j].at >= row[i].at
                             /\ reader' = [phase |-> "reading", cursor |-> row[i].at,
                                           edges |-> reader.edges \cup {row[i].at}]
          \/ /\ Cardinality(P) # PageSize
             /\ reader' = [reader EXCEPT !.phase = "done"]
  OBVIOUS
<1>2. EmitsOwnRoom'
  BY DEF ReaderInv, EmitsOwnRoom, Exists
<1>3. reader'.phase \in {"reading", "done"} /\ reader.edges \subseteq reader'.edges
  BY <1>1 DEF ChatTypeOK, Reader
<1>4. ASSUME NEW j \in Messages(Watched), Ahead(j), j \notin P
      PROVE  reader'.phase = "reading" /\ (row[j].at < reader'.cursor \/ row[j].at \in reader'.edges)
  <2>1. j \in Older(reader.cursor)
    BY <1>4 DEF ReaderInv, Ahead, Older
  <2>2. Cardinality(P) = PageSize /\ \A i \in P : row[i].at >= row[j].at
    BY <1>1, <1>4, <2>1 DEF IsPage
  <2>3. PICK i \in P : reader' = [phase |-> "reading", cursor |-> row[i].at,
                                  edges |-> reader.edges \cup {row[i].at}]
    BY <1>1, <2>2
  <2>4. row[i].at \in Nat /\ row[j].at \in Nat /\ row[i].at >= row[j].at
    <3>1. row[i] \in Row /\ row[j] \in Row
      BY <1>4, <2>3 DEF Older, Messages, Exists, ChatTypeOK
    <3> QED  BY <2>2, <3>1 DEF Row
  <2>5. reader'.phase = "reading" /\ reader'.cursor = row[i].at /\ row[i].at \in reader'.edges
    BY <2>3
  <2>6. CASE row[j].at = row[i].at
    BY <2>5, <2>6
  <2>7. CASE row[j].at < row[i].at
    BY <2>5, <2>7
  <2> QED  BY <2>4, <2>6, <2>7
<1>5. ReaderMissesOnlyTies'
  <2> SUFFICES ASSUME NEW j \in Messages(Watched)
               PROVE  \/ j \in seen'
                      \/ Ahead(j)'
                      \/ \E g \in Handlers : task[g].pc = "emit" /\ task[g].id = j
                      \/ row[j].at \in reader'.edges
    BY DEF ReaderMissesOnlyTies, Messages, Exists
  <2>1. CASE Ahead(j) /\ j \notin P
    BY <1>4, <2>1 DEF Ahead
  <2>2. CASE j \in P
    BY <1>1, <2>2
  <2>3. CASE ~Ahead(j)
    BY <1>1, <1>3, <2>3 DEF ReaderInv, ReaderMissesOnlyTies
  <2> QED  BY <2>1, <2>2, <2>3
<1> QED  BY <1>2, <1>3, <1>5 DEF ReaderInv

\* A client that enters the channel first misses only messages with the time of the
\* last message of a page (ReaderMissesOnlyTies).
THEOREM ReadersMissOnlyTies == ChatSpec => []ReaderMissesOnlyTies
<1>1. ChatInit => ReaderInv
  BY DEF ChatInit, ReaderInv, EmitsOwnRoom, ReaderMissesOnlyTies, Away, Idle
<1>2. ASSUME ChatTypeOK, ReaderInv, [ChatNext \/ RestartChat]_chatVars
      PROVE  ReaderInv'
  <2>1. CASE UNCHANGED <<row, reader, seen, task>>
    BY <1>2, <2>1, ReaderStays
  <2>2. ASSUME NEW h \in Handlers,
               (\E u \in Users, r \in Rooms : Chat(h, u, r)) \/ CheckMembership(h) \/ ChatFails(h)
        PROVE  ReaderInv'
    <3>1. UNCHANGED <<row, reader, seen>>
      BY <2>2 DEF Chat, CheckMembership, ChatFails
    <3>2. task[h].pc # "emit" /\ \A g \in Handlers : g # h => task'[g] = task[g]
      BY <1>2, <2>2 DEF Chat, CheckMembership, ChatFails, ChatTypeOK
    <3>3. task'[h].pc # "emit"
      <4>1. CASE \E u \in Users, r \in Rooms : Chat(h, u, r)
        BY <1>2, <4>1 DEF Chat, ChatTypeOK
      <4>2. CASE CheckMembership(h)
        BY <1>2, <4>2 DEF CheckMembership, ChatTypeOK, Task, Idle
      <4>3. CASE ChatFails(h)
        BY <1>2, <4>3 DEF ChatFails, ChatTypeOK, Idle
      <4> QED  BY <2>2, <4>1, <4>2, <4>3
    <3> QED  BY <1>2, <3>1, <3>2, <3>3, ReaderStays
  <2>3. CASE Tick \/ UNCHANGED chatVars
    BY <2>1, <2>3 DEF Tick, chatVars
  <2>4. ASSUME NEW u \in Users, NEW r \in Rooms, RemoveMember(u, r) \/ AddMember(u, r)
        PROVE  ReaderInv'
    BY <2>1, <2>4 DEF RemoveMember, AddMember
  <2>5. CASE EnterChannel
    <3>1. reader'.phase = "joined" /\ reader'.cursor = None /\ UNCHANGED <<row, seen, task>>
      BY <1>2, <2>5 DEF EnterChannel, ReaderInv, ChatTypeOK, Reader
    <3> QED  BY <1>2, <3>1 DEF ReaderInv, EmitsOwnRoom, Exists, ReaderMissesOnlyTies, Ahead
  <2>6. CASE RestartChat
    BY <2>6 DEF RestartChat, ForgetChat, ReaderInv, EmitsOwnRoom, ReaderMissesOnlyTies, Away, Idle
  <2> QED  BY <1>2, <2>2, <2>3, <2>4, <2>5, <2>6, ReaderInsert, ReaderEmit, ReaderReads DEF ChatNext
<1>3. ReaderInv => ReaderMissesOnlyTies
  BY DEF ReaderInv
<1> QED  BY <1>1, <1>2, <1>3, ChatTypeCorrect, PTL DEF ChatSpec
=============================================================================
