----------------------------- MODULE AuthSessions -----------------------------
(***************************************************************************)
(* Refresh tokens (src/services/auth.service.ts and its controller): the   *)
(* rows of the database, the cookies of the browsers that hold the tokens, *)
(* and the requests between them.                                          *)
(*                                                                         *)
(* A request waits for the database at every query, so each query is a     *)
(* step; the last step of a request is the arrival of its answer, which    *)
(* sets or clears the cookie.  The tabs of a browser share the cookie, so  *)
(* a browser may have several requests on their way.                       *)
(*                                                                         *)
(* A token is the id of its row: the JWT names it under a signature, so no *)
(* other token has the hash, and the account in it is that of the row      *)
(* (which makes the branch at auth.service.ts:113 unreachable).  A request *)
(* that is refused by its first query, for a password, a taken name or a   *)
(* missing cookie, changes nothing and is left out.                        *)
(***************************************************************************)
EXTENDS Naturals, FiniteSets

CONSTANTS
  Users,        \* the accounts
  Browsers,     \* the cookie stores
  accountOf,    \* the account each browser is used for
  Tokens,       \* the ids rows may get, each at most once
  Requests,     \* bound: how many requests may be on their way at a time
  Registered,   \* the accounts that exist when the server starts
  MaxSessions,  \* maxActiveSessions of the plan; 0 is unlimited
  None,         \* null, no row, no cookie
  Events        \* what may happen besides the use of the endpoints

ASSUME AccountAssumption == accountOf \in [Browsers -> Users]
ASSUME FiniteAssumption == IsFiniteSet(Tokens) /\ IsFiniteSet(Requests)
ASSUME RegisteredAssumption == Registered \subseteq Users
ASSUME MaxAssumption == MaxSessions \in Nat
ASSUME EventsAssumption == Events \subseteq {"expiry", "dbError", "lost", "crash"}

Row == [user : Users, hashed : BOOLEAN, expired : BOOLEAN]

ASSUME NoneAssumption == None \notin Browsers \cup Tokens \cup Row

VARIABLES
  users,   \* the accounts that have been registered
  plan,    \* whether the row of the FREE plan exists
  row,     \* the refresh token rows
  cookie,  \* the refresh token each browser holds
  task,    \* what each request is waiting for
  signed,  \* history: the browsers that signed in and have not logged out since
  fate,    \* history: what has become of each token
  faults   \* history: what has happened that may cost a browser its session

vars == <<users, plan, row, cookie, task, signed, fate, faults>>

-----------------------------------------------------------------------------
(* State *)

\* Where a request waits: for a query, or for its answer to arrive (answer sets
\* the cookie, refused and cleared clear it).
Waits == {"idle", "plan", "user", "find", "alarm", "drop", "redeem", "count", "evict",
          "create", "hash", "logout", "logoutAll", "answer", "refused", "cleared"}
Arriving == {"answer", "refused", "cleared"}

\* token is the one presented, fresh the one being issued.
Task == [pc      : Waits,
         op      : {"none", "register", "login", "refresh", "logout", "logoutAll"},
         browser : Browsers \cup {None},
         token   : Tokens \cup {None},
         fresh   : Tokens \cup {None}]

Idle == [pc |-> "idle", op |-> "none", browser |-> None, token |-> None, fresh |-> None]

\* ended: by its holder, a logout-all, the session limit or its age.  revoked: by
\* an alarm.  outlived: redeemed by a refresh that was on its way at a logout-all.
Fates == {"unborn", "live", "redeemed", "ended", "revoked", "outlived"}
Faults == {"overlap", "lost", "error", "crash", "ended"}

Live == {t \in Tokens : row[t] # None}
RowsOf(u) == {t \in Live : row[t].user = u}
Active(u) == {t \in RowsOf(u) : ~row[t].expired}
UserOf(q) == accountOf[task[q].browser]

Init ==
  /\ users = Registered
  /\ plan = (Registered # {})
  /\ row = [t \in Tokens |-> None]
  /\ cookie = [b \in Browsers |-> None]
  /\ task = [q \in Requests |-> Idle]
  /\ signed = {}
  /\ fate = [t \in Tokens |-> "unborn"]
  /\ faults = {}

\* A request of browser b; one that overlaps another of b is noted.
Start(q, pc, op, b, t) ==
  /\ task[q].pc = "idle"
  /\ task' = [task EXCEPT ![q] = [pc |-> pc, op |-> op, browser |-> b, token |-> t, fresh |-> None]]

Overlap(b) == IF \E q \in Requests : task[q].browser = b THEN {"overlap"} ELSE {}

Continue(q, pc) == task' = [task EXCEPT ![q].pc = pc]
End(q) == task' = [task EXCEPT ![q] = Idle]

\* Mutant: so does the handler of every endpoint.
Refuse_AlwaysClears(q) == Continue(q, "refused")

\* The endpoint answers with an error; that of refresh clears the cookie as well.
Refuse(q) == IF task[q].op = "refresh" THEN Continue(q, "refused") ELSE End(q)

\* deleteMany and delete: the rows of S go.
Delete(S, why) ==
  /\ row' = [t \in Tokens |-> IF t \in S THEN None ELSE row[t]]
  /\ fate' = [t \in Tokens |-> IF t \in S \cap Live THEN why ELSE fate[t]]

\* What a refused token had come to, where that is no one's mishap.
Ended(t) == IF fate[t] \in {"ended", "outlived"} THEN {"ended"} ELSE {}

-----------------------------------------------------------------------------
(* register and login *)

\* Neither the e-mail address nor the user name is taken yet.
Register(q, b) ==
  /\ accountOf[b] \notin users
  /\ Start(q, IF plan THEN "user" ELSE "plan", "register", b, None)
  /\ faults' = faults \cup Overlap(b)
  /\ UNCHANGED <<users, plan, row, cookie, signed, fate>>

\* The name of the plan is unique: of two that create it one fails.
CreatePlan(q) ==
  /\ task[q].pc = "plan"
  /\ plan' = TRUE
  /\ IF plan THEN End(q) ELSE Continue(q, "user")
  /\ UNCHANGED <<users, row, cookie, signed, fate, faults>>

\* So are the address and the user name.
CreateUser(q) ==
  /\ task[q].pc = "user"
  /\ users' = users \cup {UserOf(q)}
  /\ IF UserOf(q) \in users THEN End(q) ELSE Continue(q, "count")
  /\ UNCHANGED <<plan, row, cookie, signed, fate, faults>>

Login(q, b) ==
  /\ accountOf[b] \in users
  /\ Start(q, "count", "login", b, None)
  /\ faults' = faults \cup Overlap(b)
  /\ UNCHANGED <<users, plan, row, cookie, signed, fate>>

-----------------------------------------------------------------------------
(* refresh *)

\* The cookie is read and its JWT verified.
Refresh(q, b) ==
  /\ cookie[b] # None
  /\ Start(q, "find", "refresh", b, cookie[b])
  /\ faults' = faults \cup Overlap(b)
  /\ UNCHANGED <<users, plan, row, cookie, signed, fate>>

\* exp of the JWT, in whole seconds and counted from a later moment, has passed
\* before expiresAt of the row or after it.
RefreshLapsed(q, b) ==
  /\ "expiry" \in Events
  /\ cookie[b] # None
  /\ Start(q, "refused", "refresh", b, cookie[b])
  /\ faults' = faults \cup Overlap(b) \cup {"ended"}
  /\ UNCHANGED <<users, plan, row, cookie, signed, fate>>

\* A token without a row has been used before, it seems, and so has one whose hash
\* is another.
FindToken(q) ==
  /\ task[q].pc = "find"
  /\ LET r == row[task[q].token] IN
     /\ Continue(q, IF r = None THEN "alarm"
                    ELSE IF ~r.hashed THEN "alarm"
                    ELSE IF r.expired THEN "drop" ELSE "redeem")
     /\ faults' = faults \cup (IF r = None THEN Ended(task[q].token)
                               ELSE IF r.expired THEN {"ended"} ELSE {})
  /\ UNCHANGED <<users, plan, row, cookie, signed, fate>>

\* "Refresh token reuse detected, all sessions revoked."
Alarm(q) ==
  /\ task[q].pc = "alarm"
  /\ Delete(RowsOf(UserOf(q)), "revoked")
  /\ Continue(q, "refused")
  /\ UNCHANGED <<users, plan, cookie, signed, faults>>

\* The row has expired and is deleted; the answer is an error in any case.
DropExpired(q) ==
  /\ task[q].pc = "drop"
  /\ Delete({task[q].token}, "ended")
  /\ Continue(q, "refused")
  /\ UNCHANGED <<users, plan, cookie, signed, faults>>

\* Mutant: the delete does not say whether there was a row.
Redeem_Many(q) ==
  /\ task[q].pc = "redeem"
  /\ Delete({task[q].token}, "redeemed")
  /\ Continue(q, "count")
  /\ UNCHANGED <<users, plan, cookie, signed, faults>>

\* The delete of a row that is gone by now throws, and the refresh fails.
Redeem(q) ==
  /\ task[q].pc = "redeem"
  /\ IF row[task[q].token] = None
     THEN /\ Refuse(q)
          /\ faults' = faults \cup Ended(task[q].token)
          /\ UNCHANGED <<row, fate>>
     ELSE /\ Delete({task[q].token}, "redeemed")
          /\ Continue(q, "count")
          /\ UNCHANGED faults
  /\ UNCHANGED <<users, plan, cookie, signed>>

-----------------------------------------------------------------------------
(* issueTokenPair *)

\* Mutant: the limit itself still passes.
CountSessions_OffByOne(q) ==
  /\ task[q].pc = "count"
  /\ Continue(q, IF MaxSessions > 0 /\ Cardinality(Active(UserOf(q))) > MaxSessions
                 THEN "evict" ELSE "create")
  /\ UNCHANGED <<users, plan, row, cookie, signed, fate, faults>>

CountSessions(q) ==
  /\ task[q].pc = "count"
  /\ Continue(q, IF MaxSessions > 0 /\ Cardinality(Active(UserOf(q))) >= MaxSessions
                 THEN "evict" ELSE "create")
  /\ UNCHANGED <<users, plan, row, cookie, signed, fate, faults>>

\* At the limit all sessions of the account make way for the new one.
Evict(q) ==
  /\ task[q].pc = "evict"
  /\ Delete(RowsOf(UserOf(q)), "ended")
  /\ Continue(q, "create")
  /\ UNCHANGED <<users, plan, cookie, signed, faults>>

\* The row is inserted without a hash, since the JWT needs its id.
CreateRow(q, t) ==
  /\ task[q].pc = "create"
  /\ fate[t] = "unborn"
  /\ row' = [row EXCEPT ![t] = [user |-> UserOf(q), hashed |-> FALSE, expired |-> FALSE]]
  /\ fate' = [fate EXCEPT ![t] = "live"]
  /\ task' = [task EXCEPT ![q].pc = "hash", ![q].fresh = t]
  /\ UNCHANGED <<users, plan, cookie, signed, faults>>

\* Mutant: the update is not waited for, and comes too late.
StoreHash_Unawaited(q) ==
  /\ task[q].pc = "hash"
  /\ Continue(q, "answer")
  /\ UNCHANGED <<users, plan, row, cookie, signed, fate, faults>>

\* The update of a row that is gone by now throws, and no token is issued.
StoreHash(q) ==
  /\ task[q].pc = "hash"
  /\ IF row[task[q].fresh] = None
     THEN /\ Refuse(q)
          /\ faults' = faults \cup Ended(task[q].fresh)
          /\ UNCHANGED row
     ELSE /\ row' = [row EXCEPT ![task[q].fresh].hashed = TRUE]
          /\ Continue(q, "answer")
          /\ UNCHANGED faults
  /\ UNCHANGED <<users, plan, cookie, signed, fate>>

-----------------------------------------------------------------------------
(* logout and logout-all *)

Logout(q, b) ==
  /\ cookie[b] # None
  /\ Start(q, "logout", "logout", b, cookie[b])
  /\ faults' = faults \cup Overlap(b)
  /\ UNCHANGED <<users, plan, row, cookie, signed, fate>>

\* The JWT has expired: nothing is deleted, and the client is not told.
LogoutLapsed(q, b) ==
  /\ "expiry" \in Events
  /\ cookie[b] # None
  /\ Start(q, "cleared", "logout", b, cookie[b])
  /\ faults' = faults \cup Overlap(b)
  /\ UNCHANGED <<users, plan, row, cookie, signed, fate>>

\* A row that is gone by now is ignored.
DeleteToken(q) ==
  /\ task[q].pc = "logout"
  /\ Delete({task[q].token}, "ended")
  /\ Continue(q, "cleared")
  /\ UNCHANGED <<users, plan, cookie, signed, faults>>

\* The client has an access token, which no row vouches for.
LogoutAll(q, b) ==
  /\ accountOf[b] \in users
  /\ Start(q, "logoutAll", "logoutAll", b, None)
  /\ faults' = faults \cup Overlap(b)
  /\ UNCHANGED <<users, plan, row, cookie, signed, fate>>

\* Tokens of the account given up by a refresh that has not inserted their heir.
Between(u) == {t \in Tokens : /\ fate[t] = "redeemed"
                              /\ \E q \in Requests : /\ task[q].pc \in {"count", "evict", "create"}
                                                    /\ task[q].token = t
                                                    /\ UserOf(q) = u}

DeleteAll(q) ==
  /\ task[q].pc = "logoutAll"
  /\ LET gone == RowsOf(UserOf(q)) IN
     /\ row' = [t \in Tokens |-> IF t \in gone THEN None ELSE row[t]]
     /\ fate' = [t \in Tokens |-> IF t \in gone THEN "ended"
                                  ELSE IF t \in Between(UserOf(q)) THEN "outlived" ELSE fate[t]]
  /\ Continue(q, "cleared")
  /\ UNCHANGED <<users, plan, cookie, signed, faults>>

-----------------------------------------------------------------------------
(* Answers arrive, or do not *)

\* Mutant: refresh answers without the new cookie.
Answer_KeepsCookie(q) ==
  /\ task[q].pc = "answer"
  /\ cookie' = IF task[q].op = "refresh" THEN cookie
               ELSE [cookie EXCEPT ![task[q].browser] = task[q].fresh]
  /\ signed' = signed \cup {task[q].browser}
  /\ End(q)
  /\ UNCHANGED <<users, plan, row, fate, faults>>

\* The new pair of tokens arrives; setRefreshCookie.
Answer(q) ==
  /\ task[q].pc = "answer"
  /\ cookie' = [cookie EXCEPT ![task[q].browser] = task[q].fresh]
  /\ signed' = signed \cup {task[q].browser}
  /\ End(q)
  /\ UNCHANGED <<users, plan, row, fate, faults>>

\* The error of a refresh, or the answer to a logout; clearRefreshCookie.
ClearCookie(q) ==
  /\ task[q].pc \in {"refused", "cleared"}
  /\ cookie' = [cookie EXCEPT ![task[q].browser] = None]
  /\ signed' = IF task[q].pc = "cleared" THEN signed \ {task[q].browser} ELSE signed
  /\ End(q)
  /\ UNCHANGED <<users, plan, row, fate, faults>>

Lose(q) ==
  /\ "lost" \in Events
  /\ task[q].pc \in Arriving
  /\ End(q)
  /\ faults' = faults \cup {"lost"}
  /\ UNCHANGED <<users, plan, row, cookie, signed, fate>>

\* A query throws.  logout ignores it.
Fail(q) ==
  /\ "dbError" \in Events
  /\ task[q].pc \notin Arriving \cup {"idle"}
  /\ IF task[q].op = "logout" THEN Continue(q, "cleared") ELSE Refuse(q)
  /\ faults' = faults \cup {"error"}
  /\ UNCHANGED <<users, plan, row, cookie, signed, fate>>

-----------------------------------------------------------------------------
(* Time and the process *)

\* expiresAt passes.
Expire(t) ==
  /\ "expiry" \in Events
  /\ row[t] # None
  /\ row' = [row EXCEPT ![t].expired = TRUE]
  /\ UNCHANGED <<users, plan, cookie, task, signed, fate, faults>>

\* cleanupExpiredTokens, which the maintenance worker calls.
CleanUp ==
  /\ Delete({t \in Live : row[t].expired}, "ended")
  /\ UNCHANGED <<users, plan, cookie, task, signed, faults>>

\* The process ends and starts again; who waited gets no answer.
Crash ==
  /\ "crash" \in Events
  /\ \E q \in Requests : task[q].pc # "idle"
  /\ task' = [q \in Requests |-> Idle]
  /\ faults' = faults \cup {"crash"}
  /\ UNCHANGED <<users, plan, row, cookie, signed, fate>>

-----------------------------------------------------------------------------
Begin(q) == \E b \in Browsers :
  \/ Register(q, b) \/ Login(q, b) \/ LogoutAll(q, b)
  \/ Refresh(q, b) \/ RefreshLapsed(q, b)
  \/ Logout(q, b) \/ LogoutLapsed(q, b)

Proceed(q) ==
  \/ CreatePlan(q)
  \/ CreateUser(q)
  \/ FindToken(q)
  \/ Alarm(q)
  \/ DropExpired(q)
  \/ Redeem(q)
  \/ CountSessions(q)
  \/ Evict(q)
  \/ \E t \in Tokens : CreateRow(q, t)
  \/ StoreHash(q)
  \/ DeleteToken(q)
  \/ DeleteAll(q)
  \/ Answer(q)
  \/ ClearCookie(q)

Next ==
  \/ \E q \in Requests : Begin(q) \/ Proceed(q) \/ Lose(q) \/ Fail(q)
  \/ \E t \in Tokens : Expire(t)
  \/ CleanUp
  \/ Crash

Spec == Init /\ [][Next]_vars

-----------------------------------------------------------------------------
(* What holds *)

Issuing == {"count", "evict", "create", "hash", "answer"}

\* A running request is of a browser, one that refreshes or logs out presents a
\* token, and one that has inserted a row knows its id.
TaskOK(t) ==
  /\ t.pc = "idle" => t = Idle
  /\ t.pc # "idle" => t.browser # None
  /\ t.op \in {"refresh", "logout"} => t.token # None
  /\ t.pc \in {"find", "alarm", "drop", "redeem", "refused"} => t.op = "refresh"
  /\ t.pc \in {"plan", "user"} => t.op = "register"
  /\ t.op \in {"register", "login", "logoutAll"} => t.token = None
  /\ t.pc = "logout" => t.op = "logout"
  /\ t.pc \in {"hash", "answer"} => t.fresh # None

\* Every variable has its type; a row exists for the tokens whose fate is open.
TypeOK ==
  /\ users \subseteq Users
  /\ plan \in BOOLEAN
  /\ row \in [Tokens -> Row \cup {None}]
  /\ cookie \in [Browsers -> Tokens \cup {None}]
  /\ task \in [Requests -> Task]
  /\ \A q \in Requests : TaskOK(task[q])
  /\ signed \subseteq Browsers
  /\ fate \in [Tokens -> Fates]
  /\ faults \subseteq Faults
  /\ \A t \in Tokens : row[t] # None <=> fate[t] = "live"

\* The session limit is checked by a count and kept only by what else is running
\* (auth.service.ts:170, 181): with n requests at a time an account has at most
\* n - 1 sessions too many, those that have passed the check included.
Creating(u) == {q \in Requests : task[q].pc = "create" /\ UserOf(q) = u}
SessionsExcess == MaxSessions > 0 => \A u \in Users :
  Cardinality(Active(u)) + Cardinality(Creating(u)) <= (MaxSessions - 1) + Cardinality(Requests)

\* A token that a browser holds, that is on its way to one, or that a request
\* presents has its hash in the row as long as there is a row, although the row is
\* inserted without (auth.service.ts:185): only a token that is not of our making
\* fails the comparison that revokes all sessions.
Hashed(t) == t # None => row[t] = None \/ row[t].hashed
HeldIsHashed ==
  /\ \A b \in Browsers : Hashed(cookie[b])
  /\ \A q \in Requests : Hashed(task[q].token) /\ (task[q].pc = "answer" => Hashed(task[q].fresh))

\* Refresh q has redeemed the token its browser holds and is getting another.
Rotating(q, b) ==
  /\ task[q].op = "refresh" /\ task[q].pc \in Issuing
  /\ task[q].browser = b /\ task[q].token = cookie[b]

\* A browser that has signed in and not logged out holds a token with a row, or
\* is exchanging it, or its session has been ended by a logout-all, the session
\* limit or age.  What else may cost it its session are the five faults: requests
\* of one browser that overlap, an answer that is lost, a query that throws, a
\* process that ends, and a refresh with a token whose session has been ended.
StaysSignedIn ==
  faults = {} => \A b \in signed :
    /\ cookie[b] # None
    /\ \/ row[cookie[b]] # None
       \/ fate[cookie[b]] = "ended"
       \/ \E q \in Requests : Rotating(q, b)

\* Those that have given a password or a token for the one they are getting.
Paid == {q \in Requests : task[q].pc \in {"count", "evict", "create"}}
Grants == {<<q, task[q].token>> : q \in Paid}
Issued == {t \in Tokens : fate[t] # "unborn"}

Promise == INSTANCE SingleUseTokens WITH
  Password <- None,
  issued   <- Issued,
  live     <- Live,
  grants   <- Grants

\* README.md:36, "Refresh token rotation on every use": every new token is for a
\* password or for the row of another that went with it, however many requests
\* present the same token, and no row comes back (auth.service.ts:129).
RefinesPromise == Promise!Spec

-----------------------------------------------------------------------------
(* What the README promises and the code does not keep *)

\* README.md:37, "Reuse detection - revokes all sessions on stolen token replay":
\* an alarm is for a token that was used before.
AlarmMeansReplay ==
  \A q \in Requests : task[q].pc = "alarm" => fate[task[q].token] \in {"redeemed", "outlived"}

\* README.md:156, "Revoke all sessions": no refresh is about to answer with an heir
\* of a session that was there at a logout-all.
LogoutAllRevokes ==
  \A q \in Requests : /\ task[q].pc = "answer" /\ task[q].op = "refresh"
                      /\ row[task[q].fresh] # None
                      => fate[task[q].token] # "outlived"

\* Neither is kept: each of the two is violated in one state.
SomeSessionPromiseHolds == AlarmMeansReplay \/ LogoutAllRevokes
=============================================================================
