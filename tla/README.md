# CollabCode backend: a TLA+ verification project

This directory holds TLA+ models of the CollabCode backend (Express, Prisma and
Socket.IO, `src/` beside it), the TLC configurations that check them, and proofs
that the TLA+ proof system checks.  Line numbers refer to the files under `src/`.

| File | What it is |
| --- | --- |
| `CollabRoom.tla` | one room of the collaboration engine: joins, edits, persistence, leaving, unloading, crashes |
| `MC_CollabRoom.tla`, `CollabRoom_*.cfg` | its instances for TLC |
| `DurableDocument.tla` | abstract specification, with its theorems: a document whose edits are written later and not lost |
| `CollabRoom_proofs.tla` | theorems about it, the refinement of `DurableDocument` included |
| `CappedRooms.tla` | abstract specification: rooms whose number of members the plan caps |
| `RoomMembership.tla` | the room service: rooms, memberships, invites, plan limits, row locks |
| `MC_RoomMembership.tla`, `RoomMembership_*.cfg` | its instances for TLC |
| `RoomMembership_proofs.tla` | theorems about it, the refinement of `CappedRooms` included |
| `SingleUseTokens.tla` | abstract specification, with its theorem: tokens that are given up once and have one heir |
| `AuthSessions.tla` | refresh tokens: the rows, the browsers' cookies, and the requests between them |
| `MC_AuthSessions.tla`, `AuthSessions_*.cfg` | its instances for TLC |
| `AuthSessions_proofs.tla` | theorems about it, the refinement of `SingleUseTokens` included |
| `CountingLemmas.tla` | the counting argument of the limits in `RoomMembership` and `AuthSessions` |
| `RoomChat.tla` | chat: the rate limit, `room:chat`, and a client that reads the history |
| `MC_RoomChat.tla`, `RoomChat_safety.cfg` | its instance for TLC |
| `RoomChat_proofs.tla` | theorems about it |
| `Maintenance.tla` | the maintenance queue and the message clean-up, composed with `RoomChat` |
| `MC_Maintenance.tla`, `Maintenance_live.cfg` | its instance for TLC |
| `Maintenance_proofs.tla` | theorems about it |
| `PROJECT.json` | components, runs, mutants, the map from definitions to lines, findings, hazards, theorems |

Run a model with `tlc -config CollabRoom_safety.cfg MC_CollabRoom` and the proofs
with `tlapm CollabRoom_proofs.tla`.

## 1. Inventory

**Collaboration engine** (`src/sockets`).  State: the map `activeRooms` from room
id to `{document, version, users: Map<userId, socketId>, persistTimeout}`, the
Socket.IO channels, `chatRateLimits`.  Operations: handshake; `room:join`
(membership query, lazy load of the document, registration, channel, snapshot);
`room:edit` (version check, replacement of the text, broadcast, debounced
persist; a full resync on mismatch); `room:leave` and `disconnect` (presence,
persist and unload when empty); `room:force-leave`; `room:chat` (rate limit,
insert, broadcast); `room:cursor` (relay).  It calls the room service
(`validateMembership`), the message service and, for documents, Prisma.
Hard: every handler waits for the database in its middle, the store is shared by
all of them, timers fire between the waits, sockets close during them, the
disconnect loop iterates over a map that changes under it, and edits exist in
memory only until a write succeeds.  Correct when: accepted edits survive,
editors agree with the server, presence reflects connections, memory is freed.

**Room and membership service** (`services/room.service.ts`, its controller and
routes).  State: rows of rooms, memberships, invites and (created with the room)
documents.  Operations: `createRoom`, `joinRoom`, `joinByInvite`, `joinById`,
`createInvite`, `removeMember`, `deleteRoom`, and reads.  Hard: limits are checked
by a count and enforced by a later insert; only `joinRoom` locks the room row;
foreign keys and a unique index make inserts wait for one another.  Correct when:
limits hold, the owner is a member, requests end.

**Authentication sessions** (`services/auth.service.ts`, its controller,
`utils/jwt.ts`).  State: refresh token rows, and the cookies the answers set and
clear.  Operations: register, login, refresh (rotation with reuse detection),
logout, logout-all, clean-up of expired tokens.  Hard: two refreshes with one
token, a refresh beside a logout-all, a row that exists with an empty hash between
its insert and its update, the count against `maxActiveSessions` beside another
login, answers that are lost after the row has changed.  Correct when: a token is
given up once and has one heir, the session limit holds, and nobody is signed out
without a cause.

**Chat messages** (`services/message.service.ts`, `room:chat`).  State:
`chatRateLimits`, rows of messages.  Operations: insert after the rate limit and a
membership check, emission to the channel, paging by `createdAt`, retention in
batches.  Hard: removal between check and insert, equal timestamps at a page's
end, a history that is read while messages arrive, batches beside inserts.
Correct when: the rate is bounded, a client that reads the history and listens
misses nothing, messages go when their plan says and not before.

**Maintenance jobs** (`jobs/`).  State: a BullMQ queue in Redis, which outlives the
process.  A scheduler per job, one worker, three attempts with a backoff.  Hard: a
job that fails or is cut off in its middle.  Correct when: the retention is kept
all the same.

**Process life cycle** (`server.ts`, `utils/prisma.ts`).  Two handlers for each
of SIGINT and SIGTERM: one closes everything in order, the other disconnects
Prisma and exits.  Neither persists the loaded rooms.

**Code execution** (`services/execution.service.ts`), **health, configuration,
logging and errors**: a stateless proxy, and I/O without state that later
requests depend on.

**Schema** (`prisma/schema.prisma`): uniqueness, foreign keys and cascades.

The components meet in the database rows, and in two calls: the engine asks the
room service whether a user is a member at `room:join`, and the message service
does so for each message.  Nothing tells the engine that a member was removed or
a room deleted; the client does, with `room:force-leave`.

## 2. The model of a room: `CollabRoom`

### State

| Variable | In the code |
| --- | --- |
| `conn` | each Socket.IO connection: new, open, closed (a client opens a new socket to reconnect) |
| `channel` | whether the socket is in the channel `room:<id>`, and the document (version and text) it was last sent |
| `room` | `activeRooms.get(roomId)`: version, text, `users`, and whether `persistTimeout` is set |
| `strays` | timers still armed whose object has been deleted or replaced (`setTimeout` closes over the id, room-store.ts:47) |
| `task` | the activations of handlers that are waiting, each with where it waits (`pc`), its socket, the document it read or captured, which caller of `persistRoom` goes on, and whether the disconnect loop has the room ahead of it |
| `exists`, `members`, `doc` | rows: the room, its memberships, its document |
| `latest`, `faults` | history: the document after the last accepted edit, and which mishaps happened |

A document is a version and a member of a small set of texts: an edit replaces
the whole text (editor.handler.ts:60), so nothing depends on what is inside.

### Steps

Node runs a handler without interruption between two waits, and continuations of
resolved promises run before the next I/O event, so a step is the code between
two database answers, or the moment at which the database carries out a call.
The other awaits of the code (`socket.join`, `socket.leave`) do their work
synchronously with the in-process part of the adapter.

- `RoomJoin`, `ValidateMembership`, `JoinLoaded` / `JoinUnloaded`,
  `FindDocument`, `CreateDocument`, `InstallRoom`, `JoinFails`: `room:join` and
  `getOrCreateRoom`.  `InstallRoom` does not look whether another join has
  installed an object meanwhile (room-store.ts:35).
- `Edit`, `Resync`: `room:edit` with the current and with another version.
- `TimerFires`, `StrayTimerFires`, `UpdateDocument`, `UpdateFails`, `RemoveRoom`:
  `schedulePersist`, `persistRoom`, `persistAndRemoveRoom`.  Prisma sends queries
  over a pool, so two writes may commit in either order.
- `RoomLeave`, `RoomLeaveLast`, `ForceLeave`; `Disconnect`, `SweepRoom`,
  `SweepDone`: leaving, and the disconnect loop, whose visits to other rooms are
  a delay of its visit to this one.  Socket.IO takes a closing socket out of its
  channels before the handler runs, and later joins of it do nothing.
- `AddMember`, `RemoveMember`, `DeleteRoom`: the REST side; `Crash`: the end of
  the process, by signal or otherwise, and its restart.

### What can cost an edit

Losses are recorded in `faults` where they happen: an update that throws
(`failed`, only logged at room-store.ts:69), a process that ends with unsaved edits
(`crash`), an object that is deleted with its timer armed (`dropped`), writes
that commit out of order (`reordered`), and an object installed from a document
that is no longer the latest (`staleLoad`).  `lateJoin` marks a join that
finished after its socket had closed; it costs no edit, but leaves a participant.
The safety properties say that these are the *only* causes; the violation runs
show that those the README excludes do happen.

### The refinement

`DurableDocument` is what debounced persistence (README.md:76) can promise: edits
are accepted one after the other (`Accept`), a write takes the last accepted edit
and clears what is due (`Capture`), it is committed some time (`Commit`, never an
older document over a newer), and the document may be closed once nothing is
unsaved (`Settle`).  `stored` is the row, `pending` an armed timer, `writing` the
documents of the writes on their way, and `broken` that a loss has happened or the
room was deleted, after which it promises nothing.

### Runs

| Run | Shows |
| --- | --- |
| `CollabRoom_safety` | `TypeOK`, `VersionNamesLatest` (until a loss, a version number identifies a text in every copy: row, memory, client, load, write), `EditsAreKept` (the five losses are all: otherwise the last edit is in memory and in the row, on its way, or a timer is armed), `RefinesDurable` (until a loss or the deletion of the room, `schedulePersist` and `persistRoom` implement `DurableDocument`), `ClientsGoForward` (until a loss no socket that stays in the channel is sent an older document) |
| `CollabRoom_tabs` | `ParticipantsAgree` (a registered editor in the channel holds the server's document), `PresenceIsSwept` (a closed participant is ahead of a running disconnect loop, unless a join was late), `EmptyIsLeaving` (a room without participants is on its way through `persistAndRemoveRoom`), `RoomsAreFreed` (when all connections have closed and nothing is on its way, the room is not in memory, unless a join was late) |
| `CollabRoom_live` | `EditsReachTheRow`, `EmptyRoomUnloads` |
| `CollabRoom_last_disconnect` | violates `SomeDisconnectPromiseHolds`, which says that `DisconnectFreesRoom` (`RoomsAreFreed` without its condition on late joins) or `LastDisconnectPersists` holds: in one behaviour a join finishing after the disconnect leaves the room loaded for ever, and the debounced write commits after the final one |
| `CollabRoom_two_loads` | violates `SomeLoadPromiseHolds`, which says that `FreedOnlyIfEmpty` or `LoadedRoomIsLatest` holds: in one behaviour the second of two concurrent loads replaces the first's object and the edits in it, and a user who joins during the last leave's write has the room deleted under them |

Bounds.  `Activations` = 2 handlers waiting at once, which is what every one of
these races takes (3 where one behaviour shows two of them); the proofs have no
such bound.  `MaxVersion` 2 in the safety
run (a document can be behind by one edit and by two, and the second edit can
repeat a text), 1 in the others, where only whether an edit is unsaved matters.
`MaxTimers` 2 or 1 stray timers.  `FewFaults` follows a behaviour until its second
mishap: the properties say nothing after a loss, and nothing after a late join.
The safety run has two users with a connection each and all events (membership
changes, deletion, database errors, crashes); the tabs run three connections, two
of one user, and the case of a room without a document.  Symmetry is over
activations and texts; the live run uses neither symmetry nor the constraint.

Fairness.  Weak fairness of each activation: Node runs every continuation and the
database answers or fails.  Strong fairness of the timer: Node fires an armed
timer once its time has come; strong because in the model the callback needs a
free slot of `Activations`.  This assumes clients pause for 2.5 s at some time,
since each edit sets the timer anew; without a pause the code postpones the write
for as long as they type.  No fairness of clients or of faults.

Deadlock is not checked: with every connection closed and nothing pending the
room really is at rest.

## 3. The model of the room service: `RoomMembership`

State: `owner` (the room rows), `used` (ids given out; never reused), `members`,
`invites` (how many invite rows a room has: tokens are 256 random bits, so whose
token it is does not matter, only whether a row of the room is found), and `task`,
the running requests.  Each query is a step under Read Committed, PostgreSQL's
default, which `$transaction` leaves in place.  A transaction's single insert and
its commit are one step, as an uncommitted row is invisible to the counts.

- `CountOwned`, `InsertRoom`: `createRoom`; the count is outside the transaction.
- `JoinRoom`, `LockRoom`: `joinRoom` up to `SELECT ... FOR UPDATE`; `FindInvite`,
  `FindRoom`: the queries of `joinByInvite` and `joinById` before their
  transaction.  Then all three go through `CheckExisting`, `CountJoined`,
  `CountMembers`, `InsertMembership` (the unique index: waits for an uncommitted
  insert of the same row, fails on a committed one) and `CommitMembership` (the
  foreign key: waits for the room's lock, fails if the room is gone).
- `Blocked` says what a query waits for, and is negated in the guards of `LockRoom`,
  `InsertMembership`, `CommitMembership` and `InsertInvite`.
- A lock is held exactly by a `joinRoom` transaction between its first query and
  its end, so it is a predicate (`HoldsLock`) and no variable.
- `BreakDeadlock`: a `joinById` of a user can hold the index entry and wait for the
  lock of a `joinRoom` of the same user that waits for the entry; PostgreSQL's
  deadlock detector ends one.
- `CreateInvite` (with the delete of the old rows), `InsertInvite`,
  `RemoveMember`, `DeleteRoom`, and `Fail` for errors, timeouts and crashes.

A request that its first query refuses changes nothing and is left out; so are
expired invites, which are refused in the same way.  All accounts have one plan;
plans never change in the code.  No code deletes a user.

| Run | Shows |
| --- | --- |
| `RoomMembership_safety` | `NoStandstill`: of the requests that wait, one is not `Blocked` or is in a cycle of two that `BreakDeadlock` ends; `TypeOK`; `OwnerIsMember` (README.md:59); and how far each limit can be missed: `OwnedExcess`, `MembersExcess`, `JoinedExcess`, `InvitesExcess` - with n requests at a time by n - 1 at most, however long the history |
| `RoomMembership_locked` | `RefinesCapped`: with `joinRoom` as the only way in, the service implements `CappedRooms`, so the row lock does what README.md:96 says for `maxMembersPerRoom`; and `RequestsEnd`: nobody waits for ever |
| `RoomMembership_limits` | violates `SomeLimitHolds`: in one behaviour two `createRoom` calls pass the check together (it is outside their transaction), two joins of one room do (joins by invite and by id take no lock), and two joins of different rooms by one user do (no endpoint locks the joiner), so that all three limits are exceeded at once |

Bounds.  Three users (an owner and two who join), two rooms (one public, one
private), two requests at a time; limits of 1 room, 2 members, 1 joined room, so
that every limit is reached and missed by one, which makes the bounds tight.  The
locked run allows two joined rooms, so that a user can wait for either.  `Rooms`
bounds how many rooms are ever created.

Fairness: strong for each request, since PostgreSQL serves the waiters of a row in
order.  `RequestsEnd` leaves out `createRoom` only because the model's ids run out.

## 4. The model of sessions: `AuthSessions`

State: `users` and `plan` (registered accounts, the FREE plan's row); `row`, the
refresh token rows, each with its account, whether its hash is stored and whether
it has expired; `cookie`, the token each browser holds; `task`, the requests on
their way; and the histories `signed`, `fate` (what became of each token) and
`faults`.  A token is the id of its row, since the JWT names it under a signature.

Each query is a step, and the arrival of an answer is one of its own: it sets
or clears the cookie (auth.controller.ts:8, 19), and it may be lost (`Lose`).

- `Register`, `CreatePlan`, `CreateUser`; `Login`: up to `issueTokenPair`, whose
  steps are `CountSessions`, `Evict`, `CreateRow` (without a hash), `StoreHash`.
- `Refresh`, `FindToken` with its branches `Alarm`, `DropExpired`, `Redeem`; then
  `issueTokenPair`.  `RefreshLapsed` is the JWT that has expired: its `exp` is in
  whole seconds and signed later than `expiresAt` is computed, so either may pass first.
- `Logout`, `LogoutLapsed`, `DeleteToken`; `LogoutAll`, `DeleteAll`.
- `Answer`, `ClearCookie`, `Lose`, `Fail` (a query throws; every error of a
  refresh clears the cookie, auth.controller.ts:90), `Expire`, `CleanUp`, `Crash`.

A request that its first query refuses, or the rate limiter or schema in front
of the route, changes nothing and is left out.

| Run | Shows |
| --- | --- |
| `AuthSessions_safety` | `TypeOK`; `SessionsExcess`: with n requests at a time `maxActiveSessions` is exceeded by n - 1 at most; `HeldIsHashed`: no browser's token meets the row without a hash; `StaysSignedIn`: what can cost a browser its session is a logout-all, the limit, age, or one of five faults (overlapping requests of one browser, a lost answer, an error, a crash, a refresh with a token that was ended); `RefinesPromise`: README.md:36, the service implements `SingleUseTokens` |
| `AuthSessions_promises` | violates `SomeSessionPromiseHolds`, which says that `AlarmMeansReplay` or `LogoutAllRevokes` holds: in one state an alarm is for a token that was merely ended, and a refresh that was on its way at a logout-all answers with a new session |

The refinement: `issued` are the tokens with a fate, `live` those with a row, and
a request has a grant from its password or its redeemed token until it inserts a
row.  `Redeem` is one step because `delete` of a missing row throws
(auth.service.ts:129); with `deleteMany` two refreshes would both have a grant.

Bounds: one account in two browsers (the second browser makes requests of two
holders; another account shares no row with it), three tokens (one to hold, its heir,
one more), two requests, a limit of one session, so that it is reached and missed
by one.  `FewFaults` follows a behaviour to its second fault:
`StaysSignedIn` says nothing after the first.  Deadlock is not checked: at the
bound on tokens, and with nobody registered, the model may rest.  Symmetry is over
tokens and requests.  No liveness: nothing in the code retries.

## 5. The models of chat and retention: `RoomChat`, `Maintenance`

`RoomChat` state: the clock `now`, `limits` (`chatRateLimits`), `member`, `row`
(message rows with room, author and `createdAt`), `task` (activations of
`room:chat`), and a client of one room: `reader` (has it entered the channel, its
cursor) and `seen`.  Histories: `sent`, `late`, `mishaps`.  `createdAt` is the
time of the insert; several things may happen within a tick, so equal times occur.

- `Chat`: the rate limit and the start of `createMessage`; `CheckMembership`,
  `InsertMessage`, `EmitMessage`, `ChatFails`.
- `EnterChannel`, then `ReadPage` until a page is not full: the client's use of
  `getRecentMessages`.  `IsPage` is ORDER BY and LIMIT: any order among equal times.
- `RemoveMember`, `AddMember`, `Tick`, `RestartChat`.

`Maintenance` extends it with `queue`, `job`, `pass` (where `cleanExpiredMessages`
is: plans left, plan, cutoff) and the history `cleaned`.

- `Schedule`, `StartJob`, `Wait` (a retry returns to any place of the queue: its
  backoff is not compared with what else is due), `JobFails` (three attempts in
  the code, `Attempts` here).
- `FindPlans`, `NextPlan`, `DeleteBatch`: the two loops.  The cutoff is computed once
  per plan; a query deletes up to `Batch` messages (1000 in the code).
- `Restart`: the process ends, by a crash or by a signal.  The handler of
  `prisma.ts` disconnects and exits without waiting for that of `server.ts`,
  which waits for the worker; which comes first is open, so the process may end between
  any two steps.  BullMQ finds the job stalled: once it runs again
  (`maxStalledCount` is 1 by default), then it is given up.

| Run | Shows |
| --- | --- |
| `RoomChat_safety` | `ChatTypeOK`; `RateHolds`: of 2 Max consecutive messages the last is a window later than the first - README.md:77 says "5 messages/sec", and the fixed window lets 9 = 2 Max - 1 into a span shorter than a second, never more; `FewLateMessages`: since a removal no more messages are stored than handlers were past the check; `ReaderMissesOnlyTies`: a client that enters the channel and reads page by page misses no message but those with the `createdAt` of a page's last one |
| `Maintenance_live` | `TypeOK`; `PassesComplete`: a plan's completed pass leaves no message older than its cutoff, whatever is sent or breaks off meanwhile; `NothingEarly`: no message goes sooner than its plan says; `RetentionKept`: an expired message is deleted some time |

Bounds.  `RoomChat_safety`: a window of two ticks with two messages, so four
messages can straddle a window's end; two activations; three messages of which two
may tie, pages of one, so that a page can end in a tie.  `Maintenance_live`: two
plans with different retention, one message from before the start and one that is
sent meanwhile, batches of one so that full batches occur, two mishaps with two
attempts so that a job is given up both ways, no reading client (the
product of both is out of TLC's reach; the proofs cover it: `Maintenance_proofs`
extends `RoomChat_proofs`).  `MaxTime`, `MaxSent`, `MaxMishaps` bound the clock,
the messages of a user and the errors; the safety proofs use none of them.
Deadlock is not checked: at these bounds the model rests.

Fairness: weak for `Schedule` (the scheduler brings the job back every six hours)
and for the worker's steps (an idle worker takes what waits, a query ends).  No
fairness of chat, of the clock, of failures or of restarts; mishaps are bounded,
since a database that always fails keeps nothing.

## 6. Proofs

`CollabRoom_proofs` proves, for any sets of users, sockets, texts and activations
(the bounds play no part in them):

- `TypeCorrect`: `TypeOK`, which is inductive thanks to its part `TaskOK` (a
  handler that waits knows its socket, and one about to install or write has its
  document).
- `EditorsAgree`: `ParticipantsAgree`, strengthened by `ChannelIsOpen` (a socket
  in the channel is open): without it a join of a closed socket could register one
  whose channel still holds an old document.
- `EditsKept`, `VersionsName`: `EditsAreKept` and `VersionNamesLatest`, by the
  invariant `EditsInv`.  Each needs the other (an accepted write is the latest
  because its version is), and two facts about loads: `LoadsAreCurrent` (a document
  that was read and is still the latest is the row's) and `NoRowYet`.
- `PresenceSwept`: `PresenceIsSwept`, inductive with `TypeOK`.
- `DocumentIsDurable`: `Spec => RefinesDurable`, by `TypeOK` and `EditsInv`.  While
  nothing is lost the loaded room has the latest edit, so whatever captures it
  captures the latest; a commit is a step of `DurableDocument` because a write that
  would go back is a loss (`reordered`), and `InstallRoom` and `Crash` settle because
  otherwise they are losses too.  From it and `RowIsMonotonic` of `DurableDocument`
  follows `StoredGoesForward`: the row never goes back.
- `ClientsNeverGoBack`: `Spec => ClientsGoForward`: what a client is sent is the
  latest edit (`SentIsLatest`), what it holds is no newer (`VersionNamesLatest`), and
  the latest only grows (`LatestGrows`).
- `EmptyRoomsLeave`: `EmptyIsLeaving`, inductive with `TypeOK`: only the last leave
  and the disconnect loop empty a room, and both go on to free it; a timer's write
  in between does not count, since nothing follows it.
- `QuietRoomsAreFreed`: `RoomsAreFreed`, from `PresenceIsSwept`, `EmptyIsLeaving` and
  `RegisteredIsOwn` (a socket is registered for its own user): a participant left
  when all is quiet would be ahead of a loop, an empty room on its way out.
- `QuietRoomsAreSaved`: when all is quiet the row has the last accepted edit, unless a
  loss or the deletion happened.  With the theorem before it this is README.md:69 and
  76 with the conditions under which they are true.

`DurableDocument` proves of itself `NothingIsLost` and `RowIsMonotonic`;
`SingleUseTokens` proves `EachTokenOnce`: of the requests that present a token one
has a grant at most, and a token that is gone never comes back, nor its grant.
What implements them inherits these (`StoredGoesForward`; `EachTokenOnce` of
`AuthSessions_proofs`).

`RoomMembership_proofs` proves, for any finite sets of users, rooms and requests and
any positive limits:

- `TypeCorrect`, `OwnersAreMembers`.
- `OwnedBounded`, `MembersBounded`, `JoinedBounded`, `InvitesBounded`: the excess
  bounds.  They are inductive as stated, since they count what has been inserted
  together with what has passed the check; `ExcessSteps` of `CountingLemmas` is the
  counting argument they have in common.
- `LockImplementsCap`: if `Endpoints` is at most `{"join"}`, `Spec => RefinesCapped`.
  The invariant: at most one request holds a room's lock (`OneHolder`), and a room
  with a request past the check still has a place (`HolderFits`).  Every step is
  then a step of `CappedRooms` or changes neither rooms nor memberships.
- `LockKeepsRoomsWithinPlan`: under the same condition no room ever exceeds
  `maxMembersPerRoom`.
- `NobodyStandsStill`: `NoStandstill`, by `OneHolder`: who holds a lock can go on or is
  in a cycle of two (`HolderIsNotStuck`), and without a holder only an insert waits,
  for one that does not.  The property is stated with `Blocked`, which is literally
  the negated guard of the steps that wait, and not with ENABLED.
- `SerialRequestsKeepLimits`: with one request at a time all three limits hold, so the
  comparisons of the code are right and what exceeds them is interleaving.

`AuthSessions_proofs` proves, for any accounts, browsers and limit and any finite
sets of tokens and requests:

- `TypeCorrect`; `SessionsBounded`, again by `ExcessSteps`: rows only disappear
  (`RowsShrink`) except by `CreateRow`, whose request was counted already.
- `HeldAreHashed`: `HeldIsHashed` is inductive with `TypeOK` and `Unborn` (nobody
  holds a token whose row is still to be inserted); `RowsKept` and
  `HandedOn` describe a step that keeps rows as they are and only hands on tokens that
  requests or browsers have.
- `TokensAreSingleUse`: `Spec => RefinesPromise`, each action a step of
  `SingleUseTokens` (`Redeem` redeems, `CreateRow` issues, deletes revoke, failures
  and crashes abandon grants) or a stutter.  `EachTokenOnce` carries over what
  `SingleUseTokens` guarantees.
- `SerialRequestsKeepLimit`: with one request at a time `maxActiveSessions` holds.
- `BrowsersStaySignedIn`: `StaysSignedIn`, strengthened by `Steady`: without a
  fault no request is at an alarm or refused, a browser has one request,
  which presents its cookie (`OneRequest`, `Presented`), a cookie is held exactly by
  the signed-in browsers, no two share one (`OneHolder`), and it is live or ended or
  being exchanged (`HeldGood`, `ComingGood`).

`RoomChat_proofs` proves, for any users, rooms, page size, `Max` and `Window`:

- `ChatTypeCorrect`.
- `RateIsLimited`, by `RateInv`: each message that passed belongs to a window
  (`WindowOK`), two messages k apart are in the same window with their numbers k
  apart or in windows at least one `Window` apart (`Follows`), and the map's entry is that of
  the last one; `RateHolds` follows without induction over the log.
- `LateMessagesAreFew`: inductive, since it counts those past the check too.
- `ReadersMissOnlyTies`, by `ReaderInv`: an activation about to emit names the room of its
  message, and there is no cursor before the first page.

`Maintenance_proofs` proves, on top of it, `TypeCorrect`, `PassesAreComplete` and
`NothingIsEarly`, by `RetentionInv`: the plans of a pass have a limit, its cutoff is
no later than its plan allows now, and no plan has been done with a time to come, so that
a message sent now is none the pass has missed.

Assumptions are the named `ASSUME`s of the modules: typing of the constants, `None`
outside the other sets, finiteness, positive limits.

Every invariant and action property of the passing runs is proved.  Only
model-checked: the liveness properties (`EditsReachTheRow`, `EmptyRoomUnloads`,
`RequestsEnd`, `RetentionKept`), which need fairness, and the violations.

## 7. Where the code and its README part

`PROJECT.json` "findings" has the quotes; four violation runs show them.

1. A join that outlives its socket leaves a ghost participant (room.handler.ts:65).
2. The last write can be overtaken by an older one (room-store.ts:62).
3. A room is freed although somebody has joined during its last write
   (room-store.ts:76).
4. Two concurrent loads install two objects (room-store.ts:35).
5. `maxRooms` is checked outside the transaction (room.service.ts:28).
6. `maxMembersPerRoom` is checked without a lock by two of three endpoints
   (room.service.ts:190).
7. `maxJoinedRooms` is checked under a lock that concurrent joins of other rooms do
   not share (room.service.ts:424).
8. A token that was ended by a logout or the session limit raises the reuse alarm,
   though it was never used (auth.service.ts:108).
9. A logout-all misses a refresh between its delete and its insert
   (auth.service.ts:150).

## 8. Not modelled

- Code execution: a stateless proxy, one HTTP request and a mapping of its answer.
- Health, configuration, logging, errors: I/O without state that later requests
  depend on; so are the reads of the room service, `getMe` and `authenticate`, and
  `room:cursor`, a relay.
- The rate limiters of Express: they refuse requests, and every behaviour with a
  refused request is one of the models without it.
- Of the schema, the cascade from a deleted room to its messages (a message of
  `RoomChat` disappears by retention only).  Of the life cycle, the order in which the
  listeners close.  What a removed member can still edit: no text of the repository
  says that removal ends a live session.
- The Redis adapter would matter for several processes; the README describes one.
- BullMQ's and PostgreSQL's insides: modelled as far as the code relies on them.
