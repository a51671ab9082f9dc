# Verification of the chat messages service

TLA+ models, TLC runs and TLAPS proofs about the Go service in `src/`: chat rooms and
messages over Connect-RPC, stored in PostgreSQL (or ScyllaDB), cached in Redis and streamed
to clients through NATS JetStream. Paths below are relative to the repository; `P` is
`repository/rooms/room_postgres_impl.go`, `C` `repository/rooms/room_cache.go`, `S`
`repository/rooms/room_scylladb_impl.go`, `H` `handlers/chat/v1/handler.go`.

## 1. Inventory

| Component | State it keeps | Operations | Module |
|---|---|---|---|
| Messages and receipts, SQL (`P`, `H`) | `room_message` (status, created_at, deleted_at), `room_message_meta` (one row per message and user, `read_at`), the `GetMessageSimple` cache | SendMessage, DeleteMessage, MarkMessagesAsRead, the fan-out `CreateMessageMetaForParticipants` | `MessageReceipts` |
| Room cache, Redis (`C`) | one entry per room, user and variant with an hour to live; a set per room that registers the entries; one lock per room and process | fill by GetRoom, invalidation `DeleteRoomCacheByRoomID`, sweep `UpdateRoomCacheWithNewMessage` | `RoomCache` |
| Synchronisation (`H`, `P`) | the client's `LastSyncTimestamp`, the rows' `updated_at`, `removed_at`, `deleted_at` | InitialSync: messages, changed rooms, rooms that are gone | `MessageSync`, `RoomSync` |
| Event stream (`H`, `events.go`, `helpers.go`, `init_stream.go`) | the stream CHAT_EVENTS, a durable consumer per client and subject, per session the map `roomsConsumers` of ConsumeContexts | publishChatEvent, StreamMessages, handleJetStreamMessage, subscribeAndConsume | `EventStream`, `Mailbox` |
| Rooms and membership, SQL (`P`, `H`) | `room`, `room_member` (role, removed_at, flags), cached views, the notification topic of a group | CreateRoom, UpdateRoom, LeaveRoom, DeleteRoom, AddParticipantToRoom, UpdateParticipantRoom, PinRoom, MuteRoom, BlockUser | `Rooms` |
| Rooms and messages, ScyllaDB (`S`) | denormalised tables `rooms_by_user`, `room_membership_lookup`, `participants_by_room`, `p2p_room_by_users`, `messages_by_room`, statuses and receipts, counters | the same interface, without transactions | `ScyllaRooms` |
| Lists and history page by page (`P`, `H`) | the client's place; what orders and counts the rows: `is_pinned`, the time stamps, the names, `room_message_meta` | GetRoomList, GetRoomParticipants, GetMessagesFromRoom, GetMessageRead, GetMessageReactions, against everything that changes their rows | `Paging` |
| Encryption (`utils/generateKeyEncript.go`) | none | GenerateKeyEncript, EncryptMessage, DecryptMessage | `Encryption` |
| Formatting, authentication, errors | none | pure functions | |
| Tokens, CLI, bootstrap, generated code | a token table; connections | one INSERT; start-up I/O | |

**How they interact.** A handler authenticates, usually calls `GetRoom` (which may answer from
the Redis cache), calls one repository operation, and then publishes events through the
dispatcher of the core library, whose five workers also run the fan-out of a message. A
repository operation commits first and touches the cache afterwards: membership, room and receipt
changes invalidate all entries of the room, a saved message is patched into them. A stream session
subscribes to the rooms the repository lists and to the user's own subject, and its callbacks call
`GetRoom` again. The repository is PostgreSQL's or, with `USE_SCYLLADB` (`H`:66), ScyllaDB's, which
asks PostgreSQL for the users.

**What is hard.** Nothing but a SQL transaction or a ScyllaDB batch is atomic. Fills,
invalidations and sweeps are several Redis commands each and have no lock in common; handlers
decide from a view that may be old; the fan-out races the readers for the same primary keys; time
stamps are taken at the start of a statement and become visible at its end; a row of
`rooms_by_user` is moved by reading its key in one table and rewriting two; the callbacks of a
session share a Go map without a lock, outlive the session, and acknowledge whatever happened;
process memory (the dispatcher's queue, locks, maps) is lost in a crash.

**What makes each component correct.**
Messages and receipts: a receipt is never lost; receipts, status and published updates agree; a
request covers what it had to; a missing row has a known cause; a fan-out ends.
Cache: entries nobody carried across an invalidation are current and registered; sweeps reach every
entry and give the lock back.
Synchronisation: a client that keeps syncing is not left behind for good, with a message, with a
room or with a room that is gone.
Stream: an event is given up only for a reason and does not come back; a context ends with its
session; a session follows the rooms of its user; redelivery gets events through.
Rooms: one open p2p room per pair; what was published about a member is what the table says;
the topic has those who did not mute it; a toggle toggles; nobody acts without the right to.
ScyllaDB: the tables agree, a room is listed once, what was read stays READ, a pair finds its room.
Paging: who reads all pages has all rows. Encryption: the server reads what was encrypted for it.

`PROJECT.json` lists under "hazards" each place where one of these could go wrong, with its line
and the properties that watch it.

## 2. Modules

Every module has the handlers of its component as actions, one per statement, command or
call that others can come between. Where the code gives no promise, because two requests
overlapped or a call failed half way, the module records it in a history variable (`suspect`,
`muddled`, `tangled`, `missed`, ...) at the very step where it happens, and the property speaks of
everything else: so each property is also the exact list of the ways in which the code can fall
short of it.

### `MessageReceipts` (runs `receipts`, `fanout`)

One room. A SQL transaction under READ COMMITTED is one action per reading statement and one
for its writes with the commit: `BeginSave`/`CommitSave`/`AbortSave` are SaveMessage,
`MarkSelectOlder`, `MarkSelectMeta` and `MarkCommit` the three phases of the transaction of
MarkMessagesAsRead. `MarkRequest` and `MarkAnnounce` are the handler before and after it, one
announcement per turn of its loop. `DispatchFanout`, `FanoutSnapshot` and `FanoutBatch` are the
fan-out: it reads the participants once and inserts batch after batch, all or nothing; an error
is printed and the loop goes on. `LoseFanout` is a crash or a GetMessage that fails after the
commit, `MarkAbort` any error of a request, before or after the commit. The column `read_at` and
the row's existence become `meta[m][u]` in `none`, `unread`, `read`. The handlers'
guard `GetRoom` may be answered from the cache, so a user who has left can still mark. A unique
violation is modelled at the commit of the request: PostgreSQL reports it at the INSERT, or makes
the INSERT wait for the other transaction, and in both cases nothing of the request remains. The
same goes for an id that is listed twice by one INSERT.

### `RoomCache` (runs `cache_invalidation`, `cache_sweeps`)

One room; every Redis command of `C` is an action, and every command may fail when `RedisFaults`.
The database is two counters, committed changes and committed messages, so that an entry is "as
of" a change and a message. `suspect` and `lagging` are history variables: the keys for which the
code gives no promise, because somebody held a value for them across an invalidation or a Redis
error interfered (`suspect`), or because a fill held a value without the latest message or a
sweep of an older message is on its way (`lagging`). The properties speak of all other keys.
A writer that finds the cache failing still reports success, as in the code.

### `Rooms` (run `rooms`)

The handlers of rooms and members, all running at once on one database. A request reads the room
through the cache (`Receive`, `Fill`), is checked (`May`), writes (`Toggle`, `UpdateRoom`,
`UpdateRole`, `AddReads`/`AddWrites`, `SelectMembers`/`RemoveMembers`, `CloseRoom`/`ClearRoom`,
`LookupPair`/`InsertRoom`), deletes the cached views (`Invalidate`, or `InvalidateFails`, which
is only printed) and tells the members and the topic (`TellCreated`, `TellAdded`, `TellSome`,
`TellUpdated`, `Unsubscribe`, `TellLeft`). UpdateRoom reads the room again before it publishes
(`Reread`). `Fails` is an error or a crash anywhere: nothing is undone and nothing more is told.
A cached view is what GetRoom found for one user, under its full or its shim key; the commands
behind it are `RoomCache`. `room.perms` are the three permissions of a group; a member's
flags are the pin, the mute and the block. Details kept as they are in the code: LeaveRoom of a
group with LeaveAll leaves the room without members but alive; the UPDATE that brings removed
members back brings back every participant of the request that has a row by then and keeps role
and flags; AddParticipantToRoom subscribes everybody it names to the topic, muted or not, and
MuteRoom on a cached view that outlived the membership (the invalidation of LeaveRoom failed)
subscribes somebody who is no member, since its UPDATE does not ask for `removed_at` (both
`misjoined`); CreateRoom of a group of nobody but its owner fails; an UpdateRoom that finds no room
any more ends there. `muddled`, `misjoined`, `twins`, a request's `raced` and `doubt` and an entry's
`suspect` are history: the users, pairs, requests and views for which the code gives no promise.

### `MessageSync` (run `sync_catches_up`) and `RoomSync` (run `room_sync`)

One client that calls InitialSync with the timestamp it was given last, against writes that take
their stamp first and commit later. Time is ticks, the returned timestamp is cut to whole seconds
(`H`:1041). `MessageSync` has the messages: saves, edits, reactions and deletions, `MessagesPerRoom`
(which keeps the newest rows), joins and departures. `RoomSync` has the two lists of rooms, which
are two queries with other requests in between, and the statements behind them: creation,
UpdateRoom, the user's own row (mute, block, role), LeaveRoom, the return of a removed member, which
clears `removed_at` and stamps nothing, PinRoom, which stamps nothing either, and DeleteRoom. The
client takes in the changed rooms and then drops those that are gone. `missed` is history in both:
commits with a stamp the timestamp had passed, rooms joined later, rows past the limit, and the
two changes without a stamp. Server and database share a clock.

### `EventStream` and `Mailbox` (runs `stream`, `stream_delivers`)

One client of one user. `Publish` is a dispatcher worker appending to the stream (any order);
a durable consumer keeps what is still to deliver and what is delivered without acknowledgement.
`Open` (with GetRoomList), `SubscribeDirect`, `SubscribeRoom`, `Activate`, `Disconnect` and `Close`
are StreamMessages; `Take` gives an event to a ConsumeContext, and `SkipForeign` ... `HandleLeave`
and `Ack` are the callback, which for a RoomJoin looks up the room and creates the durable
(`HandleJoin`), then starts the context and stores it (`ConsumeForJoin`), each interleaved with the
session. `mapped` holds the map `roomsConsumers` of each session, also of one that has ended and
that callbacks still hold. Stop of a running context lets its callback go on. `AckWait` is the
server's redelivery, `Expire` and the limit in `Publish` are MaxAge and MaxMsgsPerSubject, `Crash`
is the end of the process. `astray` is history: rooms the running session has a reason not to
follow (the client asked for one room only, the RoomJoin came before the consumer of the user's
subject existed, a subscription failed). JetStream, the dispatcher and the stream manager are
outside `src/` and are modelled from how `H` uses them. Left out: payloads that do not decode, the
15-second Connected event, two sessions at a time with the same client id.

`Mailbox` is the abstract specification of what a client may count on: an event that is published
waits, is sent or given up, is settled after either, may expire, and never waits again.
`EventStream` implements it with `published` as the events of the log, `waiting` as the events that
some durable holds, ready or delivered, `foreign` as other people's SENT updates, and `sent` and
`unsent` as themselves; sessions, contexts, maps and crashes disappear.

### `ScyllaRooms` (runs `scylla`, `scylla_pair`)

The tables of `migrations/cassandra/0001_init.cql` that repeat each other. A user's room is a row
of `rooms_by_user` with its key in `room_membership_lookup`; `Find`, `CopyRow`, `MoveRow` are the
read-read-batch of PinRoom and of the loop of SaveMessage (whose errors are only printed),
`SetColumn` that of MuteRoom and UpdateParticipantRoom, `DropRow`, `Strike`, `Erase` LeaveRoom and
DeleteRoom, `LookupPair`/`CreatePair` CreateRoom. A batch is applied as a whole with one write
timestamp, so that a DELETE and an INSERT of the same key leave nothing (`Relist`), and an UPDATE of
a row that is gone makes one with nothing else in it. As in the code: GetRoom never asks whether
the user is a member; of the users an AddParticipantToRoom names only one is added (the user query
has LIMIT 1); MarkMessagesAsRead writes the receipts and then always returns an error, because it
sets a counter; `p2p_room_by_users` is written by CreateRoom and by nothing else. `Gone` is the room
of a message that DeleteRoom has deleted: its id is not drawn again. `Begun` is what a first state
has of a room that CreateRoom made before.

### `Paging` and `Encryption` (run `paging`)

`Paging` is a client that reads one of five lists of the SQL repository page by page, with a query
for the page (`Fetch`) and one for the total (`Count`), and a history also by the last message of
the page before. `Query` says what can happen to the rows of each list meanwhile, one row at a
time: a row enters (`Enter`), anywhere, because time stamps are taken at the start of a
transaction and a list by "since" or a filter takes in what changed; it leaves (`Leave`: a member
removed, a message deleted, a reaction taken back), and a member or their rooms and messages come
back (`Return`); `PinRoom` toggles the first column of the room list's ORDER BY, so that an unpin moves
a room down (nothing ever writes the second, `lastMessageAt`); a participant is renamed
(`Rename`). `CountMessage` is the fan-out: until it has made the row of `room_message_meta`, the
page of a history contains a message (a LEFT JOIN, `P`:1760) that its total does not (an INNER JOIN,
`P`:1993), unless it is the user's own. The ORDER BY decides what is open: rows that it leaves equal
come in any order, in every query anew. `moved`, `loose` and `short` are history: the rows that came,
left or moved themselves; those that another row, leaving or moving back from a page the client had,
pulled forward, and those with an equal; and whether a total that left out messages ended the walk
before the list's end.

`Encryption` has pure operators that return the set of outcomes of a call,
value, error or panic; ciphers are external, so decrypting with another key may give any bytes.

## 3. Runs, bounds and what they show

| Run | Instance | Shows |
|---|---|---|
| `receipts` | 2 messages, 2 users, 1 request | a request with an older message to find, against deletes, fan-outs, errors and membership: `MarkedCovers`, `ReceiptImpliesStatus`, `AnnouncedAreRead` |
| `fanout` | 1 message, 4 users, 1 request, batches of 2 | the sender and recipients in two batches, a reader faster or slower than each: `ReceiptsNeverLost`, `MissingRowsExplained`, and `FanoutEnds` under fairness |
| `cache_invalidation` | 2 keys, 1 fill, 2 invalidations, 1 sweep, faults | `FreshUnlessSuspect`, `LastMessageCurrent` |
| `cache_sweeps` | 2 keys, 1 fill, 2 saves of one process, faults, late rows | `LastMessageCurrent`, `SweepExclusive`, and `SavesEnd` under fairness |
| `rooms` | 2 users, 2 room ids, 2 requests at once of every kind, faults, cold or warm caches | `PairHasOneRoom`, `MembersWereTold`, `TopicFollowsMutes`, `ActsWithinRights`, `TogglesTurn` |
| `sync_catches_up` | 2 messages, 2 writes in flight, 1 message per reply, 2 seconds of 2 ticks | `SyncCatchesUp` |
| `room_sync` | 1 room, 2 writes in flight, 2 seconds of 2 ticks, 3 versions | `RoomsCatchUp`, `RemovalsCatchUp` |
| `stream` | 1 room, 2 events, 3 contexts, 2 sessions, 1 event retained | `OnlyOrphansOutlive`, `FollowsItsRooms`, `GivenUpForAReason`, and `IsMailbox`, the refinement |
| `stream_delivers` | 1 event, 3 contexts, 3 sessions | `EventsGetThrough` under fairness |
| `scylla` | 2 users, 2 rooms, 1 message, 2 requests at once of every kind | `ListedOnce`, `TablesAgree`, `ReadStaysRead`, `PairIsFound` |
| `scylla_pair` | one request | violated, see 4 |
| `paging` | 3 rows at 3 places of the order, pages of 1 or 2, 2 changes, all five lists, any rooms pinned and any messages not yet counted at first; messages of up to 3 bytes in blocks of 2 | `NothingSkipped`, `CursorHasNoHoles`, `WalkEnds` under fairness, and the assumption `RoundTrip` |

Why the bounds are enough: a message is affected by another only through "older than", so two
do; a batch goes wrong when a second recipient shares it, and the loop has to go on after it, so
a sender, three recipients and batches of two do; several requests of one user at once are covered
for any number by the theorems of section 5. Cache keys meet only in the lists of commands, so two
show one reached and one not; two invalidations suffice for one to be the stale reader of the
other. Room requests meet in pairs, on a member, a view or a pair of users, and the initial states
contain what earlier requests leave (a room of either type, warm caches, a member who muted a group
and left it with both views still cached); two room ids show the second room of a pair, and section
5 proves the same properties for any number of requests. A message that is
cut by a limit needs one rival. A room sync needs one room, since rooms only share the timestamp. A
leaked context needs one context for the user's subject, one of the callback and one of the loop,
hence three; two sessions let a callback of the first meet the second; one room, because contexts
of different rooms meet in nothing but the callback of the user's subject, which handles one event
at a time. Three rows make two pages and a boundary that a departure, an unpin or a tie can cross,
and section 5 has any number of them and of changes. Every counter is bounded by a constant in a
guard: `MaxChanges`, `MaxMessages`, `MaxRequests`, `MaxTime`, `MaxVersion`, `MaxEvents`,
`MaxContexts`, `MaxSessions`, `MaxLimit`, and in `MessageReceipts` the sets themselves (a message
is sent once, a request is made once). Where a run switches the deadlock check off, the system
stops when its bounded clients have asked all they may. Symmetry is used only in runs without a
liveness property.

**Fairness.** `WorkersFair`: a dispatched fan-out keeps running, because the dispatcher's workers
take every queued event and the loop over the batches has no other exit; losing it stays
possible. `SavesFair`: a goroutine that waits for the room mutex gets it when it is free (one at a
time in a process, and every save holds it for a bounded number of commands) and a sweep goes on.
`DeliveryFair`: a running context takes the next event, a callback goes on to its end, the server
redelivers after its AckWait. In `Paging` a query that was sent returns and the client asks for the
page that follows; it is the client's loop that `WalkEnds` is about, and the changes of the
list are bounded. Nothing else is assumed of clients, of deletes, of faults or of crashes.

## 4. Findings

`PairCanMeetAgain` (run `scylla_pair`): in ScyllaDB, LeaveRoom of a p2p room deletes the room, and
`p2p_room_by_users` still leads to it. CreateRoom for the same two users finds that row, GetRoom
finds no room and returns neither a room nor an error, and the handler dereferences it (`S`:1193;
the documentation of DeleteRoom calls it a complete deletion).

What the properties except is what the code does not prevent. The exceptions that a reader of the
code should know:
a reader faster than the fan-out makes the INSERT of a whole batch fail, and its other recipients
never get a row (`P`:2747);
a GetRoom that read before a change and writes after its invalidation leaves the old room cached,
with no error anywhere (`P`:425);
a write that starts before a sync and commits after its query is never sent to that client
(`H`:1013), nor is a pin or a return to a room (`P`:956, `P`:1157);
the callback of a RoomJoin may start its context after the session stopped its contexts, and it
then consumes and acknowledges events with nobody to send them to (`H`:1462);
two CreateRoom of a pair that overlap make two rooms (`P`:29, `S`:34);
a room unpinned, or a row gone, from a page the client has read makes the next page skip one
(`P`:481, `P`:956), and a message saved while its history is read by pages makes the total one short, so
that the client does not ask for the last page (`P`:1993);
a ScyllaDB message or pin that moves a row to the key it already has deletes it (`S`:1232).

## 5. Proofs

`MessageReceiptsProofs` proves for every set of users, messages and requests and every batch size,
assuming only `ReceiptsAssumption` (the batch size is positive, `NoUser` is no user):

| Theorem | Statement |
|---|---|
| `TypeCorrect` | `Spec => []TypeOK` |
| `InvariantCorrect` | `Spec => []IInv` |
| `ReceiptsAreNeverLost` | `Spec => ReceiptsNeverLost` |
| `ReceiptsImplyStatus` | `Spec => []ReceiptImpliesStatus` |
| `MissingRowsAreExplained` | `Spec => []MissingRowsExplained` |
| `MarkedAreCovered` | `Spec => []MarkedCovers` |
| `AnnouncedAreReadAlways` | `Spec => []AnnouncedAreRead` |

The argument. `MetaStep` says what any step can do to a row: make an absent one, or make an unread
one read. `ReceiptsNeverLost` follows from it at once. The other properties are not inductive: a
request acts on sets it selected several steps earlier, and a fan-out on participants it read long
before. `IInv` therefore adds

- `NoEarlyRows`: no row of a message exists before its commit;
- `FanoutShape`: the recipients that are left belong to the audience, which leaves out the sender,
  and a fan-out that has ended has nobody left;
- `UnreadFromFanout`: an unread row was made by a fan-out that has tried its user;
- `TriedExplained`: a user whose batch has been tried has a row, or is in a batch that failed for a
  reason the property accepts;
- `RequestSets` and `RequestCovers`: between its statements a request's sets are what the statements
  returned, and what they left out has been read already; receipts never going back keeps
  this true while others run.

`RowStep`, `MetaStep`, `FanoutCases` and `RequestCases` reduce every step to its effect on one
variable, and each part of `IInv` has one lemma with a case per kind of step. `MarkedCovers` then
follows from `RequestCovers`, `MissingRowsExplained` from `TriedExplained`.

`PagingAndEncryptionProofs` has the proofs of both components of `MCPaging`, which share no state.
It proves about `Paging`, for every list, page size, number of rows and of changes, assuming only
`PagingAssumption` (the list is finite, and the pages of it stay below the number of values of a
uint32):

| Theorem | Statement |
|---|---|
| `TypeCorrect` | `Spec => []TypeOK` |
| `Invariance` | `Spec => []IInv` |
| `SkipsNothing` | `Spec => []NothingSkipped` |
| `CursorComplete` | `Spec => []CursorHasNoHoles` |

The argument. The properties speak of the end of a walk, so `IInv` says of every moment what the
client will still come to. `OffsetShape`: a row that it has not got, and that is not `moved` or
`loose`, has at least as many rows before it (`Ahead`) as the pages it has read hold (`Reached`).
`Changed` says what the five kinds of change have in common: every other row is where it was.
So the rows before it get fewer only if one of them left or moved behind it (`ChangeKeeps`): if that
one was on a page the client had, the row is `loose`; if not, the rows before that one alone are
enough, and they are still before the row, since the order is transitive (`PartialOrder`). The row's
place on a page is their number, since it has no equal (`PlaceOf`, by counting); and when `TotalPages`
says stop, there would have to be more rows before it than there are rows (`PagesHold`), unless
messages were not counted, which is `short`. `CursorShape`: such a message is older than the cursor,
and while there is one a page is full. `ListShape` adds that only what has been in the list has a
rank, so that a newcomer ties with nobody, and that only rooms are pinned; `TypeOK` bounds the pages
that are asked for by those the list can have, so that `Offset` does not wrap (`Numbers`).

The same module proves about `Encryption`, for every block size that fits into a byte and every set
of messages, keys and ivs, assuming `EncryptionAssumption`:

| Theorem | Statement |
|---|---|
| `ServerReadsWhatIsSent` | `RoundTrip`: what a client encrypts with the EncryptionData of a room is what SendMessage decrypts and stores, for every message that is not empty, every usable key and iv of the room and of the configuration |

The argument. `PaddingIsWhole`: a padded message is a whole number of blocks, its last byte is the
number of bytes added, and that fits into a byte; `RightKeyDecrypts`: with the key and the iv it was
encrypted with a ciphertext has one decryption, so that `pkcs7Unpadding` cuts what
`pkcs7Padding` added; `SealOpens`: the EncryptionData opens under the configuration it was sealed
with. `Encrypts` and `Decrypts` put them together for the two calls.

`EventStreamProofs` proves for every set of rooms and every number of events, contexts and
sessions and every limit per subject, assuming only `StreamAssumption` (the
bounds are natural numbers, the limit is positive, the user's subject is no room and `Nothing` is
none of these):

| Theorem | Statement |
|---|---|
| `TypeCorrect` | `Spec => []TypeOK` |
| `Invariance` | `Spec => []IInv` |
| `Implements` | `Spec => IsMailbox`: the stream, its consumers and the callbacks of all sessions implement `Mailbox` |
| `Reasons` | `Spec => GivenUpForAReason` |
| `Outlive` | `Spec => []OnlyOrphansOutlive` |
| `Follows` | `Spec => []FollowsItsRooms` |

The argument. A step of the mailbox is only right if the callback's event is what the consumers
hold for it. `IInv` therefore adds to the types

- `EventShape`: an event that was dispatched is about a room, and is published once;
- `DurableShape`: a consumer holds published events of its own subject, and holds none both as ready
  and as given out, so that what leaves it at the limit, by age or by acknowledgement leaves
  `Waiting`;
- `ContextShape`: a callback runs for a published event of its context's subject, and comes to
  the acknowledgement only when the event was sent, given up or is foreign (`Settle`'s guard).

`TypeStep` has a case per action. The other parts and the mailbox's step are proved together, by
lemmas for what dispatches, what publishes, the steps of the session, those that move an event
between the sets of a consumer, and those of a callback; the steps that the mailbox does not notice
share `QuietStep`. `Implements` follows with `InitMailbox`, and `Reasons` from the cases of
`Mailbox`'s Next, not of EventStream's. For `Outlive`, `NumberShape` says that contexts are numbered
by sessions that have begun, by earlier ones until the running one has subscribed its own subject,
and that the maps of later sessions are empty: without it the first context of a session could
replace a live one that no map has any more. `PutMap` is the step in which the loop and a callback
race for an entry.

`FollowsItsRooms` speaks of a session at rest only, and its proof of every state on the way. A room
is `Good` when the session has it in its map, has it still to subscribe, or has a reason not to
follow it. `FInv` adds to `MInv`

- `RoomsShape`: a room of the user is `Good`, or its RoomJoin is on its way (not published, or held
  by a consumer) or was given up; at rest the user's own consumer holds nothing, so that only the
  lost RoomJoin is left;
- `SentShape`, `HandledShape`, `MembersShape`: a RoomJoin that was sent, that a callback is past
  subscribing for, or that a context of an earlier session handles, is of a `Good` room; and a room
  that was joined is the user's or was left. They cover a RoomJoin that leaves its consumer because
  it was sent, the late callback of a session that has ended, and a new session, which lists
  `members` and never sees what was acknowledged before;
- `MapShape`, `PlaceShape`, `SessionShape`: a context has at most one place in the maps, the one of
  its session and subject, so that Stop and Close hit no other; no callback replaces the context of
  the user's own subject; and a session past `direct` has that context and its consumer.

What the consumers drop is not looked at again: `ReasonStep`, from the refinement, says that a
RoomJoin stops waiting only when it was sent or given up. `Follow` is what every step does to the
rest, with one `...Follow` lemma per kind of step.

`RoomCacheProofs` proves for every set of cache keys, fills, invalidations, sweeps and locks of
processes, with and without Redis faults, assuming only `RoomCacheAssumption`:

| Theorem | Statement |
|---|---|
| `TypeCorrect` | `Spec => []TypeOK` |
| `Invariance` | `Spec => []IInv` |
| `SweepsExclude` | `Spec => []SweepExclusive` |
| `FreshAlways` | `Spec => []FreshUnlessSuspect` |
| `LastMessageAlways` | `Spec => []LastMessageCurrent` |

The argument. `SweepExclusive` follows from `LockHeld`: a working sweep holds the lock of its
process. The two properties of the entries speak of what is cached, and what is cached was read
earlier, by a fill or a sweep that may hold it for a while. So `Fresh(k)` says of a key that is not
suspect: while nobody invalidates, its entry and every value held for it are current, and the
registry lists it or is about to (`Quiet`); while somebody does, nobody holds a value for it, and
its entry is listed for those invalidations that are still to read the registry or to delete what
they read (`Found`). `Swept(k)` says of a key that is not lagging that no older message of it is held
or about to be swept in, and that its entry has the latest message or the sweep of that is still to
come. `Track` is the common cause of suspicion: `TrackedSuspect` and `TrackedLagging` say what a key
needs so that it is not recorded after a step.

`RoomsProofs` proves for every set of users, room ids, callers and granted permissions and every
number of requests, assuming only `RoomsAssumption`:

| Theorem | Statement |
|---|---|
| `TypeCorrect` | `Spec => []TypeOK` |
| `Invariance` | `Spec => []IInv` |
| `PairsHaveOneRoom` | `Spec => []PairHasOneRoom` |
| `MembersAreTold` | `Spec => []MembersWereTold` |
| `TopicsFollowMutes` | `Spec => []TopicFollowsMutes` |
| `HandlersActWithinRights` | `Spec => []ActsWithinRights` |
| `TogglesAlwaysTurn` | `Spec => TogglesTurn` |

The argument. A handler decides on what it read and changes rows much later. `IInv` adds

- `CallShape`: which steps each operation takes, and that a request about to act has passed `May`;
- `CallCurrent`, `CacheCurrent`: a handler's view, and a cached one, without an excuse (raced, from a
  suspect or a doubtful entry; suspect, about to be deleted) is what the database would answer now;
- `PairLeft`, `StillNone`: a p2p room that is being left has no members but those selected, and a
  CreateRoom that found no room of its pair still finds none;
- `Decided(c, u)` for users who are not muddled: what an add, a leave, a toggle or a create has
  decided about `u` is what the row of `u` still says;
- `Told(r, u)` and `Follows(r, u)`: the last event and the topic match the row of `u` unless a
  request that `Announces` or `Subscribes` the difference is still on its way.

`OthersKeep`, `ClearKeeps` and `Quiet` reduce the steps of one request, and `CommitStep` the commits
that change rows, to what they do to that request; there is one `...Keeps` lemma per action.
`ActsWithinRights` then follows from `CallCurrent` and `CallShape`, `MembersWereTold` and
`TopicFollowsMutes` from `Told` and `Follows` when nobody is busy, and `TogglesTurn` from
`ToggleForm`. The attempt to prove `TopicFollowsMutes` showed that the run with two requests was too
short for it: the third, MuteRoom on a view that outlived a membership, is now in the model
(`misjoined`) and, by the initial states, in the run.

`MessageSyncProofs` and `RoomSyncProofs` prove for every set of rooms, messages and writers, every
page size and every resolution of the clock, assuming only `SyncAssumption` and `RoomSyncAssumption`
(the bounds are natural numbers; in `RoomSync`, whose rooms exist at first, time reaches a whole
second and rooms a first version):

| Theorem | Statement |
|---|---|
| `TypeCorrect` (in each) | `Spec => []TypeOK` |
| `Invariance` (in each) | `Spec => []IInv` |
| `CatchesUp` (in `MessageSyncProofs`) | `Spec => []SyncCatchesUp` |
| `RoomsCaughtUp`, `RemovalsCaughtUp` (in `RoomSyncProofs`) | `Spec => []RoomsCatchUp`, `Spec => []RemovalsCatchUp` |

The argument. The properties compare the client with the database across a call of InitialSync, whose
timestamp was taken before its queries. The invariants therefore say of a call in flight what its
reply will do: `ReplyCatchesUp` in `MessageSync` (a message that is selected and has changed since,
or that is not selected and was not cut, changed after the timestamp the reply brings) and, in
`RoomSync`, the last part of `Catches(r)`, where `Merged` is what the client will show of the room
with the two lists of the reply, of which the second is read after other requests. `TimeShape` (and
`Behind`) says that timestamps do not run ahead of the clock and do not go back, `ClosedAfterLeft`
that DeleteRoom comes after the user has left.

`ScyllaRoomsProofs` proves for every set of users, rooms, messages and callers, every number of
requests and every bound of the clock, assuming only `ScyllaRoomsAssumption` (user ids are positive,
the clock can tick, `NoRoom`, `NoMessage` and `Gone` are none of the ids):

| Theorem | Statement |
|---|---|
| `TypeCorrect` | `Spec => []TypeOK` |
| `Invariance` | `Spec => []IInv` |
| `OnceInTheList` | `Spec => []ListedOnce` |
| `BothTablesAgree` | `Spec => []TablesAgree` |
| `ReadIsKept` | `Spec => []ReadStaysRead` |
| `PairFinds` | `Spec => []PairIsFound` |

The argument. Nothing here is atomic but a batch, and every batch writes what an earlier query
found. Neither `ListedOnce` nor `TablesAgree` is inductive: a batch that deletes one row and inserts
another keeps them only if there was one row, with the right role and mute, and a member whose row
is deleted before their place among the participants would be an exception that nobody explains.
`IInv` adds

- `Kept(u, r)`: a membership that is not tangled has all its rows under the key of the lookup table,
  with the role and mute of `participants_by_room`; a participant without a row is one whom a request
  that has not ended is removing;
- `CallShape`, `TableShape`, `FreshShape`: the steps each operation takes and what it has read by
  then; nothing is half there; nobody has a room that CreateRoom has not made;
- `ReadsKept`: the user of a status that a SaveMessage has yet to write has no receipt of the message,
  or overtook it;
- `Paired`, `StillNone`: only two users ever had a p2p room, or were about to be written into it, and
  they are led to it; a CreateRoom that found no room of its pair still finds none; each unless two of
  them overlapped.

`RoomStep` and `MemberStep` say what a batch may change (the rows of one room, of one member) so that
every other membership is still `Kept`; each action has one `...Keeps` lemma that comes down to one of
these, to `Quiet` (a step of the request alone) or to `NewRoom` (CreateRoom).

Only model-checked: the liveness properties (`FanoutEnds`, `SavesEnd`, `EventsGetThrough`,
`WalkEnds`), which the prover does not reach.

## 6. Not modelled

Tokens: one INSERT of a device token that nothing else here reads. Authentication and error
helpers, formatting (`format.go`, FormatRoom), the LIKE pattern of a search: stateless and only
displayed. Bootstrap, connections, migrations and the command line client: start-up and terminal
I/O. Generated code: the messages appear as records of the modules that handle them. In
ScyllaDB: reactions, edits and deletions of messages (single rows that no other table repeats),
counters (their reset always fails, and `MarkAsRead` says so), addAllSystemUsersToChannel (its
only call is switched off by a constant), BlockUser (the handler dereferences the partner, `H`:661,
which GetRoom without allData leaves nil there, before any UPDATE) and the lists (participants, history,
reads and reactions return the first Limit rows whatever Page says; the room list cuts a window out of
the whole list, but returns no number of pages). The unread count of a room: a sub-select that is only
displayed. GetMessageRead is modelled as it is written; its queries compare `room_message_meta.deleted_at`
(`P`:2406, `P`:2439), a column that `migrations/postgres/0001_init.sql` does not create, so with that schema
alone they fail. The notification service is an external subscriber set (`topic` in `Rooms`). Wrap-around
of `(Page - 1) * Limit` in a uint32 is in `Offset`; `PagingAssumption` keeps the instance
and the proofs below it: beyond it a list starts again near its beginning.

## 7. Plan

1. `EventStream` with two clients of one user, and two rooms.
2. The unread count, as a definition over the rows of `MessageReceipts` that the cache carries.
