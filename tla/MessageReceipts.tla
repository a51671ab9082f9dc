--------------------------- MODULE MessageReceipts ---------------------------
(***************************************************************************)
(* The life of a message in one room of the SQL repository: the SaveMessage *)
(* transaction, the asynchronous fan-out that gives every participant a     *)
(* room_message_meta row, the MarkMessagesAsRead transaction that fills     *)
(* read_at, and soft deletion, all running concurrently under READ          *)
(* COMMITTED.  A transaction's writes become visible at its commit, so a    *)
(* transaction is one action per statement that reads and one for the       *)
(* writes with the commit.                                                  *)
(*                                                                          *)
(* Every user has been a member of the room: GetRoom, which guards the      *)
(* handlers, may answer from the room cache, so a participant who has left  *)
(* can still get past it.  Only the fan-out reads room_member itself.       *)
(***************************************************************************)
EXTENDS Naturals, FiniteSets

CONSTANTS Users,      \* the users that are or were members of the room
          Messages,   \* the messages that may be sent
          Callers,    \* the MarkMessagesAsRead requests that may be made
          BatchSize,  \* rows per INSERT of the fan-out (100 in the code)
          NoUser      \* the sender of a message that is not begun

ASSUME ReceiptsAssumption ==
  /\ BatchSize \in Nat \ {0}
  /\ NoUser \notin Users

VARIABLES
  members,    \* room_member rows whose removed_at is NULL
  clock,      \* the last value NOW() had; it grows with every transaction
  row,        \* room_message: where the row of a message is in its life
  sender,     \* room_message.sender_id
  created,    \* room_message.created_at: NOW(), the start of the transaction
  status,     \* room_message.status
  meta,       \* room_message_meta: no row, read_at NULL, or read_at set
  simple,     \* message ids in the GetMessageSimple cache
  fanout,     \* the dispatched CreateMessageMetaForParticipants of a message
  call,       \* the MarkMessagesAsRead requests
  announced   \* <<m, u>>: a READ StatusUpdate of u for m was dispatched

store == <<members, clock, row, sender, created, simple>>
vars  == <<members, clock, row, sender, created, status, meta, simple,
           fanout, call, announced>>
------------------------------------------------------------------------------
RowState  == {"none", "open", "aborted", "saved", "deleted"}
MetaState == {"none", "unread", "read"}

\* A fan-out: pending until SendMessage dispatches it, queued in the
\* dispatcher, inserting batches, and then ended.  The batches whose error was
\* printed and skipped are "failed" when the INSERT met an existing row; "broken"
\* is the users of those that met any other error.
FanoutPc == {"idle", "pending", "queued", "inserting", "done", "lost", "error"}
Fanout   == [pc : FanoutPc, audience : SUBSET Users, todo : SUBSET Users,
             failed : SUBSET (SUBSET Users), broken : SUBSET Users]
NoFanout == [pc |-> "idle", audience |-> {}, todo |-> {}, failed |-> {},
             broken |-> {}]

\* A MarkMessagesAsRead request: "listed" is the ids the client sent, "ids" what
\* the transaction works on and "twice" those the slice of ids holds twice.
\* "visible", the messages committed when it looked for the older ones, is kept
\* for the properties: the code does not store it.
CallPc == {"idle", "older", "meta", "write", "announce", "ok", "err"}
Call   == [pc : CallPc, user : Users \cup {NoUser}, since : Nat,
           listed : SUBSET Messages, ids : SUBSET Messages,
           twice : SUBSET Messages, update : SUBSET Messages, create : SUBSET Messages,
           left : SUBSET Messages, visible : SUBSET Messages]
NoCall == [pc |-> "idle", user |-> NoUser, since |-> 0, listed |-> {},
           ids |-> {}, twice |-> {}, update |-> {}, create |-> {},
           left |-> {}, visible |-> {}]

Committed == {m \in Messages : row[m] \in {"saved", "deleted"}}

\* GetMessageSimple: a hit in its own cache, or a row that is not deleted.
FoundSimple(m) == m \in simple \/ row[m] = "saved"

Init ==
  /\ members = Users
  /\ clock = 0
  /\ row = [m \in Messages |-> "none"]
  /\ sender = [m \in Messages |-> NoUser]
  /\ created = [m \in Messages |-> 0]
  /\ status = [m \in Messages |-> "SENT"]
  /\ meta = [m \in Messages |-> [u \in Users |-> "none"]]
  /\ simple = {}
  /\ fanout = [m \in Messages |-> NoFanout]
  /\ call = [c \in Callers |-> NoCall]
  /\ announced = {}
------------------------------------------------------------------------------
(* Membership: LeaveRoom sets removed_at, AddParticipantToRoom clears it.   *)

Leave(u) ==
  /\ u \in members
  /\ members' = members \ {u}
  /\ UNCHANGED <<clock, row, sender, created, status, meta, simple, fanout,
                 call, announced>>

Join(u) ==
  /\ u \in Users \ members
  /\ members' = members \cup {u}
  /\ UNCHANGED <<clock, row, sender, created, status, meta, simple, fanout,
                 call, announced>>
------------------------------------------------------------------------------
(* SaveMessage.                                                             *)

BeginSave(u, m) ==
  /\ row[m] = "none"
  /\ clock' = clock + 1
  /\ row' = [row EXCEPT ![m] = "open"]
  /\ sender' = [sender EXCEPT ![m] = u]
  /\ created' = [created EXCEPT ![m] = clock + 1]
  /\ UNCHANGED <<members, status, meta, simple, fanout, call, announced>>

\* The message, with status SENT, and the sender's own row appear together.
CommitSave(m) ==
  /\ row[m] = "open"
  /\ row' = [row EXCEPT ![m] = "saved"]
  /\ meta' = [meta EXCEPT ![m][sender[m]] = "read"]
  /\ fanout' = [fanout EXCEPT ![m].pc = "pending"]
  /\ UNCHANGED <<members, clock, sender, created, status, simple, call,
                 announced>>

AbortSave(m) ==
  /\ row[m] = "open"
  /\ row' = [row EXCEPT ![m] = "aborted"]
  /\ UNCHANGED <<members, clock, sender, created, status, meta, simple,
                 fanout, call, announced>>

\* DeleteMessage: one UPDATE of the rows the client lists.
DeleteMessage(S) ==
  /\ S # {}
  /\ \A m \in S : row[m] = "saved"
  /\ row' = [m \in Messages |-> IF m \in S THEN "deleted" ELSE row[m]]
  /\ UNCHANGED <<members, clock, sender, created, status, meta, simple,
                 fanout, call, announced>>

\* The one-hour TTL of a GetMessageSimple entry; nothing else removes it.
ExpireSimple(m) ==
  /\ m \in simple
  /\ simple' = simple \ {m}
  /\ UNCHANGED <<members, clock, row, sender, created, status, meta, fanout,
                 call, announced>>
------------------------------------------------------------------------------
(* CreateMessageMetaForParticipants, run by the event dispatcher.           *)

DispatchFanout(m) ==
  /\ fanout[m].pc = "pending"
  /\ fanout' = [fanout EXCEPT ![m].pc = "queued"]
  /\ UNCHANGED <<store, status, meta, call, announced>>

\* GetMessage fails after the commit, or the process stops: the dispatcher's
\* queue is in memory.
LoseFanout(m) ==
  /\ fanout[m].pc \in {"pending", "queued", "inserting"}
  /\ fanout' = [fanout EXCEPT ![m].pc = "lost"]
  /\ UNCHANGED <<store, status, meta, call, announced>>

\* Mutant: the sender is not left out.
RecipientsWithSender(m) == members

\* Who gets a row: the participants at this moment, without the sender.
Recipients(m) == members \ {sender[m]}

FanoutSnapshot(m) ==
  /\ fanout[m].pc = "queued"
  /\ fanout' = [fanout EXCEPT ![m] =
        [pc |-> IF Recipients(m) = {} THEN "done" ELSE "inserting",
         audience |-> Recipients(m), todo |-> Recipients(m), failed |-> {},
         broken |-> {}]]
  /\ UNCHANGED <<store, status, meta, call, announced>>

FanoutError(m) ==
  /\ fanout[m].pc = "queued"
  /\ fanout' = [fanout EXCEPT ![m].pc = "error"]
  /\ UNCHANGED <<store, status, meta, call, announced>>

NextBatch(m) ==
  LET todo == fanout[m].todo
      size == IF Cardinality(todo) < BatchSize THEN Cardinality(todo)
                                               ELSE BatchSize
  IN {B \in SUBSET todo : Cardinality(B) = size}

\* The INSERT meets a row with the primary key (message_id, user_id).
Conflict(m, B) == \E v \in B : meta[m][v] # "none"

\* Mutant: an upsert that resets read_at of a row that is there.
InsertRowsUpsert(m, B) ==
  [meta EXCEPT ![m] = [u \in Users |-> IF u \in B THEN "unread" ELSE meta[m][u]]]

\* Mutant: the message's status is inserted where read_at belongs.
InsertRowsStatus(m, B) ==
  IF Conflict(m, B) THEN meta
  ELSE [meta EXCEPT ![m] =
          [u \in Users |-> IF u \in B THEN status[m] ELSE meta[m][u]]]

\* What INSERT ... VALUES does to the rows of m: all of the batch or, when one
\* key exists already, none of it.
InsertRows(m, B) ==
  IF Conflict(m, B) THEN meta
  ELSE [meta EXCEPT ![m] =
          [u \in Users |-> IF u \in B THEN "unread" ELSE meta[m][u]]]

\* Mutant: a batch that met an existing row is tried again.
AfterBatchRetry(m, B) ==
  IF Conflict(m, B) THEN fanout[m]
  ELSE [fanout[m] EXCEPT !.pc = IF fanout[m].todo = B THEN "done" ELSE @,
                         !.todo = @ \ B]

\* The fan-out after a batch, whatever came of it: the loop goes on.
AfterBatch(m, B) ==
  [fanout[m] EXCEPT !.pc = IF fanout[m].todo = B THEN "done" ELSE @,
                    !.todo = @ \ B]

FanoutBatch(m) ==
  /\ fanout[m].pc = "inserting"
  /\ \E B \in NextBatch(m) :
       /\ meta' = InsertRows(m, B)
       /\ fanout' = [fanout EXCEPT
            ![m] = [AfterBatch(m, B) EXCEPT
                      !.failed = IF Conflict(m, B) THEN @ \cup {B} ELSE @]]
  /\ UNCHANGED <<store, status, call, announced>>

\* A deadlock or a lost connection: printed and skipped in the same way.
FanoutBatchError(m) ==
  /\ fanout[m].pc = "inserting"
  /\ \E B \in NextBatch(m) :
       fanout' = [fanout EXCEPT ![m] = [AfterBatch(m, B) EXCEPT
                                         !.broken = @ \cup B]]
  /\ UNCHANGED <<store, status, meta, call, announced>>
------------------------------------------------------------------------------
(* MarkMessagesAsRead: handler and transaction.                             *)

\* GetRoom, then GetMessageSimple of the first id: its created_at is "since".
MarkRequest(c, u, ids, first) ==
  /\ call[c].pc = "idle"
  /\ first \in ids
  /\ FoundSimple(first)
  /\ simple' = simple \cup {first}
  /\ call' = [call EXCEPT ![c] =
        [NoCall EXCEPT !.pc = "older", !.user = u, !.since = created[first],
                       !.listed = ids, !.ids = ids]]
  /\ UNCHANGED <<members, clock, row, sender, created, status, meta, fanout,
                 announced>>

\* Mutant: an INNER JOIN, which has no row for a message without meta.
OlderWithRow(c) ==
  {m \in Committed : /\ created[m] < call[c].since
                     /\ meta[m][call[c].user] = "unread"}

\* The rows the transaction's first SELECT returns: a LEFT JOIN, so a message
\* without a meta row counts as not read.
Older(c) ==
  {m \in Committed : /\ created[m] < call[c].since
                     /\ meta[m][call[c].user] # "read"}

MarkSelectOlder(c) ==
  /\ call[c].pc = "older"
  /\ call' = [call EXCEPT ![c].pc = "meta", ![c].ids = @ \cup Older(c),
                          ![c].twice = call[c].listed \cap Older(c),
                          ![c].visible = Committed]
  /\ UNCHANGED <<store, status, meta, fanout, announced>>

MarkSelectMeta(c) ==
  /\ call[c].pc = "meta"
  /\ LET of(s) == {m \in call[c].ids : meta[m][call[c].user] = s}
     IN call' = [call EXCEPT ![c].pc = "write", ![c].update = of("unread"),
                             ![c].create = of("none")]
  /\ UNCHANGED <<store, status, meta, fanout, announced>>

\* The INSERT repeats a key, or meets a row that was not there at the SELECT.
MarkConflict(c) ==
  \E m \in call[c].create : m \in call[c].twice \/ meta[m][call[c].user] # "none"

\* Mutant: only the ids of the request, not the older ones found for it.
StatusTargetsListed(c) == call[c].listed

\* The messages whose status column the last UPDATE sets.
StatusTargets(c) == call[c].ids

MarkCommit(c) ==
  /\ call[c].pc = "write"
  /\ ~MarkConflict(c)
  /\ LET touched == call[c].update \cup call[c].create
     IN meta' = [m \in Messages |->
                   IF m \in touched
                   THEN [meta[m] EXCEPT ![call[c].user] = "read"]
                   ELSE meta[m]]
  /\ status' = [m \in Messages |->
                  IF m \in StatusTargets(c) THEN "READ" ELSE status[m]]
  /\ call' = [call EXCEPT ![c].pc = "announce", ![c].left = call[c].listed]
  /\ UNCHANGED <<store, fanout, announced>>

\* Mutant: the handler drops the repository's error and goes on to publish.
MarkAbortIgnored(c) ==
  /\ call[c].pc \in {"older", "meta", "write", "announce"}
  /\ call' = [call EXCEPT ![c].pc = "announce", ![c].left = call[c].listed]
  /\ UNCHANGED <<store, status, meta, fanout, announced>>

\* The unique violation of the INSERT, a serialisation or connection error, a
\* cancelled request or a crash.  Before the commit everything is rolled back;
\* afterwards the events that are left are not published.
MarkAbort(c) ==
  /\ call[c].pc \in {"older", "meta", "write", "announce"}
  /\ call' = [call EXCEPT ![c].pc = "err"]
  /\ UNCHANGED <<store, status, meta, fanout, announced>>

\* One turn of the handler's loop over the listed ids: look the message up and
\* publish, or give up with NotFound when it has been deleted meanwhile.
MarkAnnounce(c) ==
  /\ call[c].pc = "announce"
  /\ \E m \in call[c].left :
       \/ /\ FoundSimple(m)
          /\ simple' = simple \cup {m}
          /\ announced' = announced \cup {<<m, call[c].user>>}
          /\ call' = [call EXCEPT
                        ![c].pc = IF call[c].left = {m} THEN "ok" ELSE @,
                        ![c].left = @ \ {m}]
       \/ /\ ~FoundSimple(m)
          /\ call' = [call EXCEPT ![c].pc = "err"]
          /\ UNCHANGED <<simple, announced>>
  /\ UNCHANGED <<members, clock, row, sender, created, status, meta, fanout>>
------------------------------------------------------------------------------
Next ==
  \/ \E u \in Users : Leave(u) \/ Join(u)
  \/ \E u \in Users, m \in Messages : BeginSave(u, m)
  \/ \E m \in Messages : CommitSave(m) \/ AbortSave(m)
  \/ \E S \in SUBSET Messages : DeleteMessage(S)
  \/ \E m \in Messages : ExpireSimple(m)
  \/ \E m \in Messages : DispatchFanout(m) \/ LoseFanout(m)
  \/ \E m \in Messages : FanoutSnapshot(m) \/ FanoutError(m)
  \/ \E m \in Messages : FanoutBatch(m) \/ FanoutBatchError(m)
  \/ \E c \in Callers, u \in Users, ids \in SUBSET Committed :
        \E first \in ids : MarkRequest(c, u, ids, first)
  \/ \E c \in Callers : MarkSelectOlder(c) \/ MarkSelectMeta(c)
  \/ \E c \in Callers : MarkCommit(c) \/ MarkAbort(c) \/ MarkAnnounce(c)

Spec == Init /\ [][Next]_vars

\* A dispatched handler keeps running: the dispatcher's workers take every
\* queued event and a worker's loop over the batches has no other exit.
WorkersFair ==
  \A m \in Messages : /\ WF_vars(DispatchFanout(m))
                      /\ WF_vars(FanoutSnapshot(m))
                      /\ WF_vars(FanoutBatch(m) \/ FanoutBatchError(m))
FairSpec == Spec /\ WorkersFair
------------------------------------------------------------------------------
(* Properties.                                                              *)

\* Every variable has the shape of the rows and requests it stands for.
TypeOK ==
  /\ members \subseteq Users
  /\ clock \in Nat
  /\ row \in [Messages -> RowState]
  /\ sender \in [Messages -> Users \cup {NoUser}]
  /\ created \in [Messages -> Nat]
  /\ status \in [Messages -> {"SENT", "READ"}]
  /\ meta \in [Messages -> [Users -> MetaState]]
  /\ simple \subseteq Messages
  /\ fanout \in [Messages -> Fanout]
  /\ call \in [Callers -> Call]
  /\ \A c \in Callers : call[c].pc # "idle" => call[c].user \in Users
  /\ announced \subseteq Messages \X Users

\* A read receipt, once written, is never lost: not to the fan-out that arrives
\* after the reader was faster, not to a second request, not to a rollback.
ReceiptsNeverLost ==
  [][\A m \in Messages, u \in Users :
        meta[m][u] = "read" => meta'[m][u] = "read"]_vars

\* The per-user receipts and the message's own status agree: when anybody but
\* the sender has read a message, the ticks its sender sees say READ.
ReceiptImpliesStatus ==
  \A m \in Messages, u \in Users :
     meta[m][u] = "read" /\ u # sender[m] => status[m] = "READ"

\* A fan-out that reported success leaves a participant without a row only when
\* the database failed its INSERT, or when another recipient of the same INSERT
\* had read the message before it: no other row (the sender's own above all)
\* makes a batch fail.
MissingRowsExplained ==
  \A m \in Messages : fanout[m].pc = "done" =>
    \A u \in fanout[m].audience : meta[m][u] = "none" =>
      \/ u \in fanout[m].broken
      \/ \E B \in fanout[m].failed :
           /\ u \in B
           /\ \E v \in B : v # sender[m] /\ meta[m][v] = "read"

\* A request that got past its commit has marked everything it had to: the
\* listed messages and every message of the room that was committed when it
\* looked and is older than the first one, with or without a meta row.
MarkedCovers ==
  \A c \in Callers : call[c].pc \in {"announce", "ok"} =>
    \A m \in call[c].listed
             \cup {n \in call[c].visible : created[n] < call[c].since} :
      meta[m][call[c].user] = "read"

\* Nobody is told of a receipt the database does not have: a READ update is
\* published only for a receipt that is committed, and with the status set.
AnnouncedAreRead ==
  \A m \in Messages, u \in Users :
    <<m, u>> \in announced => meta[m][u] = "read" /\ status[m] = "READ"

\* Every saved message's fan-out comes to an end: whatever batches fail, the
\* worker is never stuck on one of them.
FanoutEnds ==
  \A m \in Messages :
    row[m] = "saved" ~> fanout[m].pc \in {"done", "lost", "error"}
==============================================================================
