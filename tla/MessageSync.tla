----------------------------- MODULE MessageSync -----------------------------
(***************************************************************************)
(* Incremental synchronisation of one client with the SQL repository.  The  *)
(* client calls InitialSync with the timestamp the last call returned and   *)
(* gets the messages whose updated_at is later.  Every write stamps         *)
(* updated_at when it starts (NOW() of SaveMessage's transaction, time.Now() *)
(* of UpdateMessage and DeleteMessage) and becomes visible later, so writes *)
(* appear out of the order of their stamps; the returned timestamp is cut   *)
(* to the second.  Server and database are taken to share one clock.        *)
(***************************************************************************)
EXTENDS Integers, FiniteSets

CONSTANTS Rooms,           \* the rooms the client's user may be a member of
          Messages,        \* the messages that may be sent
          Writers,         \* concurrent SendMessage, EditMessage, DeleteMessage
          PerRoom,         \* MessagesPerRoom of the requests, 0 for no limit
          TicksPerSecond,  \* the resolution of updated_at within a second
          MaxTime,         \* bound on the clock
          MaxVersion,      \* bound on the versions of a message
          NoMessage, NoRoom

ASSUME SyncAssumption ==
  /\ PerRoom \in Nat /\ TicksPerSecond \in Nat \ {0}
  /\ MaxTime \in Nat /\ MaxVersion \in Nat
  /\ NoMessage \notin Messages /\ NoRoom \notin Rooms

VARIABLES
  clock,   \* the time, in ticks
  member,  \* the rooms the client's user is a member of (removed_at is NULL)
  msg,     \* room_message rows
  write,   \* the writes that have their stamp and are not committed
  sync,    \* the InitialSync call
  since,   \* the client: LastSyncTimestamp, 0 for the empty string
  known,   \* the client: what it was last sent of each message
  missed   \* history: messages with a reason to be missing (see Missing)

db   == <<clock, member, msg, write>>
vars == <<clock, member, msg, write, sync, since, known, missed>>
------------------------------------------------------------------------------
\* "ver" counts the contents a message has had.
MsgState == {"none", "saved", "deleted"}
Message  == [state : MsgState, room : Rooms \cup {NoRoom}, created : Nat,
             updated : Nat, ver : Nat]
NoRow    == [state |-> "none", room |-> NoRoom, created |-> 0, updated |-> 0,
             ver |-> 0]

Write    == [kind : {"none", "save", "edit", "delete"},
             id : Messages \cup {NoMessage}, room : Rooms \cup {NoRoom},
             stamp : Nat]
NoWrite  == [kind |-> "none", id |-> NoMessage, room |-> NoRoom, stamp |-> 0]

\* "rows" is the reply's messages with their contents in "copy" (0 is none), "cut"
\* the messages that MessagesPerRoom left out of it.
Sync     == [pc : {"idle", "query", "reply"}, now : Nat, rows : SUBSET Messages,
             cut : SUBSET Messages, copy : [Messages -> Nat]]
NoCopy   == [m \in Messages |-> 0]
NoSync   == [pc |-> "idle", now |-> 0, rows |-> {}, cut |-> {}, copy |-> NoCopy]

\* Mutant: rounded up, so that nothing of this second is sent again.
SecondsUp(t) == TicksPerSecond * (t \div TicksPerSecond + 1)

\* SyncTimestamp: the format has no fraction of a second.
Seconds(t) == TicksPerSecond * (t \div TicksPerSecond)

Saved(m)    == msg[m].state = "saved"
Stale(m)    == known[m] # msg[m].ver
MaySee(m)   == Saved(m) /\ msg[m].room \in member

Init ==
  /\ clock = TicksPerSecond
  /\ member = Rooms
  /\ msg = [m \in Messages |-> NoRow]
  /\ write = [w \in Writers |-> NoWrite]
  /\ sync = NoSync
  /\ since = 0
  /\ known = NoCopy
  /\ missed = {}

Tick ==
  /\ clock < MaxTime
  /\ clock' = clock + 1
  /\ UNCHANGED <<member, msg, write, sync, since, known, missed>>
------------------------------------------------------------------------------
(* The timestamp the client has, or is about to get from a reply whose      *)
(* messages are already selected.  A write that appears with a stamp not    *)
(* after it, and a row of a room that is joined with such a stamp, are not  *)
(* found by any later sync.                                                 *)

Horizon == IF sync.pc = "reply" THEN Seconds(sync.now) ELSE since
------------------------------------------------------------------------------
(* Writes.                                                                  *)

BeginSave(w, m, r) ==
  /\ write[w].kind = "none"
  /\ msg[m].state = "none" /\ \A v \in Writers : write[v].id # m
  /\ write' = [write EXCEPT ![w] = [kind |-> "save", id |-> m, room |-> r,
                                    stamp |-> clock]]
  /\ UNCHANGED <<clock, member, msg, sync, since, known, missed>>

\* EditMessage found the message; the UPDATE does not ask again.
BeginEdit(w, m) ==
  /\ write[w].kind = "none"
  /\ Saved(m)
  /\ write' = [write EXCEPT ![w] = [kind |-> "edit", id |-> m,
                                    room |-> msg[m].room, stamp |-> clock]]
  /\ UNCHANGED <<clock, member, msg, sync, since, known, missed>>

\* ReactToMessage sets, changes or removes the user's reaction, which is sent with the
\* message, and stamps the message in the same transaction.  Of two first reactions of a
\* user at once the unique index refuses one (AbortWrite).
BeginReact(w, m) == BeginEdit(w, m)

BeginDelete(w, m) ==
  /\ write[w].kind = "none"
  /\ Saved(m)
  /\ write' = [write EXCEPT ![w] = [kind |-> "delete", id |-> m,
                                    room |-> msg[m].room, stamp |-> clock]]
  /\ UNCHANGED <<clock, member, msg, sync, since, known, missed>>

\* The row after the write x.
Written(x) ==
  LET row == msg[x.id]
  IN CASE x.kind = "save"   -> [state |-> "saved", room |-> x.room,
                                created |-> x.stamp, updated |-> x.stamp,
                                ver |-> 1]
       [] x.kind = "edit"   -> [row EXCEPT !.updated = x.stamp, !.ver = @ + 1]
       [] x.kind = "delete" -> [row EXCEPT !.updated = x.stamp,
                                           !.state = "deleted"]

CommitWrite(w) ==
  LET x == write[w]
  IN /\ x.kind # "none"
     /\ x.kind = "edit" => msg[x.id].ver < MaxVersion
     /\ msg' = [msg EXCEPT ![x.id] = Written(x)]
     /\ write' = [write EXCEPT ![w] = NoWrite]
     /\ missed' = IF Written(x).state = "deleted" THEN missed \ {x.id}
                  ELSE IF x.stamp <= Horizon THEN missed \cup {x.id} ELSE missed
     /\ UNCHANGED <<clock, member, sync, since, known>>

AbortWrite(w) ==
  /\ write[w].kind # "none"
  /\ write' = [write EXCEPT ![w] = NoWrite]
  /\ UNCHANGED <<clock, member, msg, sync, since, known, missed>>

Leave(r) ==
  /\ r \in member
  /\ member' = member \ {r}
  /\ UNCHANGED <<clock, msg, write, sync, since, known, missed>>

Join(r) ==
  /\ r \in Rooms \ member
  /\ member' = member \cup {r}
  /\ missed' = missed \cup
       {m \in Messages : /\ Saved(m) /\ msg[m].room = r /\ Stale(m)
                         /\ msg[m].updated <= Horizon}
  /\ UNCHANGED <<clock, msg, write, sync, since, known>>
------------------------------------------------------------------------------
(* InitialSync.                                                             *)

SyncStart ==
  /\ sync.pc = "idle"
  /\ sync' = [NoSync EXCEPT !.pc = "query", !.now = clock]
  /\ UNCHANGED <<db, since, known, missed>>

\* The rows of GetMessagesFromRoom, and the choices ROW_NUMBER() <= PerRoom has:
\* of each room the latest by created_at.
Matching == {m \in Messages : MaySee(m) /\ msg[m].updated > since}

Ranked(R) ==
  \A r \in Rooms :
    LET all  == {m \in Matching : msg[m].room = r}
        kept == R \cap all
    IN /\ Cardinality(kept) = PerRoom \/ kept = all
       /\ Cardinality(kept) <= PerRoom
       /\ \A m \in kept, n \in all \ kept : msg[m].created >= msg[n].created

SyncQuery ==
  /\ sync.pc = "query"
  /\ \E R \in SUBSET Matching :
       /\ IF PerRoom = 0 THEN R = Matching ELSE Ranked(R)
       /\ sync' = [sync EXCEPT !.pc = "reply", !.rows = R,
                               !.cut = Matching \ R,
                               !.copy = [m \in Messages |-> IF m \in R THEN msg[m].ver ELSE 0]]
  /\ UNCHANGED <<db, since, known, missed>>

\* The messages the client gets in their latest content.
UpToDate == {m \in sync.rows : sync.copy[m] = msg[m].ver}

\* Mutant: the timestamp is taken when the reply is built.
SyncReplyLate ==
  /\ sync.pc = "reply"
  /\ known' = [m \in Messages |-> IF m \in sync.rows THEN sync.copy[m]
                                                     ELSE known[m]]
  /\ since' = Seconds(clock)
  /\ missed' = {m \in (missed \ UpToDate) \cup sync.cut : Saved(m)}
  /\ sync' = NoSync
  /\ UNCHANGED db

SyncReply ==
  /\ sync.pc = "reply"
  /\ known' = [m \in Messages |-> IF m \in sync.rows THEN sync.copy[m]
                                                     ELSE known[m]]
  /\ since' = Seconds(sync.now)
  /\ missed' = {m \in (missed \ UpToDate) \cup sync.cut : Saved(m)}
  /\ sync' = NoSync
  /\ UNCHANGED db

\* A query fails, or the reply does not reach the client.
SyncFails ==
  /\ sync.pc \in {"query", "reply"}
  /\ sync' = NoSync
  /\ UNCHANGED <<db, since, known, missed>>
------------------------------------------------------------------------------
Next ==
  \/ Tick
  \/ \E w \in Writers, m \in Messages, r \in Rooms : BeginSave(w, m, r)
  \/ \E w \in Writers, m \in Messages :
        BeginEdit(w, m) \/ BeginReact(w, m) \/ BeginDelete(w, m)
  \/ \E w \in Writers : CommitWrite(w) \/ AbortWrite(w)
  \/ \E r \in Rooms : Leave(r) \/ Join(r)
  \/ SyncStart \/ SyncQuery \/ SyncReply \/ SyncFails

Spec == Init /\ [][Next]_vars
------------------------------------------------------------------------------
(* Properties.                                                              *)

\* Every variable has the shape of the rows, requests and copies it stands for, and the
\* client's timestamp is none of the future.
TypeOK ==
  /\ clock \in Nat
  /\ member \subseteq Rooms
  /\ msg \in [Messages -> Message]
  /\ write \in [Writers -> Write]
  /\ sync \in Sync
  /\ since \in Nat /\ since <= clock
  /\ known \in [Messages -> Nat]
  /\ missed \subseteq Messages

\* The client never falls behind for good: a content of a message it may see and
\* does not have is later than its timestamp, so the next sync sends it.  Apart
\* from: a write that was committed with a stamp the client's timestamp had
\* already passed, a room joined after that, and a row past MessagesPerRoom.
SyncCatchesUp ==
  \A m \in Messages \ missed : MaySee(m) /\ Stale(m) => msg[m].updated > since
==============================================================================
