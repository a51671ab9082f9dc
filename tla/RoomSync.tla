------------------------------- MODULE RoomSync -------------------------------
(***************************************************************************)
(* The room lists of InitialSync for one user of the SQL repository: the    *)
(* rooms that changed since the client's timestamp (GetRoomList) and those  *)
(* that are gone (GetRoomListDeleted), two queries with other requests in   *)
(* between.  A statement stamps what it writes when it starts and becomes   *)
(* visible later; PinRoom and the return of a removed member stamp nothing. *)
(* Server and database are taken to share one clock.                        *)
(***************************************************************************)
EXTENDS Integers, FiniteSets

CONSTANTS Rooms,           \* the ids of the rooms
          Writers,         \* statements in flight
          TicksPerSecond,  \* the resolution of updated_at within a second
          MaxTime,         \* bound on the clock
          MaxVersion,      \* bound on the changes of a room
          NoRoom

ASSUME RoomSyncAssumption ==
  /\ NoRoom \notin Rooms
  /\ MaxTime \in Nat /\ TicksPerSecond \in 1..MaxTime /\ MaxVersion \in Nat \ {0}

VARIABLES
  clock,   \* the time, in ticks
  room,    \* room rows
  member,  \* the user's room_member rows
  write,   \* the statements that have their stamp and are not committed
  sync,    \* the InitialSync call
  since,   \* the client: LastSyncTimestamp, 0 for the empty string
  known,   \* the client: the version of each room it shows, 0 for none
  missed   \* history: rooms with a reason not to be right at the client

db   == <<clock, room, member, write>>
vars == <<clock, room, member, write, sync, since, known, missed>>
------------------------------------------------------------------------------
Time == 0..MaxTime

\* 0 is NULL.  "ver" counts what the columns of both rows that a list shows, the
\* pin, the mute, the role and the room's own, have been.
Room     == [type : {"none", "p2p", "group"}, updated : Time, deleted : Time,
             ver : 0..MaxVersion]
NoRow    == [type |-> "none", updated |-> 0, deleted |-> 0, ver |-> 0]
Member   == [made : BOOLEAN, updated : Time, removed : Time]
NoMember == [made |-> FALSE, updated |-> 0, removed |-> 0]

Kinds   == {"create", "room", "member", "pin", "leave", "return", "close"}
Write   == [kind : Kinds \cup {"none"}, room : Rooms \cup {NoRoom}, stamp : Time]
NoWrite == [kind |-> "none", room |-> NoRoom, stamp |-> 0]

Sync    == [pc : {"idle", "rooms", "gone", "reply"}, now : Time, rows : SUBSET Rooms,
            copy : [Rooms -> 0..MaxVersion], gone : SUBSET Rooms]
NoCopy  == [r \in Rooms |-> 0]
NoSync  == [pc |-> "idle", now |-> 0, rows |-> {}, copy |-> NoCopy, gone |-> {}]

Active(r) == member[r].made /\ member[r].removed = 0
Listed(r) == Active(r) /\ room[r].deleted = 0
Gone(r)   == member[r].made /\ ~Listed(r)

\* What the client should show of the room.
Right(r) == IF Listed(r) THEN room[r].ver ELSE 0

\* Mutant: rounded up, so that nothing of this second is sent again.
SecondsUp(t) == TicksPerSecond * (t \div TicksPerSecond + 1)

\* SyncTimestamp has no fraction of a second.
Seconds(t) == TicksPerSecond * (t \div TicksPerSecond)

Init ==
  /\ clock = TicksPerSecond
  /\ room = [r \in Rooms |-> NoRow]
  /\ member = [r \in Rooms |-> NoMember]
  /\ write = [w \in Writers |-> NoWrite]
  /\ sync = NoSync
  /\ since = 0
  /\ known = NoCopy
  /\ missed = {}

Tick ==
  /\ clock < MaxTime
  /\ clock' = clock + 1
  /\ UNCHANGED <<room, member, write, sync, since, known, missed>>
------------------------------------------------------------------------------
(* Writes.  What is committed with a stamp that is not after the timestamp  *)
(* the client has, or is about to get from a query that has been made, is   *)
(* found by no later sync.                                                  *)

SeenUpTo == IF sync.pc \in {"gone", "reply"} THEN Seconds(sync.now) ELSE since
GoneUpTo == IF sync.pc = "reply" THEN Seconds(sync.now) ELSE since

\* The handlers look at the room before.  DeleteRoom follows LeaveRoom.
May(kind, r) ==
  CASE kind = "create" -> room[r].type = "none" /\ \A w \in Writers : write[w].room # r
    [] kind \in {"room", "return"} -> room[r].type = "group"
    [] kind = "close"  -> Gone(r) /\ room[r].type = "p2p" /\ room[r].deleted = 0
    [] OTHER -> Listed(r)

Begin(w, kind, r) ==
  /\ write[w].kind = "none"
  /\ May(kind, r)
  /\ write' = [write EXCEPT ![w] = [kind |-> kind, room |-> r, stamp |-> clock]]
  /\ UNCHANGED <<clock, room, member, sync, since, known, missed>>

\* End the write; its room is missed if it is shown wrongly and no list will have it.
Commits(w, isMissed) ==
  /\ write' = [write EXCEPT ![w] = NoWrite]
  /\ missed' = IF isMissed THEN missed \cup {write[w].room} ELSE missed
  /\ UNCHANGED <<clock, sync, since, known>>

Changed(r) == [room EXCEPT ![r].ver = @ + 1]
Is(w, kind) == write[w].kind = kind

\* CreateRoom by the user or by somebody who names them.
CreateRoom(w) ==
  LET x == write[w]
  IN /\ Is(w, "create")
     /\ \E type \in {"p2p", "group"} :
          room' = [room EXCEPT ![x.room] = [type |-> type, updated |-> x.stamp,
                                            deleted |-> 0, ver |-> 1]]
     /\ member' = [member EXCEPT ![x.room] = [made |-> TRUE, updated |-> x.stamp,
                                              removed |-> 0]]
     /\ Commits(w, x.stamp <= SeenUpTo)

UpdateRoom(w) ==
  LET x == write[w]
  IN /\ Is(w, "room") /\ room[x.room].ver < MaxVersion
     /\ room' = [Changed(x.room) EXCEPT ![x.room].updated = x.stamp]
     /\ member' = member
     /\ Commits(w, x.stamp <= SeenUpTo /\ member[x.room].updated <= SeenUpTo)

\* MuteRoom, BlockUser and UpdateParticipantRoom of the user.
UpdateMember(w) ==
  LET x == write[w]
  IN /\ Is(w, "member") /\ room[x.room].ver < MaxVersion
     /\ room' = Changed(x.room)
     /\ member' = [member EXCEPT ![x.room].updated = x.stamp]
     /\ Commits(w, x.stamp <= SeenUpTo /\ room[x.room].updated <= SeenUpTo)

\* PinRoom stamps neither row.
PinRoom(w) ==
  LET x == write[w]
  IN /\ Is(w, "pin") /\ room[x.room].ver < MaxVersion
     /\ room' = Changed(x.room)
     /\ member' = member
     /\ Commits(w, room[x.room].updated <= SeenUpTo /\ member[x.room].updated <= SeenUpTo)

\* LeaveRoom, and the second statement of DeleteRoom.
LeaveRoom(w) ==
  LET x == write[w]
  IN /\ Is(w, "leave")
     /\ member' = IF Active(x.room)
                  THEN [member EXCEPT ![x.room].updated = x.stamp, ![x.room].removed = x.stamp]
                  ELSE member
     /\ room' = room
     /\ Commits(w, Active(x.room) /\ x.stamp <= GoneUpTo)

\* AddParticipantToRoom: a row that is there keeps its updated_at.
AddParticipant(w) ==
  LET x   == write[w]
      old == member[x.room]
  IN /\ Is(w, "return")
     /\ member' = [member EXCEPT ![x.room] =
          IF old.made THEN [old EXCEPT !.removed = 0]
          ELSE [made |-> TRUE, updated |-> x.stamp, removed |-> 0]]
     /\ room' = room
     /\ Commits(w, /\ room[x.room].updated <= SeenUpTo
                   /\ member'[x.room].updated <= SeenUpTo)

\* DeleteRoom of a p2p room: the row of the room.
DeleteRoom(w) ==
  LET x == write[w]
  IN /\ Is(w, "close")
     /\ room' = [room EXCEPT ![x.room].updated = x.stamp, ![x.room].deleted = x.stamp]
     /\ member' = member
     /\ Commits(w, FALSE)

Abort(w) ==
  /\ ~Is(w, "none")
  /\ write' = [write EXCEPT ![w] = NoWrite]
  /\ UNCHANGED <<clock, room, member, sync, since, known, missed>>

Commit(w) ==
  \/ CreateRoom(w) \/ UpdateRoom(w) \/ UpdateMember(w) \/ PinRoom(w)
  \/ LeaveRoom(w) \/ AddParticipant(w) \/ DeleteRoom(w)
------------------------------------------------------------------------------
(* InitialSync.                                                             *)

SyncStart ==
  /\ sync.pc = "idle"
  /\ sync' = [NoSync EXCEPT !.pc = "rooms", !.now = clock]
  /\ UNCHANGED <<db, since, known, missed>>

\* Mutant: only the room's own stamp is compared.
ChangedSinceRoomOnly(r) == since = 0 \/ room[r].updated > since
ChangedSince(r) == since = 0 \/ room[r].updated > since \/ member[r].updated > since

\* GetRoomList without a page: the rooms of the user that changed.
GetRoomList ==
  /\ sync.pc = "rooms"
  /\ sync' = [sync EXCEPT !.pc = "gone", !.copy = [r \in Rooms |-> room[r].ver],
                          !.rows = {r \in Rooms : Listed(r) /\ ChangedSince(r)}]
  /\ UNCHANGED <<db, since, known, missed>>

\* Mutant: the rows that are gone as a whole.
GoneSinceClosed(r) == since = 0 \/ room[r].deleted > since
GoneSince(r) == since = 0 \/ room[r].deleted > since \/ member[r].removed > since

GetRoomListDeleted ==
  /\ sync.pc = "gone"
  /\ sync' = [sync EXCEPT !.pc = "reply",
                          !.gone = {r \in Rooms : Gone(r) /\ GoneSince(r)}]
  /\ UNCHANGED <<db, since, known, missed>>

\* The client takes in the rooms and then drops those that are gone.
Merged(r) == IF r \in sync.gone THEN 0
             ELSE IF r \in sync.rows THEN sync.copy[r] ELSE known[r]

Reply ==
  /\ sync.pc = "reply"
  /\ known' = [r \in Rooms |-> Merged(r)]
  /\ since' = Seconds(sync.now)
  /\ missed' = {r \in missed : Merged(r) # Right(r)}
  /\ sync' = NoSync
  /\ UNCHANGED db

\* A query fails, or the reply does not reach the client.
SyncFails ==
  /\ sync.pc # "idle"
  /\ sync' = NoSync
  /\ UNCHANGED <<db, since, known, missed>>
------------------------------------------------------------------------------
Next ==
  \/ Tick
  \/ \E w \in Writers, kind \in Kinds, r \in Rooms : Begin(w, kind, r)
  \/ \E w \in Writers : Commit(w) \/ Abort(w)
  \/ SyncStart \/ GetRoomList \/ GetRoomListDeleted \/ Reply \/ SyncFails

Spec == Init /\ [][Next]_vars
------------------------------------------------------------------------------
(* Properties.                                                              *)

\* Every variable has the shape of the rows, statements and calls it stands for, and the
\* client's timestamp is none of the future.
TypeOK ==
  /\ clock \in Time
  /\ room \in [Rooms -> Room] /\ member \in [Rooms -> Member]
  /\ write \in [Writers -> Write]
  /\ sync \in Sync
  /\ since \in Time /\ since <= clock
  /\ known \in [Rooms -> 0..MaxVersion]
  /\ missed \subseteq Rooms

\* A room of the user that the client lacks or shows in an old version is later
\* than the client's timestamp, so that the next sync brings it.  Apart from a
\* commit whose stamp the timestamp had already passed, a pin, and a return.
RoomsCatchUp ==
  \A r \in Rooms \ missed :
    Listed(r) /\ known[r] # room[r].ver => room[r].updated > since \/ member[r].updated > since

\* A room that the client shows and the user is no member of any more, left or
\* closed, is found as such by the next sync, with the first of these exceptions.
RemovalsCatchUp ==
  \A r \in Rooms \ missed :
    Gone(r) /\ known[r] # 0 => room[r].deleted > since \/ member[r].removed > since
==============================================================================
