----------------------------- MODULE ScyllaRooms -----------------------------
(***************************************************************************)
(* Rooms, memberships and receipts of the ScyllaDB repository.  A user's     *)
(* room is one row of rooms_by_user, whose key (is_pinned, last_message_at)  *)
(* is repeated in room_membership_lookup: whoever changes the row reads its  *)
(* key there first.  Role and mute are also in participants_by_room.  There  *)
(* is no lock and no transaction: a batch is applied as a whole, with one    *)
(* write timestamp, and batches are taken to be ordered by it.  Counters,    *)
(* reactions, the texts of rooms and messages and the Redis cache are left   *)
(* out; every member is taken to have the permissions of the room.           *)
(***************************************************************************)
EXTENDS Integers

CONSTANTS Users,        \* the ids of the users, integers
          Rooms,        \* the ids that CreateRoom may draw
          Messages,     \* the ids that SaveMessage may draw
          Callers,      \* the goroutines of the requests
          MaxRequests,  \* bound on the requests
          MaxTime,      \* bound on the clock, in milliseconds
          NoRoom, NoMessage,
          Gone          \* the room of a message that DeleteRoom has deleted

ASSUME ScyllaRoomsAssumption ==
  /\ Users \subseteq Nat \ {0} /\ MaxRequests \in Nat /\ MaxTime \in Nat \ {0}
  /\ NoRoom \notin Rooms /\ NoMessage \notin Messages /\ Gone \notin Rooms \cup {NoRoom}

VARIABLES
  clock,     \* the time
  details,   \* room_details: the type of each room
  part,      \* participants_by_room
  lookup,    \* room_membership_lookup: the key of each user's row of each room
  rows,      \* rooms_by_user
  pair,      \* p2p_room_by_users
  msg,       \* messages_by_room: the room of each message
  status,    \* message_status_by_user
  receipt,   \* read_receipts_by_message
  call,      \* the requests under way
  asked,     \* the number of requests so far
  tangled,   \* history: memberships that something happened to at the wrong time
  twins,     \* history: pairs of users that created their room at the same time
  overtaken  \* history: messages a user had read before SaveMessage was done

lists   == <<part, lookup, rows>>
mail    == <<msg, status, receipt>>
history == <<tangled, twins, overtaken>>
vars    == <<clock, details, lists, pair, mail, call, asked, history>>
------------------------------------------------------------------------------
Time  == 0..MaxTime        \* 0 is null
Roles == {"", "MEMBER", "ADMIN", "OWNER"}
Key   == [pin : BOOLEAN, at : Time \cup {-1}]
NoKey == [pin |-> FALSE, at |-> -1]
Row   == [user : Users, room : Rooms, key : Key, role : Roles, muted : BOOLEAN]
Part  == [in : BOOLEAN, role : Roles, muted : BOOLEAN]
NoPart == [in |-> FALSE, role |-> "", muted |-> FALSE]
Joined(role) == [in |-> TRUE, role |-> role, muted |-> FALSE]

\* "subject" is the user whose row is being changed, "todo" the others the loop has
\* still to come to, "to" the users the request names, "on" and "role" the new value,
\* "key" and "copy" what has been read.
Pc     == {"idle", "make", "list", "find", "copy", "move", "set", "status", "add",
           "drop", "strike", "erase", "edit"}
Ops    == {"none", "create", "save", "pin", "mute", "role", "add", "leave", "close", "edit"}
Copy   == [role : Roles, muted : BOOLEAN]
NoCopy == [role |-> "", muted |-> FALSE]
Call   == [pc : Pc, op : Ops, user : Users \cup {0}, room : Rooms \cup {NoRoom},
           to : SUBSET Users, todo : SUBSET Users, subject : Users \cup {0},
           on : BOOLEAN, role : Roles, at : Time, msg : Messages \cup {NoMessage},
           key : Key, copy : Copy, all : BOOLEAN]
NoCall == [pc |-> "idle", op |-> "none", user |-> 0, room |-> NoRoom, to |-> {},
           todo |-> {}, subject |-> 0, on |-> FALSE, role |-> "", at |-> 0, msg |-> NoMessage,
           key |-> NoKey, copy |-> NoCopy, all |-> FALSE]

At(c, p)  == call[c].pc = p
Goto(c, p) == [call[c] EXCEPT !.pc = p]
End(c)    == call' = [call EXCEPT ![c] = NoCall]

\* Mutant: the caller first.
AsAsked(u, v) == <<u, v>>
sortUserIDs(u, v) == IF u < v THEN <<u, v>> ELSE <<v, u>>

Exists(r)  == details[r] \in {"p2p", "group", "nameless"}
GetRoomList(u) == {x \in rows : x.user = u}
RowAt(u, r, k) == {x \in GetRoomList(u) : x.room = r /\ x.key = k}
GetRoomParticipants(r) == {u \in Users : part[r][u].in}

\* The role in what GetRoom answers; nobody is refused for not being a member.
RoleOf(u, r) == LET found == RowAt(u, r, lookup[u][r])
                IN IF found = {} THEN "" ELSE (CHOOSE x \in found : TRUE).role

Listing(u, r, key, role) == [user |-> u, room |-> r, key |-> key, role |-> role,
                             muted |-> FALSE]

\* What a first state has of the rooms: o has created those of "old" for "to".
Begun(o, type, old, pin, to) ==
  LET role(u) == IF u = o THEN "OWNER" ELSE "MEMBER"
      key     == [pin |-> pin, at |-> 1]
  IN /\ o \in to /\ (type = "p2p" => \E u \in Users \ {o} : to = {o, u})
     /\ details = [r \in Rooms |-> IF r \in old THEN type ELSE "fresh"]
     /\ part = [r \in Rooms |-> [u \in Users |->
                  IF r \in old /\ u \in to THEN Joined(role(u)) ELSE NoPart]]
     /\ lookup = [u \in Users |-> [r \in Rooms |->
                    IF r \in old /\ u \in to THEN key ELSE NoKey]]
     /\ rows = {Listing(u, r, key, role(u)) : u \in to, r \in old}
     /\ pair = [p \in Users \X Users |->
                  IF type = "p2p" /\ old # {} /\ {p[1], p[2]} = to /\ p[1] < p[2]
                  THEN CHOOSE r \in Rooms : r \in old ELSE NoRoom]

\* A room may have been created, and pinned, before.
Init ==
  /\ clock = 1
  /\ \E o \in Users, type \in {"p2p", "group"}, old \in {{}} \cup {{r} : r \in Rooms},
        pin \in BOOLEAN, to \in SUBSET Users : Begun(o, type, old, pin, to)
  /\ msg = [m \in Messages |-> NoRoom]
  /\ status = [m \in Messages |-> [u \in Users |-> "none"]]
  /\ receipt = [m \in Messages |-> {}]
  /\ call = [c \in Callers |-> NoCall]
  /\ asked = 0
  /\ tangled = {} /\ twins = {} /\ overtaken = {}
------------------------------------------------------------------------------
(* Requests, as the handler lets them through.                              *)

Asks == asked < MaxRequests /\ asked' = asked + 1

\* time.Now() of a request.
Now(t) == t \in {clock, clock + 1} /\ t <= MaxTime /\ clock' = t

\* The users of the list who are in one table and not in the other.
Torn(r, who) == {<<u, r>> : u \in {v \in who : part[r][v].in <=> lookup[v][r] = NoKey}}

Start(c, x) ==
  /\ At(c, "idle") /\ Asks
  /\ call' = [call EXCEPT ![c] = x]

Change(c, u, r, x) ==
  /\ Exists(r)
  /\ Start(c, [x EXCEPT !.user = u, !.room = r, !.pc = "find"])
  /\ UNCHANGED <<clock, details, lists, pair, mail, history>>

\* PinRoom and MuteRoom ask for the opposite of what the room shows.
AskPin(c, u, r) ==
  Change(c, u, r, [NoCall EXCEPT !.op = "pin", !.subject = u, !.on = ~lookup[u][r].pin])
AskMute(c, u, r) ==
  Change(c, u, r, [NoCall EXCEPT !.op = "mute", !.subject = u,
                     !.on = \A y \in RowAt(u, r, lookup[u][r]) : ~y.muted])

\* UpdateParticipantRoom is not for plain members.
AskRole(c, u, r) ==
  /\ RoleOf(u, r) # "MEMBER"
  /\ \E p \in Users :
       Change(c, u, r, [NoCall EXCEPT !.op = "role", !.subject = p, !.role = "ADMIN"])

\* AddParticipantToRoom reads the room's name, image and type before it writes.
AskAdd(c, u, r) ==
  /\ details[r] = "group"
  /\ \E to \in SUBSET Users \ {{}} :
       Start(c, [NoCall EXCEPT !.op = "add", !.user = u, !.room = r, !.to = to, !.pc = "add"])
  /\ UNCHANGED <<clock, details, lists, pair, mail, history>>

AskEdit(c, u, r) ==
  /\ details[r] = "group"
  /\ Start(c, [NoCall EXCEPT !.op = "edit", !.user = u, !.room = r, !.pc = "edit"])
  /\ UNCHANGED <<clock, details, lists, pair, mail, history>>

\* All leave a p2p room; a plain member of a group only leaves alone.
AskLeave(c, u, r) ==
  /\ Exists(r)
  /\ \E to \in SUBSET Users \ {{}}, all \in BOOLEAN :
       /\ details[r] = "p2p" => all
       /\ all => to = GetRoomParticipants(r)
       /\ details[r] = "group" /\ RoleOf(u, r) = "MEMBER" => ~all /\ to = {u}
       /\ Start(c, [NoCall EXCEPT !.op = "leave", !.user = u, !.room = r, !.to = to,
                                  !.todo = to, !.all = all, !.pc = "find"])
  /\ UNCHANGED <<clock, details, lists, pair, mail, history>>
------------------------------------------------------------------------------
(* CreateRoom.  All its tables are written by one batch.                    *)

Create(u, to, r, type, t) ==
  LET key == [pin |-> FALSE, at |-> t]
      role(v) == IF v = u THEN "OWNER" ELSE "MEMBER"
  IN /\ details[r] = "fresh"
     /\ Now(t)
     /\ details' = [details EXCEPT ![r] = type]
     /\ part' = [part EXCEPT ![r] = [v \in Users |-> IF v \in to THEN Joined(role(v)) ELSE NoPart]]
     /\ lookup' = [v \in Users |-> IF v \in to THEN [lookup[v] EXCEPT ![r] = key] ELSE lookup[v]]
     /\ rows' = rows \cup {Listing(v, r, key, role(v)) : v \in to}

CreateGroup(u, to, r, t) ==
  /\ Asks
  /\ Create(u, to \cup {u}, r, "group", t)
  /\ UNCHANGED <<pair, mail, call, history>>

\* With a room in the table CreateRoom returns what GetRoom finds of it.
LookupPair(c, u, v) ==
  /\ u # v
  /\ pair[sortUserIDs(u, v)] = NoRoom
  /\ Start(c, [NoCall EXCEPT !.op = "create", !.user = u, !.to = {u, v}, !.subject = v,
                             !.pc = "make"])
  /\ UNCHANGED <<clock, details, lists, pair, mail, history>>

CreatePair(c, r, t) ==
  LET x == call[c]
  IN /\ At(c, "make")
     /\ Create(x.user, x.to, r, "p2p", t)
     /\ pair' = [pair EXCEPT ![sortUserIDs(x.user, x.subject)] = r]
     /\ twins' = IF \E d \in Callers \ {c} : At(d, "make") /\ call[d].to = x.to
                 THEN twins \cup {x.to} ELSE twins
     /\ End(c)
     /\ UNCHANGED <<mail, asked, tangled, overtaken>>
------------------------------------------------------------------------------
(* The change of a user's row.                                              *)

\* The first batch of SaveMessage.
StoreMessage(c, u, r, m, t) ==
  /\ Exists(r) /\ msg[m] = NoRoom
  /\ Now(t)
  /\ msg' = [msg EXCEPT ![m] = r]
  /\ Start(c, [NoCall EXCEPT !.op = "save", !.user = u, !.room = r, !.msg = m, !.at = t,
                             !.pc = "list"])
  /\ UNCHANGED <<details, lists, pair, status, receipt, history>>

\* GetRoomParticipants, for SaveMessage and for DeleteRoom.
ListParticipants(c) ==
  LET r == call[c].room
  IN /\ At(c, "list")
     /\ call' = [call EXCEPT ![c].to = GetRoomParticipants(r), ![c].todo = GetRoomParticipants(r),
                             ![c].pc = "find"]
     /\ UNCHANGED <<clock, details, lists, pair, mail, asked, history>>

Next1(c) == [call[c] EXCEPT !.pc = "find", !.subject = 0, !.key = NoKey, !.copy = NoCopy]

\* The key is read from the lookup table.  SaveMessage skips who has none, DeleteRoom
\* and LeaveRoom go on, the others return an error.
Find(c, u) ==
  LET x == call[c]
      k == lookup[u][x.room]
      y == [x EXCEPT !.subject = u, !.key = k, !.todo = @ \ {u}]
  IN /\ At(c, "find")
     /\ u \in IF x.op \in {"save", "leave", "close"} THEN x.todo ELSE {x.subject}
     /\ call' = [call EXCEPT ![c] =
          CASE x.op \in {"leave", "close"}                     -> [y EXCEPT !.pc = "drop"]
            [] x.op = "save" /\ k = NoKey                      -> [x EXCEPT !.todo = @ \ {u}]
            [] x.op \in {"pin", "mute", "role"} /\ k = NoKey   -> NoCall
            [] x.op \in {"mute", "role"} /\ k # NoKey          -> [y EXCEPT !.pc = "set"]
            [] x.op \in {"save", "pin"} /\ k # NoKey           -> [y EXCEPT !.pc = "copy"]]
     /\ UNCHANGED <<clock, details, lists, pair, mail, asked, history>>

\* The row is read with the key that was found.  SaveMessage only prints an error, of
\* this or of the batch, and goes on with the next user.
CopyRow(c) ==
  LET x == call[c]
      found == RowAt(x.subject, x.room, x.key)
  IN /\ At(c, "copy")
     /\ \/ /\ found = {} \/ x.op = "save"
           /\ call' = [call EXCEPT ![c] = IF x.op = "save" THEN Next1(c) ELSE NoCall]
        \/ \E y \in found :
             call' = [call EXCEPT ![c].copy = [role |-> y.role, muted |-> y.muted],
                                  ![c].pc = "move"]
     /\ UNCHANGED <<clock, details, lists, pair, mail, asked, history>>

\* What a request has read is no longer so, or the batch deletes what it inserts.
Stale(x) == lookup[x.subject][x.room] # x.key
Outdated(x) == {[role |-> y.role, muted |-> y.muted] :
                  y \in RowAt(x.subject, x.room, x.key)} # {x.copy}
Tangle(x, if) == tangled' = IF if THEN tangled \cup {<<x.subject, x.room>>} ELSE tangled

NewKey(x) == IF x.op = "save" THEN [x.key EXCEPT !.at = x.at] ELSE [x.key EXCEPT !.pin = x.on]

\* The column of the lookup row that the batch sets; a row that is gone comes back.
MovedKey(x) ==
  LET k == lookup[x.subject][x.room]
      old == IF k = NoKey THEN [pin |-> FALSE, at |-> 0] ELSE k
  IN IF x.op = "save" THEN [old EXCEPT !.at = x.at] ELSE [old EXCEPT !.pin = x.on]

\* Mutant: the old row is not deleted.
RelistKeeping(x) ==
  {y \in rows : ~(y.user = x.subject /\ y.room = x.room /\ y.key = NewKey(x))} \cup
  {[user |-> x.subject, room |-> x.room, key |-> NewKey(x), role |-> x.copy.role,
    muted |-> x.copy.muted]}

\* A DELETE and an INSERT of the same key in one batch have the same timestamp, and
\* then the DELETE wins.
Relist(x) ==
  {y \in rows : ~(y.user = x.subject /\ y.room = x.room /\ y.key \in {x.key, NewKey(x)})} \cup
  (IF NewKey(x) = x.key THEN {}
   ELSE {[user |-> x.subject, room |-> x.room, key |-> NewKey(x), role |-> x.copy.role,
          muted |-> x.copy.muted]})

\* The batches of PinRoom and of updateRoomForUser.
MoveRow(c) ==
  LET x == call[c]
  IN /\ At(c, "move")
     /\ rows' = Relist(x)
     /\ lookup' = [lookup EXCEPT ![x.subject][x.room] = MovedKey(x)]
     /\ Tangle(x, Stale(x) \/ Outdated(x) \/ NewKey(x) = x.key)
     /\ call' = [call EXCEPT ![c] = IF x.op = "save" THEN Next1(c) ELSE NoCall]
     /\ UNCHANGED <<clock, details, part, pair, mail, asked, twins, overtaken>>

\* SaveMessage goes on with the statuses, the user's own is SENT.
StartStatus(c) ==
  /\ At(c, "find") /\ call[c].op = "save" /\ call[c].todo = {}
  /\ call' = [call EXCEPT ![c].todo = call[c].to, ![c].pc = "status"]
  /\ UNCHANGED <<clock, details, lists, pair, mail, asked, history>>

\* Mutant: not for the others.
DeliveredToSender(x, u) == IF u = x.user THEN "SENT" ELSE "UNSPECIFIED"
Delivered(x, u) == IF u = x.user THEN "SENT" ELSE "DELIVERED"
SetStatus(c, u) ==
  LET x == call[c]
  IN /\ At(c, "status") /\ u \in x.todo
     /\ status' = [status EXCEPT ![x.msg][u] = Delivered(x, u)]
     /\ call' = [call EXCEPT ![c].todo = @ \ {u}]
     /\ UNCHANGED <<clock, details, lists, pair, msg, receipt, asked, history>>

EndSave(c) ==
  /\ At(c, "status") /\ call[c].todo = {}
  /\ End(c)
  /\ UNCHANGED <<clock, details, lists, pair, mail, asked, history>>

\* Mutant: participants_by_room is not updated.
SetInList(x, y) == IF x.op = "mute" THEN [y EXCEPT !.muted = x.on] ELSE [y EXCEPT !.role = x.role]
KeepPart(x, p) == p

\* An UPDATE of a row that does not exist makes one with nothing else in it.
SetInPart(x, p) ==
  IF x.op = "mute" THEN [p EXCEPT !.in = TRUE, !.muted = x.on]
  ELSE [p EXCEPT !.in = TRUE, !.role = x.role]

\* The batches of MuteRoom and UpdateParticipantRoom.
SetColumn(c) ==
  LET x == call[c]
      old == RowAt(x.subject, x.room, x.key)
      base == IF old = {} THEN {Listing(x.subject, x.room, x.key, "")} ELSE old
  IN /\ At(c, "set")
     /\ rows' = (rows \ old) \cup {SetInList(x, y) : y \in base}
     /\ part' = [part EXCEPT ![x.room][x.subject] = SetInPart(x, @)]
     /\ Tangle(x, Stale(x))
     /\ End(c)
     /\ UNCHANGED <<clock, details, lookup, pair, mail, asked, twins, overtaken>>
------------------------------------------------------------------------------
(* Members come and go.                                                     *)

\* Of the users asked for the user table gives one, and only that one is added; what
\* they had in the room is not read.
AddParticipant(c, u, t) ==
  LET x == call[c]
      k == [pin |-> FALSE, at |-> t]
      old == RowAt(u, x.room, k)
  IN /\ At(c, "add") /\ u \in x.to
     /\ Now(t)
     /\ part' = [part EXCEPT ![x.room][u] = [@ EXCEPT !.in = TRUE, !.role = "MEMBER"]]
     /\ lookup' = [lookup EXCEPT ![u][x.room] = k]
     /\ rows' = (rows \ old) \cup
          (IF old = {} THEN {Listing(u, x.room, k, "MEMBER")}
           ELSE {[y EXCEPT !.role = "MEMBER"] : y \in old})
     /\ Tangle([x EXCEPT !.subject = u], lookup[u][x.room] # NoKey \/ part[x.room][u].in)
     /\ End(c)
     /\ UNCHANGED <<details, pair, mail, asked, twins, overtaken>>

UpdateRoom(c) ==
  /\ At(c, "edit")
  /\ details' = [details EXCEPT ![call[c].room] = IF Exists(call[c].room) THEN @ ELSE "nameless"]
  /\ End(c)
  /\ UNCHANGED <<clock, lists, pair, mail, asked, history>>

\* A batch per user; when it fails the error is printed and the loop goes on.
DropRow(c) ==
  LET x == call[c]
  IN /\ At(c, "drop")
     /\ rows' = rows \ RowAt(x.subject, x.room, x.key)
     /\ lookup' = [lookup EXCEPT ![x.subject][x.room] = NoKey]
     /\ Tangle(x, Stale(x))
     /\ call' = [call EXCEPT ![c] = Next1(c)]
     /\ UNCHANGED <<clock, details, part, pair, mail, asked, twins, overtaken>>

DropFails(c) ==
  /\ At(c, "drop")
  /\ call' = [call EXCEPT ![c] = Next1(c)]
  /\ UNCHANGED <<clock, details, lists, pair, mail, asked, history>>

\* LeaveRoom ends with the participants; the handler may go on to delete the room.
Strike(c) ==
  LET x == call[c]
      new == [u \in Users |-> IF u \in x.to THEN NoPart ELSE part[x.room][u]]
  IN /\ At(c, "find") /\ x.op = "leave" /\ x.todo = {}
     /\ part' = [part EXCEPT ![x.room] = new]
     /\ tangled' = tangled \cup {<<u, x.room>> : u \in {v \in x.to : lookup[v][x.room] # NoKey}}
     /\ call' = [call EXCEPT ![c] =
          IF x.all THEN [NoCall EXCEPT !.op = "close", !.user = x.user, !.room = x.room,
                                       !.pc = "list"]
          ELSE NoCall]
     /\ UNCHANGED <<clock, details, lookup, rows, pair, mail, asked, twins, overtaken>>

\* The end of DeleteRoom; p2p_room_by_users is not touched.
Erase(c) ==
  LET r == call[c].room
  IN /\ At(c, "find") /\ call[c].op = "close" /\ call[c].todo = {}
     /\ details' = [details EXCEPT ![r] = "gone"]
     /\ part' = [part EXCEPT ![r] = [u \in Users |-> NoPart]]
     /\ msg' = [m \in Messages |-> IF msg[m] = r THEN Gone ELSE msg[m]]
     /\ tangled' = tangled \cup {<<u, r>> : u \in {v \in Users : lookup[v][r] # NoKey}}
     /\ End(c)
     /\ UNCHANGED <<clock, lookup, rows, pair, status, receipt, asked, twins, overtaken>>

\* The process stops, or a statement returns an error, of a request that has written
\* something; the others are then as if they had not been made.
Fails(c) ==
  /\ call[c].op \in {"save", "leave", "close"}
  /\ tangled' = IF call[c].op \in {"leave", "close"}
                THEN tangled \cup Torn(call[c].room, call[c].to) ELSE tangled
  /\ End(c)
  /\ UNCHANGED <<clock, details, lists, pair, mail, asked, twins, overtaken>>
------------------------------------------------------------------------------
(* MarkMessagesAsRead.  The reset of the counter that follows is always      *)
(* refused, a counter cannot be set: the call returns an error.              *)

\* Mutant: only where there is a status to change.
ReadWhereSet(u, ids) ==
  [m \in Messages |-> IF m \in ids /\ status[m][u] # "none"
                      THEN [status[m] EXCEPT ![u] = "READ"] ELSE status[m]]

ReadStatus(u, ids) ==
  [m \in Messages |-> IF m \in ids THEN [status[m] EXCEPT ![u] = "READ"] ELSE status[m]]

MarkAsRead(u, r, ids) ==
  /\ Exists(r) /\ Asks
  /\ ids # {} /\ \A m \in ids : msg[m] = r
  /\ receipt' = [m \in Messages |-> IF m \in ids THEN receipt[m] \cup {u} ELSE receipt[m]]
  /\ status' = ReadStatus(u, ids)
  /\ overtaken' = overtaken \cup {<<m, u>> : m \in {n \in ids :
       \E c \in Callers : /\ call[c].op = "save" /\ call[c].msg = n
                          /\ At(c, "status") => u \in call[c].todo}}
  /\ UNCHANGED <<clock, details, lists, pair, msg, call, tangled, twins>>
------------------------------------------------------------------------------
Step(c) ==
  \/ \E u \in Users, r \in Rooms :
       \/ AskPin(c, u, r) \/ AskMute(c, u, r) \/ AskRole(c, u, r)
       \/ AskAdd(c, u, r) \/ AskEdit(c, u, r) \/ AskLeave(c, u, r)
  \/ \E u \in Users, r \in Rooms, m \in Messages, t \in Time : StoreMessage(c, u, r, m, t)
  \/ \E u, v \in Users : LookupPair(c, u, v)
  \/ \E r \in Rooms, t \in Time : CreatePair(c, r, t)
  \/ \E u \in Users : Find(c, u) \/ SetStatus(c, u)
  \/ \E u \in Users, t \in Time : AddParticipant(c, u, t)
  \/ ListParticipants(c) \/ CopyRow(c) \/ MoveRow(c) \/ StartStatus(c) \/ EndSave(c)
  \/ SetColumn(c) \/ UpdateRoom(c) \/ DropRow(c) \/ DropFails(c) \/ Strike(c) \/ Erase(c)
  \/ Fails(c)

Next ==
  \/ \E c \in Callers : Step(c)
  \/ \E u \in Users, to \in SUBSET Users, r \in Rooms, t \in Time : CreateGroup(u, to, r, t)
  \/ \E u \in Users, r \in Rooms, ids \in SUBSET Messages : MarkAsRead(u, r, ids)

Spec == Init /\ [][Next]_vars
------------------------------------------------------------------------------
(* Properties.                                                              *)

\* The tables hold what their columns can hold.
TypeOK ==
  /\ clock \in Time
  /\ details \in [Rooms -> {"fresh", "p2p", "group", "nameless", "gone"}]
  /\ part \in [Rooms -> [Users -> Part]]
  /\ lookup \in [Users -> [Rooms -> Key]]
  /\ rows \subseteq Row
  /\ pair \in [Users \X Users -> Rooms \cup {NoRoom}]
  /\ msg \in [Messages -> Rooms \cup {NoRoom, Gone}]
  /\ status \in [Messages -> [Users -> {"none", "SENT", "DELIVERED", "READ"}]]
  /\ receipt \in [Messages -> SUBSET Users]
  /\ call \in [Callers -> Call]

\* A room is once in the list of each of its users, under the key that the lookup
\* table has, and not in anybody else's: no sequence of messages, pins, mutes, joins
\* and departures leaves a second row behind or loses the only one, also while
\* requests about other users or rooms run, unless a request changed the row between
\* another's read and write of it, an active member was added again, or a message
\* or a second pin moved the row to where it already was.
ListedOnce ==
  \A u \in Users, r \in Rooms : <<u, r>> \notin tangled =>
    {x.key : x \in {y \in GetRoomList(u) : y.room = r}} =
       (IF lookup[u][r] = NoKey THEN {} ELSE {lookup[u][r]})

\* Who is a participant has the room in their list, with the role and the mute that
\* participants_by_room has, and who has left is in neither table; the exceptions
\* are those of ListedOnce, a departure whose batch failed, one that stopped half
\* way and one that another user added the member back during.
Leaving(r) == \E c \in Callers : call[c].room = r /\ call[c].op \in {"leave", "close"}
TablesAgree ==
  \A u \in Users, r \in Rooms : <<u, r>> \notin tangled /\ ~Leaving(r) =>
    /\ part[r][u].in <=> lookup[u][r] # NoKey
    /\ \A y \in RowAt(u, r, lookup[u][r]) :
         y.role = part[r][u].role /\ y.muted = part[r][u].muted

\* A message with a read receipt of a user is READ in that user's history: the loop
\* of SaveMessage that writes DELIVERED does not go over it, unless the user read the
\* message before that loop came to them.
ReadStaysRead ==
  \A m \in Messages, u \in Users :
    u \in receipt[m] /\ <<m, u>> \notin overtaken => status[m][u] = "READ"

\* Two users who share a p2p room are led to it by CreateRoom, whichever of them asks,
\* unless both had asked for the first time at once.
PairIsFound ==
  \A r \in Rooms : details[r] = "p2p" /\ GetRoomParticipants(r) \notin twins =>
    \A u, v \in GetRoomParticipants(r) : u < v => pair[<<u, v>>] = r

\* DeleteRoom, the "complete deletion" of its documentation, leaves nothing of a p2p
\* room: the room that CreateRoom is led to for a pair of users exists.
PairCanMeetAgain ==
  \A p \in Users \X Users : pair[p] # NoRoom => details[pair[p]] = "p2p"
=============================================================================
