-------------------------------- MODULE Rooms --------------------------------
(***************************************************************************)
(* Rooms and their members in the SQL repository: the handlers that create, *)
(* leave, pin, mute, block and update a room and add or change its members, *)
(* all running concurrently.  A handler reads the room through the cache,   *)
(* decides from what it read, writes in statements of its own, deletes the  *)
(* cached views of the room, and only then tells the members (RoomJoin,     *)
(* RoomLeave) and the notification topic of the group.                      *)
(*                                                                          *)
(* Deleting the cached views is one action here; RoomCache models its       *)
(* commands.  A cached view is what GetRoom read for one user, under one of *)
(* its two keys.                                                            *)
(***************************************************************************)
EXTENDS Naturals, FiniteSets

CONSTANTS Users,        \* the users, all of whom exist
          RoomIds,      \* the ids of the rooms there may be
          Callers,      \* requests that run at once
          MaxRequests,  \* bound on the requests
          Grants,       \* the permission sets that an UpdateRoom asks for
          NoRoom,       \* no room yet
          NoUser        \* the user of no request

ASSUME RoomsAssumption ==
  /\ MaxRequests \in Nat
  /\ Grants \subseteq SUBSET {"send_message", "add_member", "edit_group"}
  /\ NoRoom \notin RoomIds /\ NoUser \notin Users

VARIABLES
  room,      \* public.room
  row,       \* public.room_member
  cache,     \* the cached views of a room
  topic,     \* the subscribers of the notification topic of a room
  told,      \* the last event of its kind dispatched about a member
  call,      \* the requests
  received,  \* the number of requests begun
  twins,     \* history: pairs whose CreateRoom calls overlapped
  muddled,   \* history: <<r, u>> of overlapping or failed handlers
  misjoined  \* history: <<r, u>> subscribed to the topic while muted or no member

store   == <<room, row>>
outside == <<topic, told>>
history == <<twins, muddled, misjoined>>
vars    == <<room, row, cache, topic, told, call, received, twins, muddled, misjoined>>
------------------------------------------------------------------------------
Flags == {"pinned", "muted", "blocked"}
Perms == {"send_message", "add_member", "edit_group"}
Roles == {"OWNER", "MEMBER"}
Types == {"p2p", "group"}

Room      == [type : Types \cup {"none"}, alive : BOOLEAN, perms : SUBSET Perms]
NoSuch    == [type |-> "none", alive |-> FALSE, perms |-> {}]
Member    == [state : {"none", "active", "removed"}, role : Roles, flags : SUBSET Flags]
NoMember  == [state |-> "none", role |-> "MEMBER", flags |-> {}]
Joined(o) == [state |-> "active", role |-> o, flags |-> {}]

\* What GetRoom answers; "none" is nil.
View   == [type : Types \cup {"none"}, perms : SUBSET Perms, role : Roles,
           flags : SUBSET Flags]
NoView == [type |-> "none", perms |-> {}, role |-> "MEMBER", flags |-> {}]

Active(r) == {u \in Users : row[r][u].state = "active"}

Seen(x, m) == IF x.alive /\ m.state = "active"
              THEN [type |-> x.type, perms |-> x.perms, role |-> m.role, flags |-> m.flags]
              ELSE NoView
ViewOf(r, u) == Seen(room[r], row[r][u])

\* A view in the cache, "suspect" (history) when a fill raced with a change of it
\* or an invalidation failed to delete it.
Keys    == {"full", "shim"}
Entry   == [view : View, suspect : BOOLEAN]
NoEntry == [view |-> NoView, suspect |-> FALSE]

\* What a client asks for: "to" is the participants, "what" the type of a room, the
\* flag to toggle, the new role or how many leave, "grant" the permissions.
Ops     == {"create", "toggle", "update", "role", "add", "leave", "send"}
Whats   == Types \cup Flags \cup Roles \cup {"some", "all", "none"}
Request ==
  LET of(op, rooms, to, what, grant) ==
        [op : {op}, user : Users, room : rooms, to : to, what : what, grant : grant]
      some == SUBSET Users \ {{}}
      one  == {{u} : u \in Users}
  IN      of("create", {NoRoom}, one, {"p2p"}, {{}})
     \cup of("create", {NoRoom}, some, {"group"}, Grants)
     \cup of("toggle", RoomIds, {{}}, Flags, {{}})
     \cup of("update", RoomIds, {{}}, {"none"}, Grants)
     \cup of("role", RoomIds, one, Roles, {{}})
     \cup of("add", RoomIds, some, {"none"}, {{}})
     \cup of("leave", RoomIds, SUBSET Users, {"some", "all"}, {{}})
     \cup of("send", RoomIds, {{}}, {"none"}, {{}})

\* "fresh" is the participants of an AddParticipantToRoom that it found inactive,
\* "absent" those it found no row of, "revive" whether it found a removed one;
\* "raced" and "doubt" (history) say that the view has changed since it was read,
\* or came from an entry that was already suspect or about to be deleted.
Pc   == {"idle", "lookup", "insert", "fill", "act", "add", "list", "select",
         "remove", "inval", "reread", "refill", "unsub", "close", "clear", "inval2",
         "tell"}
Call == [pc : Pc, op : Ops \cup {"none"}, user : Users \cup {NoUser}, room : RoomIds \cup {NoRoom},
         to : SUBSET Users, what : Whats, grant : SUBSET Perms, view : View,
         gone : SUBSET Users, fresh : SUBSET Users, absent : SUBSET Users,
         revive : BOOLEAN, raced : BOOLEAN, doubt : BOOLEAN]
NoCall ==
  [pc |-> "idle", op |-> "none", user |-> NoUser, room |-> NoRoom,
   to |-> {}, what |-> "none", grant |-> {}, view |-> NoView, gone |-> {}, fresh |-> {},
   absent |-> {}, revive |-> FALSE, raced |-> FALSE, doubt |-> FALSE]

At(c, p) == call[c].pc = p
Go(c, p) == call' = [call EXCEPT ![c].pc = p]
End(c)   == call' = [call EXCEPT ![c] = NoCall]

\* LeaveRoom of a p2p room is one of all, and so may be one of a group.
LeavesAll(c) == call[c].what = "all" \/ call[c].view.type = "p2p"

\* The users whose membership, announcements or subscription the request is about.
Concerned(c) ==
  CASE call[c].op \in {"create", "leave"} ->
         IF call[c].op = "leave" /\ LeavesAll(c) THEN Users
         ELSE call[c].to \cup {call[c].user}
    [] call[c].op = "add" -> call[c].to
    [] call[c].op = "toggle" /\ call[c].what = "muted" -> {call[c].user}
    [] OTHER -> {}

Busy(r, u) == \E c \in Callers : /\ ~At(c, "idle") /\ call[c].room = r
                                 /\ u \in Concerned(c)

\* The members about whom another request is under way while c commits.
Overlapped(c) ==
  {<<call[c].room, u>> : u \in
     {v \in Concerned(c) : \E d \in Callers \ {c} :
        /\ ~At(d, "idle") /\ call[d].room = call[c].room /\ v \in Concerned(d)}}

\* A room as CreateRoom makes it.
NewRoom(type, grant) ==
  [type |-> type, alive |-> TRUE,
   perms |-> IF type = "p2p" THEN {"send_message"} ELSE grant]
\* Mutant: the members get no role.
NewRowNoRole(owner, to) ==
  [u \in Users |-> IF u = owner THEN Joined("OWNER")
                   ELSE IF u \in to THEN Joined("none") ELSE NoMember]
NewRow(owner, to) ==
  [u \in Users |-> IF u = owner THEN Joined("OWNER")
                   ELSE IF u \in to THEN Joined("MEMBER") ELSE NoMember]

\* A room may have been created, and looked at by its members, before; of a group some
\* may have muted and left it while Redis did not answer, so that both views of theirs
\* are still there.
Departed == [state |-> "removed", role |-> "MEMBER", flags |-> {"muted"}]
Outlived(r, u) == [view |-> Seen(room[r], [row[r][u] EXCEPT !.state = "active"]), suspect |-> TRUE]
Past(old, type, grant, o, to, left, warm) ==
  /\ IF type = "p2p" THEN Cardinality(to) = 1 /\ left = {} ELSE left \subseteq to
  /\ room = [r \in RoomIds |-> IF r \in old THEN NewRoom(type, grant) ELSE NoSuch]
  /\ row = [r \in RoomIds |-> [u \in Users |->
             IF r \notin old THEN NoMember
             ELSE IF u \in left THEN Departed ELSE NewRow(o, to)[u]]]
  /\ told = [r \in RoomIds |-> [u \in Users |->
               IF r \notin old \/ u \notin to \cup {o} THEN "nothing"
               ELSE IF u \in left THEN "left" ELSE "joined"]]
  /\ topic = [r \in RoomIds |-> IF r \in old /\ type = "group" THEN (to \cup {o}) \ left
                                ELSE {}]
  /\ cache = [r \in RoomIds |-> [u \in Users |-> [k \in Keys |->
               IF r \in old /\ u \in left THEN Outlived(r, u)
               ELSE IF u \in warm THEN [NoEntry EXCEPT !.view = ViewOf(r, u)]
               ELSE NoEntry]]]

Init ==
  /\ \E old \in {{}} \cup {{r} : r \in RoomIds}, type \in Types, grant \in Grants, o \in Users,
        left \in SUBSET Users, warm \in {{}, Users} :
       \E to \in SUBSET (Users \ {o}) \ {{}} : Past(old, type, grant, o, to, left, warm)
  /\ call = [c \in Callers |-> NoCall]
  /\ received = 0
  /\ twins = {} /\ muddled = {} /\ misjoined = {}
------------------------------------------------------------------------------
(* The course of a request.                                                 *)

\* The checks of the handlers on the room they have read.
May(q, v) ==
  LET plain == v.role = "MEMBER"
  IN CASE q.op = "leave"  -> ~(v.type = "group" /\ plain /\ (q.to # {} \/ q.what = "all"))
       [] q.op = "toggle" -> q.what = "blocked" => v.type = "p2p"
       [] q.op = "update" -> v.type = "group" /\ (plain => "edit_group" \in v.perms)
       [] q.op = "add"    -> v.type = "group" /\ (plain => "add_member" \in v.perms)
       [] q.op = "role"   -> ~plain
       [] q.op = "send"   -> /\ v.type = "group" /\ plain => "send_message" \in v.perms
                             /\ v.type = "p2p" => "blocked" \notin v.flags
       [] OTHER -> TRUE

\* What GetRoom may answer: the entry, unless it has expired, or the database.
Key(op)     == IF op = "leave" THEN "full" ELSE "shim"
Deleting(r) == \E d \in Callers : /\ At(d, "inval") \/ At(d, "inval2")
                                  /\ call[d].room = r
Answers(r, u, op) ==
  {[view |-> ViewOf(r, u), doubt |-> FALSE, hit |-> FALSE]} \cup
  (LET e == cache[r][u][Key(op)]
   IN IF e = NoEntry THEN {}
      ELSE {[view |-> e.view, doubt |-> e.suspect \/ Deleting(r), hit |-> TRUE]})

Asked(q) == [NoCall EXCEPT !.op = q.op, !.user = q.user, !.room = q.room, !.to = q.to,
                           !.what = q.what, !.grant = q.grant]

\* Goes on to act if it may; a user who is not a member gets NotFound.
Read(x, answer, filled) ==
  IF answer.view = NoView THEN NoCall
  ELSE LET y == [x EXCEPT !.view = answer.view, !.doubt = answer.doubt, !.raced = FALSE]
       IN IF ~filled THEN [y EXCEPT !.pc = "fill"]
          ELSE IF May(x, y.view) THEN [y EXCEPT !.pc = "act"] ELSE NoCall

Receive(c, q) ==
  /\ At(c, "idle")
  /\ received < MaxRequests
  /\ received' = received + 1
  /\ IF q.op = "create"
     THEN call' = [call EXCEPT ![c] =
            [Asked(q) EXCEPT !.pc = IF q.what = "p2p" THEN "lookup" ELSE "insert"]]
     ELSE \E answer \in Answers(q.room, q.user, q.op) :
            call' = [call EXCEPT ![c] = Read(Asked(q), answer, answer.hit)]
  /\ UNCHANGED <<store, cache, outside, history>>

\* A statement or a SaveMessage fails and the handler returns its error, or the
\* process stops: what has been committed is neither told nor undone.
Fails(c) ==
  /\ ~At(c, "idle")
  /\ End(c)
  /\ muddled' = IF At(c, "unsub") \/ At(c, "close") \/ At(c, "clear") \/ At(c, "tell")
                THEN muddled \cup {<<call[c].room, u>> : u \in Concerned(c)}
                ELSE muddled
  /\ ~At(c, "inval") /\ ~At(c, "inval2")
  /\ UNCHANGED <<store, cache, outside, received, twins, misjoined>>

\* Go on at p, with the requests whose view the commit has changed marked.
CommitAndGo(c, p) ==
  call' = [d \in Callers |->
    LET x == IF d = c THEN [call[c] EXCEPT !.pc = p] ELSE call[d]
    IN IF x.view = NoView THEN x
       ELSE [x EXCEPT !.raced = @ \/ Seen(room'[x.room], row'[x.room][x.user])
                                      # ViewOf(x.room, x.user)]]
------------------------------------------------------------------------------
(* The cache.                                                               *)

Entered(c) == [cache EXCEPT ![call[c].room][call[c].user][Key(call[c].op)] =
                              [view |-> call[c].view, suspect |-> call[c].raced]]

\* SetCachedRoom with what was read.
Fill(c) ==
  /\ At(c, "fill")
  /\ cache' = Entered(c)
  /\ call' = [call EXCEPT ![c] = IF May(@, @.view) THEN [@ EXCEPT !.pc = "act"] ELSE NoCall]
  /\ UNCHANGED <<store, outside, received, history>>

\* UpdateRoom asks for the room again after its write, and panics when the caller
\* is no member any more.
Reread(c) ==
  /\ At(c, "reread")
  /\ \E answer \in Answers(call[c].room, call[c].user, call[c].op) :
       call' = [call EXCEPT ![c] =
         IF answer.view = NoView THEN NoCall
         ELSE [@ EXCEPT !.view = answer.view, !.doubt = answer.doubt, !.raced = FALSE,
                        !.pc = IF answer.hit THEN "tell" ELSE "refill"]]
  /\ UNCHANGED <<store, cache, outside, received, history>>

Refill(c) ==
  /\ At(c, "refill")
  /\ cache' = Entered(c)
  /\ Go(c, "tell")
  /\ UNCHANGED <<store, outside, received, history>>

\* Where a handler goes on after DeleteRoomCacheByRoomID.
AfterDelete(c) ==
  CASE call[c].op = "leave"  -> IF At(c, "inval") THEN "unsub" ELSE "tell"
    [] call[c].op = "update" -> "reread"
    [] call[c].op = "add" \/ call[c].what = "muted" -> "tell"
    [] OTHER -> "idle"
Proceed(c) == IF AfterDelete(c) = "idle" THEN End(c) ELSE Go(c, AfterDelete(c))

\* Mutants: one of the two keys, the keys of the caller only.
InvalidateFull(c) ==
  /\ At(c, "inval") \/ At(c, "inval2")
  /\ cache' = [cache EXCEPT ![call[c].room] = [u \in Users |-> [@[u] EXCEPT !["full"] = NoEntry]]]
  /\ Proceed(c)
  /\ UNCHANGED <<store, outside, received, history>>
InvalidateOwn(c) ==
  /\ At(c, "inval") \/ At(c, "inval2")
  /\ cache' = [cache EXCEPT ![call[c].room][call[c].user] = [k \in Keys |-> NoEntry]]
  /\ Proceed(c)
  /\ UNCHANGED <<store, outside, received, history>>

Invalidate(c) ==
  /\ At(c, "inval") \/ At(c, "inval2")
  /\ cache' = [cache EXCEPT ![call[c].room] = [u \in Users |-> [k \in Keys |-> NoEntry]]]
  /\ Proceed(c)
  /\ UNCHANGED <<store, outside, received, history>>

\* The error is only printed.
InvalidateFails(c) ==
  /\ At(c, "inval") \/ At(c, "inval2")
  /\ cache' = [cache EXCEPT ![call[c].room] = [u \in Users |-> [k \in Keys |->
       IF @[u][k] \notin {NoEntry, [NoEntry EXCEPT !.view = ViewOf(call[c].room, u)]}
       THEN [@[u][k] EXCEPT !.suspect = TRUE] ELSE @[u][k]]]]
  /\ Proceed(c)
  /\ UNCHANGED <<store, outside, received, history>>
------------------------------------------------------------------------------
(* CreateRoom.                                                              *)

PairOf(c) == call[c].to \cup {call[c].user}
LivePair(r, S) == room[r].type = "p2p" /\ room[r].alive /\ S \subseteq Active(r)

\* Mutant: only the rooms that the caller has created.
ExistingOfCaller(c) ==
  {r \in RoomIds : LivePair(r, PairOf(c)) /\ row[r][call[c].user].role = "OWNER"}

Existing(c) == {r \in RoomIds : LivePair(r, PairOf(c))}

LookupPair(c) ==
  /\ At(c, "lookup")
  /\ \/ /\ Existing(c) = {}
        /\ Go(c, "insert")
     \/ \E r \in Existing(c) :
          call' = [call EXCEPT ![c].room = r, ![c].pc = "tell"]
  /\ UNCHANGED <<store, cache, outside, received, history>>

\* The room, its owner and its members are one transaction.  One with nobody but
\* the owner fails: the INSERT of the members has no values.
InsertRoom(c, r) ==
  /\ At(c, "insert")
  /\ room[r] = NoSuch
  /\ call[c].to \ {call[c].user} # {}
  /\ room' = [room EXCEPT ![r] = NewRoom(call[c].what, call[c].grant)]
  /\ row' = [row EXCEPT ![r] = NewRow(call[c].user, call[c].to)]
  /\ call' = [d \in Callers |->
       IF d = c THEN [call[c] EXCEPT !.room = r, !.pc = "tell"]
       ELSE IF /\ At(d, "insert") /\ call[d].what = "p2p" /\ call[c].what = "p2p"
               /\ PairOf(d) = PairOf(c)
            THEN [call[d] EXCEPT !.raced = TRUE] ELSE call[d]]
  /\ twins' = IF call[c].raced THEN twins \cup {PairOf(c)} ELSE twins
  /\ UNCHANGED <<cache, outside, received, muddled, misjoined>>

TellCreated(c) ==
  /\ At(c, "tell") /\ call[c].op = "create"
  /\ told' = [told EXCEPT ![call[c].room] =
       [u \in Users |-> IF u \in PairOf(c) THEN "joined" ELSE @[u]]]
  /\ topic' = IF room[call[c].room].type = "group"
              THEN [topic EXCEPT ![call[c].room] = @ \cup PairOf(c)] ELSE topic
  /\ End(c)
  /\ UNCHANGED <<store, cache, received, history>>
------------------------------------------------------------------------------
(* What the handlers do with the view.                                      *)

\* SaveMessage, which is not in this module.
SendMessage(c) ==
  /\ At(c, "act") /\ call[c].op = "send"
  /\ End(c)
  /\ UNCHANGED <<store, cache, outside, received, history>>

\* PinRoom, MuteRoom, BlockUser: the opposite of what the view says.
Toggled(c) == LET f == call[c].what IN IF f \in call[c].view.flags THEN {} ELSE {f}

Toggle(c) ==
  /\ At(c, "act") /\ call[c].op = "toggle"
  /\ row' = [row EXCEPT ![call[c].room][call[c].user].flags =
               (@ \ {call[c].what}) \cup Toggled(c)]
  /\ room' = room
  /\ CommitAndGo(c, "inval")
  /\ muddled' = muddled \cup Overlapped(c)
  /\ UNCHANGED <<cache, outside, received, twins, misjoined>>

PinRoom(c)   == call[c].what = "pinned" /\ Toggle(c)
MuteRoom(c)  == call[c].what = "muted" /\ Toggle(c)
BlockUser(c) == call[c].what = "blocked" /\ Toggle(c)

\* UpdateRoom: the permissions that the request names.
UpdateRoom(c) ==
  /\ At(c, "act") /\ call[c].op = "update"
  /\ room' = IF room[call[c].room].alive
             THEN [room EXCEPT ![call[c].room].perms = call[c].grant] ELSE room
  /\ row' = row
  /\ CommitAndGo(c, "inval")
  /\ UNCHANGED <<cache, outside, received, history>>

\* UpdateParticipantRoom: also of a member who has been removed.
UpdateRole(c) ==
  /\ At(c, "act") /\ call[c].op = "role"
  /\ row' = [row EXCEPT ![call[c].room] =
       [u \in Users |-> IF u \in call[c].to /\ @[u].state # "none"
                        THEN [@[u] EXCEPT !.role = call[c].what] ELSE @[u]]]
  /\ room' = room
  /\ CommitAndGo(c, "inval")
  /\ UNCHANGED <<cache, outside, received, history>>
------------------------------------------------------------------------------
(* AddParticipantToRoom.                                                    *)

RowsOf(c, s) == {u \in call[c].to : row[call[c].room][u].state = s}

\* Mutant: those who have a row are taken for members.
AddReadsRows(c) ==
  /\ At(c, "act") /\ call[c].op = "add"
  /\ call' = [call EXCEPT ![c].pc = "add", ![c].fresh = RowsOf(c, "none"),
       ![c].absent = RowsOf(c, "none"), ![c].revive = RowsOf(c, "removed") # {}]
  /\ UNCHANGED <<store, cache, outside, received, history>>

AddReads(c) ==
  /\ At(c, "act") /\ call[c].op = "add"
  /\ call' = [call EXCEPT ![c].pc = "add",
       ![c].fresh = call[c].to \ RowsOf(c, "active"),
       ![c].absent = RowsOf(c, "none"), ![c].revive = RowsOf(c, "removed") # {}]
  /\ UNCHANGED <<store, cache, outside, received, history>>

\* The UPDATE brings back whoever of the participants has a row by now; the INSERT
\* fails, and the transaction with it, when somebody else has made one of its rows.
AddWrites(c) ==
  /\ At(c, "add")
  /\ \A u \in call[c].absent : row[call[c].room][u].state = "none"
  /\ row' = [row EXCEPT ![call[c].room] =
       [u \in Users |->
          IF u \in call[c].absent THEN Joined("MEMBER")
          ELSE IF u \in call[c].to /\ call[c].revive
               THEN [@[u] EXCEPT !.state = "active"] ELSE @[u]]]
  /\ room' = room
  /\ CommitAndGo(c, "inval")
  /\ muddled' = muddled \cup Overlapped(c)
  /\ UNCHANGED <<cache, outside, received, twins, misjoined>>

\* One message and one RoomJoin per new participant, and the participants of the
\* request subscribe to the topic; a SaveMessage that fails ends it.
TellAdded(c) ==
  /\ At(c, "tell") /\ call[c].op = "add"
  /\ told' = [told EXCEPT ![call[c].room] =
       [u \in Users |-> IF u \in call[c].fresh THEN "joined" ELSE @[u]]]
  /\ topic' = [topic EXCEPT ![call[c].room] = @ \cup call[c].to]
  /\ misjoined' = misjoined \cup
       {<<call[c].room, u>> : u \in
          {v \in call[c].to : "muted" \in row[call[c].room][v].flags}}
  /\ End(c)
  /\ UNCHANGED <<store, cache, received, twins, muddled>>

TellSome(c) ==
  /\ At(c, "tell") /\ call[c].op = "add"
  /\ \E T \in SUBSET call[c].fresh :
       /\ T # call[c].fresh
       /\ told' = [told EXCEPT ![call[c].room] =
            [u \in Users |-> IF u \in T THEN "joined" ELSE @[u]]]
  /\ muddled' = muddled \cup {<<call[c].room, u>> : u \in call[c].to}
  /\ End(c)
  /\ UNCHANGED <<store, cache, topic, received, twins, misjoined>>

\* MuteRoom leaves the topic, or joins it again, also for one whose cached view is all
\* there is left of their membership.  UpdateRoom only publishes IsRoomUpdated, as
\* MuteRoom does, which says nothing of who is a member.
TellUpdated(c) ==
  LET x == call[c]
  IN /\ At(c, "tell") /\ x.op \in {"toggle", "update"}
     /\ topic' = IF x.op = "update" \/ x.view.type # "group" THEN topic
                 ELSE IF Toggled(c) # {} THEN [topic EXCEPT ![x.room] = @ \ {x.user}]
                 ELSE [topic EXCEPT ![x.room] = @ \cup {x.user}]
     /\ misjoined' = IF x.op = "toggle" /\ x.user \in topic'[x.room] \ Active(x.room)
                     THEN misjoined \cup {<<x.room, x.user>>} ELSE misjoined
     /\ End(c)
     /\ UNCHANGED <<store, cache, told, received, twins, muddled>>
------------------------------------------------------------------------------
(* LeaveRoom.                                                               *)

\* Who leaves a group when the request names nobody.
Leavers(c) == IF call[c].view.type = "group" /\ call[c].to = {} THEN {call[c].user}
              ELSE call[c].to

Leave(c) ==
  /\ At(c, "act") /\ call[c].op = "leave"
  /\ call' = [call EXCEPT ![c].to = Leavers(c), ![c].gone = Leavers(c),
                          ![c].pc = IF LeavesAll(c) THEN "list" ELSE "remove"]
  /\ UNCHANGED <<store, cache, outside, received, history>>

\* GetRoomParticipants, for the event; and again in the repository, for the rows.
ListParticipants(c) ==
  /\ At(c, "list")
  /\ call' = [call EXCEPT ![c].to = @ \cup Active(call[c].room), ![c].pc = "select"]
  /\ UNCHANGED <<store, cache, outside, received, history>>

SelectMembers(c) ==
  /\ At(c, "select")
  /\ call' = [call EXCEPT ![c].gone = call[c].to \cup Active(call[c].room),
                          ![c].pc = "remove"]
  /\ UNCHANGED <<store, cache, outside, received, history>>

Removed(r, S) ==
  [row EXCEPT ![r] = [u \in Users |-> IF u \in S \cap Active(r)
                                      THEN [@[u] EXCEPT !.state = "removed"] ELSE @[u]]]

RemoveMembers(c) ==
  /\ At(c, "remove")
  /\ row' = Removed(call[c].room, call[c].gone)
  /\ room' = room
  /\ CommitAndGo(c, "inval")
  /\ muddled' = muddled \cup Overlapped(c)
  /\ UNCHANGED <<cache, outside, received, twins, misjoined>>

\* Mutant: only when all leave.
UnsubscribeAll(c) ==
  /\ At(c, "unsub")
  /\ topic' = IF LeavesAll(c) THEN [topic EXCEPT ![call[c].room] = @ \ call[c].to] ELSE topic
  /\ Go(c, IF LeavesAll(c) THEN "close" ELSE "tell")
  /\ UNCHANGED <<store, cache, told, received, history>>

\* After the system message, if it is not all who leave.
Unsubscribe(c) ==
  /\ At(c, "unsub")
  /\ topic' = [topic EXCEPT ![call[c].room] = @ \ call[c].to]
  /\ Go(c, IF LeavesAll(c) THEN "close" ELSE "tell")
  /\ UNCHANGED <<store, cache, told, received, history>>

\* DeleteRoom: a statement for the room, if it is p2p, and one for its members.
CloseRoom(c) ==
  /\ At(c, "close")
  /\ room' = IF room[call[c].room].type = "p2p"
             THEN [room EXCEPT ![call[c].room].alive = FALSE] ELSE room
  /\ row' = row
  /\ CommitAndGo(c, "clear")
  /\ UNCHANGED <<cache, outside, received, history>>

ClearRoom(c) ==
  /\ At(c, "clear")
  /\ row' = Removed(call[c].room, Users)
  /\ room' = room
  /\ CommitAndGo(c, "inval2")
  /\ muddled' = muddled \cup Overlapped(c)
  /\ UNCHANGED <<cache, outside, received, twins, misjoined>>

TellLeft(c) ==
  /\ At(c, "tell") /\ call[c].op = "leave"
  /\ told' = [told EXCEPT ![call[c].room] =
       [u \in Users |-> IF u \in call[c].to THEN "left" ELSE @[u]]]
  /\ End(c)
  /\ UNCHANGED <<store, cache, topic, received, history>>
------------------------------------------------------------------------------
Step(c) ==
  \/ Fill(c) \/ Reread(c) \/ Refill(c) \/ Invalidate(c) \/ InvalidateFails(c)
  \/ LookupPair(c) \/ (\E r \in RoomIds : InsertRoom(c, r)) \/ TellCreated(c)
  \/ SendMessage(c) \/ PinRoom(c) \/ MuteRoom(c) \/ BlockUser(c)
  \/ UpdateRoom(c) \/ UpdateRole(c)
  \/ AddReads(c) \/ AddWrites(c) \/ TellAdded(c) \/ TellSome(c) \/ TellUpdated(c)
  \/ Leave(c) \/ ListParticipants(c) \/ SelectMembers(c) \/ RemoveMembers(c)
  \/ Unsubscribe(c) \/ CloseRoom(c) \/ ClearRoom(c) \/ TellLeft(c)

Next ==
  \/ \E c \in Callers, q \in Request : Receive(c, q)
  \/ \E c \in Callers : Step(c) \/ Fails(c)

Spec == Init /\ [][Next]_vars
------------------------------------------------------------------------------
(* Properties.                                                              *)

\* Every variable has the shape of the rows, cached views and requests it models.
TypeOK ==
  /\ room \in [RoomIds -> Room]
  /\ row \in [RoomIds -> [Users -> Member]]
  /\ cache \in [RoomIds -> [Users -> [Keys -> Entry]]]
  /\ topic \in [RoomIds -> SUBSET Users]
  /\ told \in [RoomIds -> [Users -> {"nothing", "joined", "left"}]]
  /\ call \in [Callers -> Call]
  /\ received \in 0..MaxRequests
  /\ twins \subseteq SUBSET Users
  /\ muddled \subseteq RoomIds \X Users
  /\ misjoined \subseteq RoomIds \X Users

\* Two partners have one open p2p room, however often and from whichever side it
\* is created, left and created again, unless two of their CreateRoom overlapped.
PairHasOneRoom ==
  \A r, s \in RoomIds, S \in SUBSET Users :
    Cardinality(S) = 2 /\ LivePair(r, S) /\ LivePair(s, S) => r = s \/ S \in twins

\* When no handler is about a user, the last of RoomJoin and RoomLeave that was
\* published about them says whether room_member has them as a member: unless
\* handlers overlapped on them or one failed after its commit.
MembersWereTold ==
  \A r \in RoomIds, u \in Users :
    ~Busy(r, u) /\ <<r, u>> \notin muddled => (u \in Active(r) <=> told[r][u] = "joined")

\* In the same quiet moments the notification topic of a group has its members
\* who have not muted it, apart from those who were added again while muted and those
\* who had left and unmuted it on a view that was still cached.
TopicFollowsMutes ==
  \A r \in RoomIds, u \in Users :
    room[r].type = "group" /\ ~Busy(r, u) /\ <<r, u>> \notin muddled \cup misjoined =>
      (u \in topic[r] <=> u \in Active(r) /\ "muted" \notin row[r][u].flags)

\* The view a handler acts on is outdated.
Outdated(c) == call[c].raced \/ call[c].doubt

\* PinRoom, MuteRoom and BlockUser turn the flag that is stored, unless the row
\* changed after it was read or the view was suspect or about to be deleted.
TogglesTurn ==
  [][\A c \in Callers :
       Toggle(c) /\ ~Outdated(c) =>
         LET f == call[c].what
             x == row[call[c].room][call[c].user].flags
         IN f \in x <=> f \notin row'[call[c].room][call[c].user].flags]_vars

\* Nobody changes a room or its members, or speaks in it, without the membership,
\* role and permissions it takes, unless these were taken away while the request
\* was running or the view was suspect or about to be deleted.
ActsWithinRights ==
  \A c \in Callers :
    At(c, "act") /\ ~Outdated(c) =>
      LET v == ViewOf(call[c].room, call[c].user)
      IN v # NoView /\ May(call[c], v)
==============================================================================
