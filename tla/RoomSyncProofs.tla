---------------------------- MODULE RoomSyncProofs ----------------------------
(***************************************************************************)
(* RoomSync, for every number of rooms and writers and every bound: its     *)
(* types, and that a client neither lacks a room nor keeps one for good.     *)
(* IInv adds what is true of statements on their way and of a call between   *)
(* its queries.                                                             *)
(***************************************************************************)
EXTENDS RoomSync, TLAPS

\* What a statement relies on is still so when it commits: nobody else creates its room,
\* a room that is joined is a group, and one that is closed was left and is not returned to.
WriteShape ==
  /\ \A w \in Writers :
       /\ write[w].kind # "none" => write[w].room \in Rooms
       /\ Is(w, "create") => room[write[w].room].type = "none"
       /\ Is(w, "return") => room[write[w].room].type = "group"
       /\ Is(w, "close")  => /\ room[write[w].room].type = "p2p"
                             /\ member[write[w].room].removed # 0
  /\ \A w, v \in Writers : Is(w, "create") /\ Is(v, "create") /\ write[w].room = write[v].room
                             => w = v

\* Only a room of two is closed, by somebody who has left it.
ClosedAfterLeft ==
  \A r \in Rooms : room[r].deleted # 0 => room[r].type = "p2p" /\ member[r].removed # 0

\* SyncTimestamps do not run ahead of the clock, and do not go back.
TimeShape == sync.pc # "idle" => since <= Seconds(sync.now) /\ sync.now <= clock
Behind    == since <= Seconds(clock)

\* Before the second query nothing is to be dropped.
SyncShape == sync.pc \in {"rooms", "gone"} => sync.gone = {}

\* What the client shows of the room, and what it will show with the reply on its way,
\* is right, or wrong in a way that the sync after it finds.
Later(r, t) == room[r].updated > t \/ member[r].updated > t
Catches(r) ==
  r \notin missed =>
    /\ Listed(r) /\ known[r] # room[r].ver => Later(r, since)
    /\ Gone(r) /\ known[r] # 0 => member[r].removed > since
    /\ sync.pc \in {"gone", "reply"} =>
         /\ Listed(r) /\ Merged(r) # room[r].ver => Later(r, SeenUpTo)
         /\ Gone(r) /\ Merged(r) # 0 => member[r].removed > GoneUpTo

IInv ==
  /\ TypeOK /\ WriteShape /\ ClosedAfterLeft /\ TimeShape /\ Behind /\ SyncShape
  /\ \A r \in Rooms : Catches(r)
------------------------------------------------------------------------------
\* The rows the statements leave are rows.
LEMMA RowForms ==
  ASSUME NEW t \in Time, NEW old \in Room, NEW row \in Member
  PROVE  /\ [old EXCEPT !.updated = t] \in Room
         /\ [old EXCEPT !.deleted = t] \in Room
         /\ \A type \in {"p2p", "group"} :
              [type |-> type, updated |-> t, deleted |-> 0, ver |-> 1] \in Room
         /\ [row EXCEPT !.updated = t] \in Member
         /\ [row EXCEPT !.removed = t] \in Member
         /\ [made |-> TRUE, updated |-> t, removed |-> 0] \in Member
<1>0. 0 \in Time /\ 1 \in 0..MaxVersion
  BY RoomSyncAssumption, SMT DEF Time
<1>1. [old EXCEPT !.updated = t] \in Room /\ [old EXCEPT !.deleted = t] \in Room
  BY SMT DEF Room
<1>2. \A type \in {"p2p", "group"} :
        [type |-> type, updated |-> t, deleted |-> 0, ver |-> 1] \in Room
  BY <1>0, SMT DEF Room
<1>3. [row EXCEPT !.updated = t] \in Member
  BY Zenon DEF Member
<1>4. [row EXCEPT !.removed = t] \in Member
  BY Zenon DEF Member
<1>5. [made |-> TRUE, updated |-> t, removed |-> 0] \in Member
  BY <1>0, Zenon DEF Member
<1> QED BY <1>1, <1>2, <1>3, <1>4, <1>5

\* What the statement w is about.
LEMMA WriteForms ==
  ASSUME IInv, NEW w \in Writers, ~Is(w, "none")
  PROVE  /\ write[w].room \in Rooms /\ write[w].stamp \in Time /\ Time \subseteq Nat
         /\ room[write[w].room] \in Room /\ member[write[w].room] \in Member
         /\ room \in [Rooms -> Room] /\ member \in [Rooms -> Member]
<1>1. Time \subseteq Nat
  BY SMT DEF Time
<1>2. write[w].room \in Rooms /\ write[w].stamp \in Time
  BY SMT DEF IInv, TypeOK, WriteShape, Is, Write
<1> QED BY <1>1, <1>2, SMT DEF IInv, TypeOK

\* A commit ends its write, and only its room may be missed.
LEMMA CommitFrame ==
  ASSUME IInv, NEW w \in Writers, Commit(w)
  PROVE  /\ ~Is(w, "none")
         /\ write' = [write EXCEPT ![w] = NoWrite]
         /\ missed' \in {missed, missed \cup {write[w].room}}
         /\ UNCHANGED <<clock, sync, since, known>>
<1>1. Is(w, "create") \/ Is(w, "room") \/ Is(w, "member") \/ Is(w, "pin") \/ Is(w, "leave")
      \/ Is(w, "return") \/ Is(w, "close")
  BY Zenon DEF Commit, CreateRoom, UpdateRoom, UpdateMember, PinRoom, LeaveRoom, AddParticipant,
     DeleteRoom
<1>2. ~Is(w, "none")
  BY <1>1, SMT DEF Is
<1>3. /\ write' = [write EXCEPT ![w] = NoWrite]
      /\ UNCHANGED <<clock, sync, since, known>>
  BY Zenon DEF Commit, CreateRoom, UpdateRoom, UpdateMember, PinRoom, LeaveRoom, AddParticipant,
     DeleteRoom, Commits
<1>4. missed' = missed \/ missed' = missed \cup {write[w].room}
  BY SMT DEF Commit, CreateRoom, UpdateRoom, UpdateMember, PinRoom, LeaveRoom, AddParticipant,
     DeleteRoom, Commits
<1> QED BY <1>2, <1>3, <1>4

\* What a commit makes of its room, and of no other.
Outcome(w, x) ==
  /\ room' \in [Rooms -> Room] /\ member' \in [Rooms -> Member]
  /\ \A r \in Rooms \ {x} : room'[r] = room[r] /\ member'[r] = member[r]
  /\ x \in missed' \/ (Listed(x)' => \/ room'[x].updated > SeenUpTo
                                     \/ member'[x].updated > SeenUpTo)
  /\ x \in missed' \/ (Gone(x)' => \/ Gone(x) /\ member'[x].removed = member[x].removed
                                   \/ member'[x].removed > GoneUpTo)
  /\ room'[x].deleted # 0 => room'[x].type = "p2p" /\ member'[x].removed # 0
  /\ Is(w, "create") \/ room'[x].type = room[x].type
  /\ Is(w, "create") \/ Is(w, "return") \/ (member[x].removed # 0 => member'[x].removed # 0)

\* The timestamps the definitions compare with are times.
LEMMA TimesForm ==
  ASSUME IInv
  PROVE  SeenUpTo \in Nat /\ GoneUpTo \in Nat /\ since \in Nat /\ sync.now \in Time
<1>1. since \in Nat /\ sync.now \in Nat /\ sync.now \in Time
  BY SMT DEF IInv, TypeOK, Sync, Time
<1>2. Seconds(sync.now) \in Nat
  BY <1>1, RoomSyncAssumption, SMT DEF Seconds
<1> QED BY <1>1, <1>2, SMT DEF SeenUpTo, GoneUpTo

\* CreateRoom makes a room that is shown, and found by its stamp.
LEMMA CreateOutcome ==
  ASSUME IInv, NEW w \in Writers, NEW x \in Rooms, x = write[w].room, CreateRoom(w)
  PROVE  Outcome(w, x)
<1> DEFINE t == write[w].stamp
<1>1. /\ t \in Time /\ t \in Nat /\ room \in [Rooms -> Room] /\ member \in [Rooms -> Member]
  BY WriteForms, SMT DEF CreateRoom, Is
<1>2. PICK type \in {"p2p", "group"} :
        room' = [room EXCEPT ![x] = [type |-> type, updated |-> t, deleted |-> 0, ver |-> 1]]
  BY Zenon DEF CreateRoom
<1>3. /\ member' = [member EXCEPT ![x] = [made |-> TRUE, updated |-> t, removed |-> 0]]
      /\ Is(w, "create") /\ (x \in missed' \/ ~(t <= SeenUpTo))
  BY SMT DEF CreateRoom, Commits
<1>4. /\ [type |-> type, updated |-> t, deleted |-> 0, ver |-> 1] \in Room
      /\ [made |-> TRUE, updated |-> t, removed |-> 0] \in Member
  BY <1>1, RowForms
<1> HIDE DEF t
<1>5. room' \in [Rooms -> Room] /\ member' \in [Rooms -> Member]
  BY <1>1, <1>2, <1>3, <1>4, SMT
<1>6. /\ \A r \in Rooms \ {x} : room'[r] = room[r] /\ member'[r] = member[r]
      /\ room'[x].updated = t /\ room'[x].deleted = 0 /\ member'[x].removed = 0
  BY <1>1, <1>2, <1>3, SMT
<1>7. SeenUpTo \in Nat
  BY TimesForm
<1> QED BY <1>1, <1>3, <1>5, <1>6, <1>7, SMT DEF Outcome, Listed, Gone, Active

\* A new version of a room differs in nothing else.
LEMMA ChangedForm ==
  ASSUME IInv, NEW x \in Rooms, room[x].ver < MaxVersion
  PROVE  /\ Changed(x) \in [Rooms -> Room]
         /\ Changed(x)[x].type = room[x].type /\ Changed(x)[x].deleted = room[x].deleted
         /\ Changed(x)[x].updated = room[x].updated
         /\ \A r \in Rooms \ {x} : Changed(x)[r] = room[r]
<1>1. room \in [Rooms -> Room] /\ room[x] \in Room /\ clock \in Time
  BY SMT DEF IInv, TypeOK
<1>2. [room[x] EXCEPT !.ver = @ + 1] \in Room
  <2>1. room[x].ver + 1 \in 0..MaxVersion
    BY <1>1, RoomSyncAssumption, SMT DEF Room
  <2> QED BY <1>1, <2>1, SMT DEF Room
<1>3. Changed(x) \in [Rooms -> Room] /\ Changed(x)[x] = [room[x] EXCEPT !.ver = @ + 1]
      /\ \A r \in Rooms \ {x} : Changed(x)[r] = room[r]
  BY <1>1, <1>2, SMT DEF Changed
<1> QED BY <1>1, <1>2, <1>3, SMT DEF Room

\* UpdateRoom stamps the row of the room.
LEMMA UpdateOutcome ==
  ASSUME IInv, NEW w \in Writers, NEW x \in Rooms, x = write[w].room, UpdateRoom(w)
  PROVE  Outcome(w, x)
<1> DEFINE t == write[w].stamp
<1>1. /\ t \in Time /\ t \in Nat /\ member \in [Rooms -> Member] /\ member[x].updated \in Nat
  BY WriteForms, SMT DEF UpdateRoom, Is, Member
<1>2. /\ room' = [Changed(x) EXCEPT ![x].updated = t] /\ member' = member
      /\ x \in missed' \/ ~(t <= SeenUpTo /\ member[x].updated <= SeenUpTo)
      /\ room[x].ver < MaxVersion
  BY SMT DEF UpdateRoom, Commits
<1> HIDE DEF t
<1>3. /\ Changed(x) \in [Rooms -> Room] /\ Changed(x)[x] \in Room
      /\ Changed(x)[x].type = room[x].type /\ Changed(x)[x].deleted = room[x].deleted
      /\ \A r \in Rooms \ {x} : Changed(x)[r] = room[r]
  BY <1>2, ChangedForm
<1>4. [Changed(x)[x] EXCEPT !.updated = t] \in Room
  BY <1>1, <1>3, SMT DEF Room
<1>5. room' \in [Rooms -> Room] /\ member' \in [Rooms -> Member]
  BY <1>1, <1>2, <1>3, <1>4, SMT
<1>6. /\ \A r \in Rooms \ {x} : room'[r] = room[r] /\ member'[r] = member[r]
      /\ room'[x].updated = t /\ room'[x].deleted = room[x].deleted /\ room'[x].type = room[x].type
  BY <1>1, <1>2, <1>3, SMT DEF Room
<1>7. SeenUpTo \in Nat /\ ClosedAfterLeft
  BY TimesForm DEF IInv
<1> QED BY <1>1, <1>2, <1>5, <1>6, <1>7, SMT DEF Outcome, Listed, Gone, Active, ClosedAfterLeft

\* MuteRoom, BlockUser and UpdateParticipantRoom stamp the row of the member.
LEMMA MemberOutcome ==
  ASSUME IInv, NEW w \in Writers, NEW x \in Rooms, x = write[w].room, UpdateMember(w)
  PROVE  Outcome(w, x)
<1> DEFINE t == write[w].stamp
<1>1. /\ t \in Time /\ t \in Nat /\ room \in [Rooms -> Room] /\ member \in [Rooms -> Member]
      /\ member[x] \in Member /\ room[x].updated \in Nat
  BY WriteForms, SMT DEF UpdateMember, Is, Room
<1>2. /\ room' = Changed(x) /\ member' = [member EXCEPT ![x].updated = t]
      /\ x \in missed' \/ ~(t <= SeenUpTo /\ room[x].updated <= SeenUpTo)
      /\ room[x].ver < MaxVersion
  BY SMT DEF UpdateMember, Commits
<1>3. [member[x] EXCEPT !.updated = t] \in Member
  BY <1>1, RowForms
<1> HIDE DEF t
<1>4. member' \in [Rooms -> Member]
  BY <1>1, <1>2, <1>3, SMT
<1>5. /\ \A r \in Rooms \ {x} : member'[r] = member[r]
      /\ member'[x].updated = t /\ member'[x].removed = member[x].removed
      /\ member'[x].made = member[x].made
  BY <1>1, <1>2, SMT DEF Member
<1>6. /\ room' \in [Rooms -> Room]
      /\ room'[x].type = room[x].type /\ room'[x].deleted = room[x].deleted
      /\ room'[x].updated = room[x].updated
      /\ \A r \in Rooms \ {x} : room'[r] = room[r]
  BY <1>2, ChangedForm
<1>7. SeenUpTo \in Nat /\ ClosedAfterLeft
  BY TimesForm DEF IInv
<1> QED BY <1>1, <1>2, <1>4, <1>5, <1>6, <1>7, SMT DEF Outcome, Listed, Gone, Active,
           ClosedAfterLeft

\* PinRoom stamps nothing, and is found by the stamps that are there.
LEMMA PinOutcome ==
  ASSUME IInv, NEW w \in Writers, NEW x \in Rooms, x = write[w].room, PinRoom(w)
  PROVE  Outcome(w, x)
<1>1. /\ member \in [Rooms -> Member] /\ room[x].updated \in Nat /\ member[x].updated \in Nat
  BY WriteForms, SMT DEF PinRoom, Is, Room, Member
<1>2. /\ room' = Changed(x) /\ member' = member
      /\ x \in missed' \/ ~(room[x].updated <= SeenUpTo /\ member[x].updated <= SeenUpTo)
      /\ room[x].ver < MaxVersion
  BY SMT DEF PinRoom, Commits
<1>3. /\ room' \in [Rooms -> Room]
      /\ room'[x].type = room[x].type /\ room'[x].deleted = room[x].deleted
      /\ room'[x].updated = room[x].updated
      /\ \A r \in Rooms \ {x} : room'[r] = room[r]
  BY <1>2, ChangedForm
<1>4. SeenUpTo \in Nat /\ ClosedAfterLeft
  BY TimesForm DEF IInv
<1> QED BY <1>1, <1>2, <1>3, <1>4, SMT DEF Outcome, Listed, Gone, Active, ClosedAfterLeft

\* LeaveRoom stamps the removal, if there is a member to remove.
LEMMA LeaveOutcome ==
  ASSUME IInv, NEW w \in Writers, NEW x \in Rooms, x = write[w].room, LeaveRoom(w)
  PROVE  Outcome(w, x)
<1> DEFINE t == write[w].stamp
<1>1. /\ t \in Time /\ t \in Nat /\ room \in [Rooms -> Room] /\ member \in [Rooms -> Member]
      /\ member[x] \in Member
  BY WriteForms, SMT DEF LeaveRoom, Is
<1>2. room' = room
  BY Zenon DEF LeaveRoom
<1>3. GoneUpTo \in Nat /\ ClosedAfterLeft
  BY TimesForm DEF IInv
<1>4. CASE ~Active(x)
  <2>1. member' = member
    BY <1>4, SMT DEF LeaveRoom
  <2> QED BY <1>1, <1>2, <1>3, <1>4, <2>1, SMT DEF Outcome, Listed, Gone, Active, ClosedAfterLeft
<1>5. CASE Active(x)
  <2> DEFINE mid == [member EXCEPT ![x].updated = t]
  <2>1. /\ member' = [mid EXCEPT ![x].removed = t]
        /\ x \in missed' \/ ~(t <= GoneUpTo)
    BY <1>1, <1>5, SMT DEF LeaveRoom, Commits
  <2>2. [member[x] EXCEPT !.updated = t] \in Member
    BY <1>1, RowForms
  <2> HIDE DEF t
  <2>3. mid \in [Rooms -> Member] /\ \A r \in Rooms \ {x} : mid[r] = member[r]
    BY <1>1, <2>2, SMT
  <2> HIDE DEF mid
  <2>4. mid[x] \in Member
    BY <2>3
  <2>5. [mid[x] EXCEPT !.removed = t] \in Member
    BY <1>1, <2>4, RowForms
  <2>6. member' \in [Rooms -> Member]
    BY <2>1, <2>3, <2>5, SMT
  <2>7. /\ \A r \in Rooms \ {x} : member'[r] = member[r]
        /\ member'[x].removed = t
    BY <2>1, <2>3, <2>4, SMT DEF Member
  <2>8. member[x].removed = 0 /\ member[x].made
    BY <1>5, Zenon DEF Active
  <2>9. room[x].deleted = 0
    BY <1>3, <2>8, SMT DEF ClosedAfterLeft
  <2>10. x \in missed' \/ t > GoneUpTo
    BY <1>1, <1>3, <2>1, SMT
  <2>11. x \in missed' \/ ~Listed(x)'
    BY <1>3, <2>7, <2>10, SMT DEF Listed, Active
  <2>12. x \in missed' \/ member'[x].removed > GoneUpTo
    BY <2>7, <2>10
  <2> QED BY <1>1, <1>2, <2>6, <2>7, <2>8, <2>9, <2>11, <2>12, SMT DEF Outcome
<1> QED BY <1>4, <1>5

\* AddParticipant returns to a room that is not closed, as it is a group.
LEMMA ReturnOutcome ==
  ASSUME IInv, NEW w \in Writers, NEW x \in Rooms, x = write[w].room, AddParticipant(w)
  PROVE  Outcome(w, x)
<1> DEFINE t   == write[w].stamp
           new == IF member[x].made THEN [member[x] EXCEPT !.removed = 0]
                  ELSE [made |-> TRUE, updated |-> t, removed |-> 0]
<1>1. /\ t \in Time /\ room \in [Rooms -> Room] /\ member \in [Rooms -> Member]
      /\ member[x] \in Member /\ room[x].updated \in Nat /\ 0 \in Time
  BY WriteForms, RoomSyncAssumption, SMT DEF AddParticipant, Is, Room, Time
<1>2. room' = room /\ member' = [member EXCEPT ![x] = new] /\ Is(w, "return")
  BY Zenon DEF AddParticipant
<1>3. x \in missed' \/ ~(room[x].updated <= SeenUpTo /\ member'[x].updated <= SeenUpTo)
  BY SMT DEF AddParticipant, Commits
<1>4. new \in Member /\ new.removed = 0
  <2>1. CASE member[x].made
    <3>1. [member[x] EXCEPT !.removed = 0] \in Member
      BY <1>1, RowForms
    <3>2. [member[x] EXCEPT !.removed = 0].removed = 0
      BY <1>1, SMT DEF Member
    <3> QED BY <2>1, <3>1, <3>2
  <2>2. CASE ~member[x].made
    <3>1. [made |-> TRUE, updated |-> t, removed |-> 0] \in Member
      BY <1>1, RowForms
    <3> QED BY <2>2, <3>1
  <2> QED BY <2>1, <2>2
<1> HIDE DEF new
<1>5. /\ member' \in [Rooms -> Member] /\ member'[x].removed = 0 /\ member'[x].updated \in Nat
      /\ \A r \in Rooms \ {x} : member'[r] = member[r]
  BY <1>1, <1>2, <1>4, SMT DEF Member, Time
<1>6. room[x].deleted = 0
  BY <1>2, SMT DEF IInv, ClosedAfterLeft, WriteShape, Is
<1>7. SeenUpTo \in Nat
  BY TimesForm
<1>8. ~Gone(x)' \/ ~member'[x].made
  BY <1>2, <1>5, <1>6, SMT DEF Gone, Listed, Active
<1>9. ~Gone(x)'
  BY <1>8, Zenon DEF Gone
<1>10. x \in missed' \/ room'[x].updated > SeenUpTo \/ member'[x].updated > SeenUpTo
  BY <1>1, <1>2, <1>3, <1>5, <1>7, SMT
<1> QED BY <1>1, <1>2, <1>5, <1>6, <1>9, <1>10, SMT DEF Outcome

\* DeleteRoom closes a room that was left.
LEMMA CloseOutcome ==
  ASSUME IInv, NEW w \in Writers, NEW x \in Rooms, x = write[w].room, DeleteRoom(w)
  PROVE  Outcome(w, x)
<1> DEFINE t   == write[w].stamp
           mid == [room EXCEPT ![x].updated = t]
<1>1. /\ t \in Time /\ room \in [Rooms -> Room] /\ member \in [Rooms -> Member]
      /\ room[x] \in Room
  BY WriteForms, SMT DEF DeleteRoom, Is
<1>2. room' = [mid EXCEPT ![x].deleted = t] /\ member' = member /\ Is(w, "close")
  BY <1>1, SMT DEF DeleteRoom
<1>3. [room[x] EXCEPT !.updated = t] \in Room
  BY <1>1, RowForms
<1> HIDE DEF t
<1>4. /\ mid \in [Rooms -> Room] /\ mid[x].type = room[x].type
      /\ \A r \in Rooms \ {x} : mid[r] = room[r]
  BY <1>1, <1>3, SMT DEF Room
<1> HIDE DEF mid
<1>5. mid[x] \in Room
  BY <1>4
<1>6. [mid[x] EXCEPT !.deleted = t] \in Room
  BY <1>1, <1>5, RowForms
<1>7. /\ room' \in [Rooms -> Room] /\ room'[x].type = room[x].type
      /\ \A r \in Rooms \ {x} : room'[r] = room[r]
  BY <1>2, <1>4, <1>5, <1>6, SMT DEF Room
<1>8. room[x].type = "p2p" /\ member[x].removed # 0
  BY <1>2, SMT DEF IInv, WriteShape, Is
<1> QED BY <1>1, <1>2, <1>7, <1>8, SMT DEF Outcome, Listed, Gone, Active

\* Every commit has such an outcome.
LEMMA CommitOutcome ==
  ASSUME IInv, NEW w \in Writers, Commit(w)
  PROVE  \E x \in Rooms : x = write[w].room /\ Outcome(w, x)
<1>1. PICK x \in Rooms : x = write[w].room
  BY CommitFrame, WriteForms
<1>2. Outcome(w, x)
  BY <1>1, CreateOutcome, UpdateOutcome, MemberOutcome, PinOutcome, LeaveOutcome, ReturnOutcome,
     CloseOutcome DEF Commit
<1> QED BY <1>1, <1>2
------------------------------------------------------------------------------
\* What SyncStart and the two queries make of the call.
Begun(n)           == [NoSync EXCEPT !.pc = "rooms", !.now = n]
HasRooms(x, F, R)  == [x EXCEPT !.pc = "gone", !.copy = F, !.rows = R]
HasGone(x, R)      == [x EXCEPT !.pc = "reply", !.gone = R]

\* The calls the model makes are calls.
LEMMA SyncForms ==
  /\ NoSync \in Sync /\ NoSync.pc = "idle"
  /\ \A n \in Time : Begun(n) \in Sync /\ Begun(n).pc = "rooms" /\ Begun(n).now = n
                     /\ Begun(n).gone = {}
  /\ \A x \in Sync, F \in [Rooms -> 0..MaxVersion], R \in SUBSET Rooms :
       /\ HasRooms(x, F, R) \in Sync /\ HasRooms(x, F, R).pc = "gone"
       /\ HasRooms(x, F, R).now = x.now /\ HasRooms(x, F, R).gone = x.gone
       /\ HasRooms(x, F, R).copy = F /\ HasRooms(x, F, R).rows = R
  /\ \A x \in Sync, R \in SUBSET Rooms :
       /\ HasGone(x, R) \in Sync /\ HasGone(x, R).pc = "reply"
       /\ HasGone(x, R).now = x.now /\ HasGone(x, R).copy = x.copy
       /\ HasGone(x, R).rows = x.rows /\ HasGone(x, R).gone = R
<1>1. NoSync \in Sync /\ NoSync.pc = "idle" /\ NoSync.gone = {}
  <2>1. NoCopy \in [Rooms -> 0..MaxVersion] /\ 0 \in Time
    BY RoomSyncAssumption, SMT DEF NoCopy, Time
  <2> QED BY <2>1, SMT DEF NoSync, Sync
<1>2. ASSUME NEW n \in Time
      PROVE  /\ Begun(n) \in Sync /\ Begun(n).pc = "rooms" /\ Begun(n).now = n
             /\ Begun(n).gone = {}
  <2> DEFINE y == [NoSync EXCEPT !.pc = "rooms"]
  <2>1. Begun(n) = [y EXCEPT !.now = n]
    BY SMT DEF Begun
  <2>2. y \in Sync /\ y.pc = "rooms" /\ y.gone = {}
    BY <1>1, SMT DEF Sync
  <2> HIDE DEF y
  <2> QED BY <2>1, <2>2, SMT DEF Sync
<1>3. ASSUME NEW x \in Sync, NEW F \in [Rooms -> 0..MaxVersion], NEW R \in SUBSET Rooms
      PROVE  /\ HasRooms(x, F, R) \in Sync /\ HasRooms(x, F, R).pc = "gone"
             /\ HasRooms(x, F, R).now = x.now /\ HasRooms(x, F, R).gone = x.gone
             /\ HasRooms(x, F, R).copy = F /\ HasRooms(x, F, R).rows = R
  <2> DEFINE a == [x EXCEPT !.pc = "gone"]
             b == [a EXCEPT !.copy = F]
             c == [b EXCEPT !.rows = R]
  <2>1. HasRooms(x, F, R) = c
    BY SMT DEF HasRooms
  <2>2. a \in Sync /\ a.pc = "gone" /\ a.now = x.now /\ a.gone = x.gone
    BY SMT DEF Sync
  <2> HIDE DEF a
  <2>3. b \in Sync /\ b.pc = "gone" /\ b.now = x.now /\ b.gone = x.gone /\ b.copy = F
    BY <2>2, SMT DEF Sync
  <2> HIDE DEF b
  <2>4. c \in Sync /\ c.pc = "gone" /\ c.now = x.now /\ c.gone = x.gone /\ c.copy = F
        /\ c.rows = R
    BY <2>3, SMT DEF Sync
  <2> HIDE DEF c
  <2> QED BY <2>1, <2>4
<1>4. ASSUME NEW x \in Sync, NEW R \in SUBSET Rooms
      PROVE  /\ HasGone(x, R) \in Sync /\ HasGone(x, R).pc = "reply"
             /\ HasGone(x, R).now = x.now /\ HasGone(x, R).copy = x.copy
             /\ HasGone(x, R).rows = x.rows /\ HasGone(x, R).gone = R
  <2> DEFINE a == [x EXCEPT !.pc = "reply"]
             b == [a EXCEPT !.gone = R]
  <2>1. HasGone(x, R) = b
    BY SMT DEF HasGone
  <2>2. a \in Sync /\ a.pc = "reply" /\ a.now = x.now /\ a.copy = x.copy /\ a.rows = x.rows
    BY SMT DEF Sync
  <2> HIDE DEF a
  <2>3. b \in Sync /\ b.pc = "reply" /\ b.now = x.now /\ b.copy = x.copy /\ b.rows = x.rows
        /\ b.gone = R
    BY <2>2, SMT DEF Sync
  <2> HIDE DEF b
  <2> QED BY <2>1, <2>3
<1> QED BY <1>1, <1>2, <1>3, <1>4

\* A timestamp cut to the second.
LEMMA SecondsForm ==
  ASSUME NEW a \in Nat, NEW b \in Nat, a <= b
  PROVE  Seconds(a) \in Nat /\ Seconds(a) <= Seconds(b) /\ Seconds(a) <= a
<1> DEFINE T == TicksPerSecond
           q == a \div T
           r == b \div T
<1>1. T \in Nat /\ T > 0
  BY RoomSyncAssumption, SMT
<1> HIDE DEF T
<1>2. q \in Nat /\ r \in Nat
  BY <1>1, SMT
<1>3. T * q <= a /\ b < T * (r + 1)
  BY <1>1, SMT
<1>4. q <= r
  <2> SUFFICES ASSUME r + 1 <= q PROVE FALSE
    BY <1>2, SMT
  <2> HIDE DEF q, r
  <2>1. T * (r + 1) <= T * q
    BY <1>1, <1>2, SMT
  <2> QED BY <1>1, <1>2, <1>3, <2>1, SMT
<1> HIDE DEF q, r
<1>5. T * q \in Nat /\ T * r \in Nat /\ T * q <= T * r
  BY <1>1, <1>2, <1>4, SMT
<1> QED BY <1>3, <1>5 DEF Seconds, T, q, r

\* There is no room at first, and nothing shown.
LEMMA InitInv == Init => IInv
<1> SUFFICES ASSUME Init PROVE IInv
  OBVIOUS
<1> USE RoomSyncAssumption
<1>0. 0 \in Time /\ clock \in Time /\ clock \in Nat /\ since = 0 /\ 0 \in 0..MaxVersion
  BY SMT DEF Init, Time
<1>1. TypeOK
  <2>1. NoRow \in Room
    BY <1>0, SMT DEF NoRow, Room
  <2>2. NoMember \in Member
    BY <1>0, Zenon DEF NoMember, Member
  <2>3. NoWrite \in Write
    BY <1>0, SMT DEF NoWrite, Write
  <2>4. room \in [Rooms -> Room] /\ member \in [Rooms -> Member] /\ write \in [Writers -> Write]
    BY <2>1, <2>2, <2>3, SMT DEF Init
  <2>5. known \in [Rooms -> 0..MaxVersion]
    BY <1>0, SMT DEF Init, NoCopy
  <2>6. sync \in Sync /\ missed = {}
    BY SyncForms, Zenon DEF Init
  <2> QED BY <1>0, <2>4, <2>5, <2>6, SMT DEF TypeOK
<1>2. WriteShape
  <2>1. \A w \in Writers : write[w].kind = "none"
    BY SMT DEF Init, NoWrite
  <2> QED BY <2>1, SMT DEF WriteShape, Is
<1>3. ClosedAfterLeft
  BY SMT DEF Init, ClosedAfterLeft, NoRow
<1>4. sync.pc = "idle"
  BY SyncForms, Zenon DEF Init
<1>5. Behind
  <2>1. clock <= clock
    BY <1>0, SMT
  <2>2. Seconds(clock) \in Nat
    BY <1>0, <2>1, SecondsForm
  <2> QED BY <1>0, <2>2, SMT DEF Behind
<1>6. \A r \in Rooms : Catches(r)
  <2> SUFFICES ASSUME NEW r \in Rooms PROVE Catches(r)
    OBVIOUS
  <2>1. member[r].made = FALSE /\ known[r] = 0
    BY SMT DEF Init, NoMember, NoCopy
  <2> QED BY <1>4, <2>1, SMT DEF Catches, Listed, Active, Gone
<1> QED BY <1>1, <1>2, <1>3, <1>4, <1>5, <1>6, SMT DEF IInv, TimeShape, SyncShape
------------------------------------------------------------------------------
\* A statement that begins has looked at the room.
LEMMA BeginEffect ==
  ASSUME IInv, NEW w \in Writers, NEW kind \in Kinds, NEW r \in Rooms, Begin(w, kind, r)
  PROVE  /\ write' \in [Writers -> Write] /\ WriteShape'
         /\ UNCHANGED <<clock, room, member, sync, since, known, missed>>
<1> DEFINE x == [kind |-> kind, room |-> r, stamp |-> clock]
<1>1. /\ write \in [Writers -> Write] /\ clock \in Time /\ x \in Write
      /\ x.kind = kind /\ x.room = r
  BY SMT DEF IInv, TypeOK, Write
<1>2. /\ write' = [write EXCEPT ![w] = x] /\ May(kind, r)
      /\ UNCHANGED <<clock, room, member, sync, since, known, missed>>
  BY Zenon DEF Begin
<1> HIDE DEF x
<1>3. write' \in [Writers -> Write] /\ write'[w] = x
      /\ \A v \in Writers : v # w => write'[v] = write[v]
  BY <1>1, <1>2, SMT
<1>4. /\ kind = "create" => room[r].type = "none" /\ \A v \in Writers : write[v].room # r
      /\ kind = "return" => room[r].type = "group"
      /\ kind = "close"  => room[r].type = "p2p" /\ member[r].removed # 0
  BY <1>2, SMT DEF May, Gone, Listed, Active
<1>5. WriteShape
  BY DEF IInv
<1>6. WriteShape'
  <2>1. ASSUME NEW v \in Writers
        PROVE  /\ write'[v].kind # "none" => write'[v].room \in Rooms
               /\ Is(v, "create")' => room'[write'[v].room].type = "none"
               /\ Is(v, "return")' => room'[write'[v].room].type = "group"
               /\ Is(v, "close")'  => /\ room'[write'[v].room].type = "p2p"
                                      /\ member'[write'[v].room].removed # 0
    <3>1. CASE v = w
      BY <1>1, <1>2, <1>3, <1>4, <3>1, SMT DEF Is
    <3>2. CASE v # w
      BY <1>2, <1>3, <1>5, <3>2, SMT DEF Is, WriteShape
    <3> QED BY <3>1, <3>2
  <2>2. ASSUME NEW v \in Writers, NEW u \in Writers, Is(v, "create")', Is(u, "create")',
               write'[v].room = write'[u].room
        PROVE  v = u
    BY <1>1, <1>3, <1>4, <1>5, <2>2, SMT DEF Is, WriteShape
  <2> QED BY <2>1, <2>2, Zenon DEF WriteShape
<1> QED BY <1>2, <1>3, <1>6

\* A write that ends leaves its writer with none.
LEMMA EndEffect ==
  ASSUME IInv, NEW w \in Writers, write' = [write EXCEPT ![w] = NoWrite]
  PROVE  /\ write' \in [Writers -> Write] /\ write'[w].kind = "none"
         /\ \A v \in Writers : v # w => write'[v] = write[v]
<1>1. NoWrite \in Write /\ NoWrite.kind = "none"
  BY RoomSyncAssumption, SMT DEF NoWrite, Write, Time
<1> QED BY <1>1, SMT DEF IInv, TypeOK

\* A write that is given up leaves the others as they were.
LEMMA AbortShape ==
  ASSUME IInv, NEW w \in Writers, Abort(w)
  PROVE  write' \in [Writers -> Write] /\ WriteShape'
<1>1. /\ write' \in [Writers -> Write] /\ write'[w].kind = "none"
      /\ \A v \in Writers : v # w => write'[v] = write[v]
      /\ UNCHANGED <<room, member>>
  <2>1. write' = [write EXCEPT ![w] = NoWrite] /\ UNCHANGED <<room, member>>
    BY Zenon DEF Abort
  <2> QED BY <2>1, EndEffect
<1>2. WriteShape
  BY DEF IInv
<1> QED BY <1>1, <1>2, SMT DEF WriteShape, Is

\* What other statements rely on is still so after a commit.
LEMMA CommitShape ==
  ASSUME IInv, NEW w \in Writers, Commit(w)
  PROVE  TypeOK' /\ WriteShape' /\ ClosedAfterLeft'
<1>1. PICK x \in Rooms : x = write[w].room /\ Outcome(w, x)
  BY CommitOutcome
<1>2. /\ missed' \in {missed, missed \cup {x}} /\ ~Is(w, "none")
      /\ UNCHANGED <<clock, sync, since, known>> /\ write' = [write EXCEPT ![w] = NoWrite]
  BY <1>1, CommitFrame
<1>3. /\ write' \in [Writers -> Write] /\ write'[w].kind = "none"
      /\ \A v \in Writers : v # w => write'[v] = write[v]
  BY <1>2, EndEffect
<1>4. TypeOK /\ WriteShape /\ ClosedAfterLeft
  BY DEF IInv
<1>5. TypeOK'
  <2>1. missed' \subseteq Rooms
    BY <1>2, <1>4, SMT DEF TypeOK
  <2> QED BY <1>1, <1>2, <1>3, <1>4, <2>1, SMT DEF TypeOK, Outcome
<1>6. ClosedAfterLeft'
  BY <1>1, <1>4, SMT DEF ClosedAfterLeft, Outcome
<1>7. WriteShape'
  <2>1. ASSUME NEW v \in Writers
        PROVE  /\ write'[v].kind # "none" => write'[v].room \in Rooms
               /\ Is(v, "create")' => room'[write'[v].room].type = "none"
               /\ Is(v, "return")' => room'[write'[v].room].type = "group"
               /\ Is(v, "close")'  => /\ room'[write'[v].room].type = "p2p"
                                      /\ member'[write'[v].room].removed # 0
    <3>1. CASE v = w
      BY <1>3, <3>1, SMT DEF Is
    <3>2. CASE v # w /\ write[v].room # x
      BY <1>1, <1>3, <1>4, <3>2, SMT DEF Is, WriteShape, Outcome
    <3>3. CASE v # w /\ write[v].room = x
      BY <1>1, <1>2, <1>3, <1>4, <3>3, SMT DEF Is, WriteShape, Outcome
    <3> QED BY <3>1, <3>2, <3>3
  <2>2. ASSUME NEW v \in Writers, NEW u \in Writers, Is(v, "create")', Is(u, "create")',
               write'[v].room = write'[u].room
        PROVE  v = u
    BY <1>3, <1>4, <2>2, SMT DEF Is, WriteShape
  <2> QED BY <2>1, <2>2, Zenon DEF WriteShape
<1> QED BY <1>5, <1>6, <1>7

\* InitialSync reads, and its results are such.
LEMMA SyncEffect ==
  ASSUME IInv, SyncStart \/ GetRoomList \/ GetRoomListDeleted \/ Reply \/ SyncFails
  PROVE  /\ UNCHANGED <<clock, room, member, write>> /\ sync' \in Sync
         /\ since' \in Time /\ known' \in [Rooms -> 0..MaxVersion] /\ missed' \subseteq Rooms
         /\ since' <= clock
<1>1. /\ clock \in Time /\ sync \in Sync /\ since \in Time /\ since <= clock
      /\ known \in [Rooms -> 0..MaxVersion]
      /\ missed \subseteq Rooms /\ room \in [Rooms -> Room]
  BY Zenon DEF IInv, TypeOK
<1>2. UNCHANGED <<clock, room, member, write>>
  BY Zenon DEF SyncStart, GetRoomList, GetRoomListDeleted, Reply, SyncFails, db
<1>3. CASE SyncStart
  <2>1. sync' = Begun(clock) /\ UNCHANGED <<since, known, missed>>
    BY <1>3, Zenon DEF SyncStart, Begun
  <2> QED BY <1>1, <1>2, <2>1, SyncForms
<1>4. CASE GetRoomList
  <2> DEFINE F == [r \in Rooms |-> room[r].ver]
             R == {r \in Rooms : Listed(r) /\ ChangedSince(r)}
  <2>1. sync' = HasRooms(sync, F, R) /\ UNCHANGED <<since, known, missed>>
    BY <1>4, Zenon DEF GetRoomList, HasRooms
  <2>2. F \in [Rooms -> 0..MaxVersion] /\ R \in SUBSET Rooms
    BY <1>1, SMT DEF Room
  <2> HIDE DEF F, R
  <2> QED BY <1>1, <1>2, <2>1, <2>2, SyncForms
<1>5. CASE GetRoomListDeleted
  <2> DEFINE R == {r \in Rooms : Gone(r) /\ GoneSince(r)}
  <2>1. sync' = HasGone(sync, R) /\ UNCHANGED <<since, known, missed>>
    BY <1>5, Zenon DEF GetRoomListDeleted, HasGone
  <2>2. R \in SUBSET Rooms
    BY SMT
  <2> HIDE DEF R
  <2> QED BY <1>1, <1>2, <2>1, <2>2, SyncForms
<1>6. CASE Reply
  <2>1. /\ known' = [r \in Rooms |-> Merged(r)] /\ since' = Seconds(sync.now) /\ sync' = NoSync
        /\ missed' = {r \in missed : Merged(r) # Right(r)}
    BY <1>6, Zenon DEF Reply
  <2>2. \A r \in Rooms : Merged(r) \in 0..MaxVersion
    BY <1>1, RoomSyncAssumption, SMT DEF Merged, Sync
  <2>3. Seconds(sync.now) \in Time
    <3>1. sync.now \in Nat /\ sync.now <= sync.now /\ sync.now \in Time
      BY <1>1, SMT DEF Sync, Time
    <3>2. Seconds(sync.now) \in Nat /\ Seconds(sync.now) <= sync.now
      BY <3>1, SecondsForm
    <3> QED BY <3>1, <3>2, RoomSyncAssumption, SMT DEF Time
  <2>4. Seconds(sync.now) <= clock
    <3>1. sync.pc # "idle"
      BY <1>6, Zenon DEF Reply
    <3>2. sync.now <= clock
      BY <3>1, Zenon DEF IInv, TimeShape
    <3>3. sync.now \in Nat /\ clock \in Nat
      BY <1>1, SMT DEF Sync, Time
    <3>4. Seconds(sync.now) \in Nat /\ Seconds(sync.now) <= sync.now
      BY <3>2, <3>3, SecondsForm
    <3> QED BY <3>2, <3>3, <3>4, SMT
  <2>5. known' \in [Rooms -> 0..MaxVersion] /\ missed' \subseteq Rooms
    BY <1>1, <2>1, <2>2, SMT
  <2> QED BY <1>2, <2>1, <2>3, <2>4, <2>5, SyncForms
<1>7. CASE SyncFails
  <2>1. sync' = NoSync /\ UNCHANGED <<since, known, missed>>
    BY <1>7, Zenon DEF SyncFails
  <2> QED BY <1>1, <1>2, <2>1, SyncForms
<1> QED BY <1>3, <1>4, <1>5, <1>6, <1>7

\* Every step keeps the types, and what a statement relies on.
LEMMA TypeStep == IInv /\ [Next]_vars => TypeOK' /\ WriteShape' /\ ClosedAfterLeft'
<1> SUFFICES ASSUME IInv, [Next]_vars PROVE TypeOK' /\ WriteShape' /\ ClosedAfterLeft'
  OBVIOUS
<1>0. TypeOK /\ WriteShape /\ ClosedAfterLeft
  BY DEF IInv
<1>1. CASE Tick
  <2>1. clock' \in Time /\ UNCHANGED <<room, member, write, sync, since, known, missed>>
    BY <1>0, <1>1, RoomSyncAssumption, SMT DEF Tick, TypeOK, Time
  <2>2. since' <= clock'
    <3>1. since \in Nat /\ clock \in Nat /\ since <= clock /\ clock' = clock + 1 /\ since' = since
      BY <1>0, <1>1, SMT DEF Tick, TypeOK, Time
    <3> QED BY <3>1, SMT
  <2> QED BY <1>0, <2>1, <2>2, SMT DEF TypeOK, WriteShape, ClosedAfterLeft, Is
<1>2. ASSUME NEW w \in Writers, NEW kind \in Kinds, NEW r \in Rooms, Begin(w, kind, r)
      PROVE  TypeOK' /\ WriteShape' /\ ClosedAfterLeft'
  BY <1>0, <1>2, BeginEffect, SMT DEF TypeOK, ClosedAfterLeft
<1>3. ASSUME NEW w \in Writers, Commit(w)
      PROVE  TypeOK' /\ WriteShape' /\ ClosedAfterLeft'
  BY <1>3, CommitShape
<1>4. ASSUME NEW w \in Writers, Abort(w)
      PROVE  TypeOK' /\ WriteShape' /\ ClosedAfterLeft'
  <2>1. UNCHANGED <<clock, room, member, sync, since, known, missed>>
    BY <1>4, Zenon DEF Abort
  <2> QED BY <1>0, <1>4, <2>1, AbortShape, SMT DEF TypeOK, ClosedAfterLeft
<1>5. CASE SyncStart \/ GetRoomList \/ GetRoomListDeleted \/ Reply \/ SyncFails
  BY <1>0, <1>5, SyncEffect, SMT DEF TypeOK, WriteShape, ClosedAfterLeft, Is
<1>6. CASE UNCHANGED vars
  BY <1>0, <1>6, SMT DEF vars, TypeOK, WriteShape, ClosedAfterLeft, Is
<1> QED BY <1>1, <1>2, <1>3, <1>4, <1>5, <1>6 DEF Next
------------------------------------------------------------------------------
\* GetRoomList: the rooms that are selected, with their versions.
LEMMA RoomsEffect ==
  ASSUME IInv, GetRoomList
  PROVE  /\ UNCHANGED <<clock, room, member, write, since, known, missed>>
         /\ sync.pc = "rooms" /\ sync'.pc = "gone"
         /\ sync'.now = sync.now /\ sync'.gone = sync.gone
         /\ \A r \in Rooms : sync'.copy[r] = room[r].ver
         /\ sync'.rows = {r \in Rooms : Listed(r) /\ ChangedSince(r)}
<1> DEFINE F == [r \in Rooms |-> room[r].ver]
           R == {r \in Rooms : Listed(r) /\ ChangedSince(r)}
<1>1. /\ sync' = HasRooms(sync, F, R) /\ sync.pc = "rooms"
      /\ UNCHANGED <<clock, room, member, write, since, known, missed>>
  BY Zenon DEF GetRoomList, HasRooms, db
<1>2. F \in [Rooms -> 0..MaxVersion] /\ R \in SUBSET Rooms /\ sync \in Sync
  BY SMT DEF IInv, TypeOK, Room
<1>3. \A r \in Rooms : F[r] = room[r].ver
  BY SMT
<1> HIDE DEF F
<1>4. R \in SUBSET Rooms /\ R = {r \in Rooms : Listed(r) /\ ChangedSince(r)}
  BY <1>2
<1> HIDE DEF R
<1>5. /\ sync'.pc = "gone" /\ sync'.now = sync.now /\ sync'.gone = sync.gone
      /\ sync'.copy = F /\ sync'.rows = R
  BY <1>1, <1>2, SyncForms
<1> QED BY <1>1, <1>3, <1>4, <1>5

\* GetRoomListDeleted: the rooms that are selected.
LEMMA GoneEffect ==
  ASSUME IInv, GetRoomListDeleted
  PROVE  /\ UNCHANGED <<clock, room, member, write, since, known, missed>>
         /\ sync.pc = "gone" /\ sync'.pc = "reply"
         /\ sync'.now = sync.now /\ sync'.copy = sync.copy /\ sync'.rows = sync.rows
         /\ sync'.gone = {r \in Rooms : Gone(r) /\ GoneSince(r)}
<1> DEFINE R == {r \in Rooms : Gone(r) /\ GoneSince(r)}
<1>1. /\ sync' = HasGone(sync, R) /\ sync.pc = "gone"
      /\ UNCHANGED <<clock, room, member, write, since, known, missed>>
  BY Zenon DEF GetRoomListDeleted, HasGone, db
<1>2. R \in SUBSET Rooms /\ sync \in Sync /\ R = {r \in Rooms : Gone(r) /\ GoneSince(r)}
  BY SMT DEF IInv, TypeOK
<1> HIDE DEF R
<1>3. /\ sync'.pc = "reply" /\ sync'.now = sync.now /\ sync'.copy = sync.copy
      /\ sync'.rows = sync.rows /\ sync'.gone = R
  BY <1>1, <1>2, SyncForms
<1> QED BY <1>1, <1>2, <1>3

\* A call that begins or fails holds no results.
LEMMA StartEffect ==
  ASSUME IInv, SyncStart \/ SyncFails
  PROVE  /\ UNCHANGED <<clock, room, member, write, since, known, missed>>
         /\ \/ SyncStart /\ sync'.pc = "rooms" /\ sync'.now = clock /\ sync'.gone = {}
            \/ sync'.pc = "idle"
<1>1. UNCHANGED <<clock, room, member, write, since, known, missed>>
  BY Zenon DEF SyncStart, SyncFails, db
<1>2. CASE SyncStart
  <2>1. sync' = Begun(clock) /\ clock \in Time
    BY <1>2, Zenon DEF SyncStart, Begun, IInv, TypeOK
  <2> QED BY <1>1, <1>2, <2>1, SyncForms
<1>3. CASE SyncFails
  <2>1. sync' = NoSync
    BY <1>3, Zenon DEF SyncFails
  <2> QED BY <1>1, <2>1, SyncForms
<1> QED BY <1>2, <1>3

\* The clock runs, and a timestamp that is handed out is one of a call that started before.
LEMMA TimeStep == IInv /\ [Next]_vars => TimeShape' /\ Behind' /\ SyncShape'
<1> SUFFICES ASSUME IInv, [Next]_vars PROVE TimeShape' /\ Behind' /\ SyncShape'
  OBVIOUS
<1>0. /\ TimeShape /\ Behind /\ SyncShape /\ clock \in Nat /\ since \in Nat /\ sync.now \in Nat
      /\ sync \in Sync /\ clock \in Time /\ sync.pc \in {"idle", "rooms", "gone", "reply"}
  BY SMT DEF IInv, TypeOK, Sync, Time
<1>1. /\ Seconds(clock) \in Nat /\ Seconds(clock + 1) \in Nat /\ Seconds(sync.now) \in Nat
      /\ Seconds(clock) <= Seconds(clock + 1)
      /\ sync.now <= clock => Seconds(sync.now) <= Seconds(clock)
  <2>1. clock + 1 \in Nat /\ clock <= clock + 1 /\ sync.now <= sync.now
    BY <1>0, SMT
  <2> QED BY <1>0, <2>1, SecondsForm
<1>2. CASE Tick
  <2>1. clock' = clock + 1 /\ UNCHANGED <<since, sync>>
    BY <1>2, Zenon DEF Tick
  <2> QED BY <1>0, <1>1, <2>1, SMT DEF TimeShape, Behind, SyncShape
<1>3. CASE UNCHANGED <<clock, since, sync>>
  BY <1>0, <1>3, SMT DEF TimeShape, Behind, SyncShape
<1>4. CASE SyncStart \/ SyncFails
  BY <1>0, <1>4, StartEffect, SMT DEF TimeShape, Behind, SyncShape
<1>5. CASE GetRoomList
  BY <1>0, <1>5, RoomsEffect, SMT DEF TimeShape, Behind, SyncShape
<1>6. CASE GetRoomListDeleted
  BY <1>0, <1>6, GoneEffect, SMT DEF TimeShape, Behind, SyncShape
<1>7. CASE Reply
  <2>1. since' = Seconds(sync.now) /\ sync' = NoSync /\ UNCHANGED clock /\ sync.pc = "reply"
    BY <1>7, Zenon DEF Reply, db
  <2>2. sync'.pc = "idle"
    BY <2>1, SyncForms
  <2> QED BY <1>0, <1>1, <2>1, <2>2, SMT DEF TimeShape, Behind, SyncShape
<1>8. \/ Tick \/ SyncStart \/ SyncFails \/ GetRoomList \/ GetRoomListDeleted \/ Reply
      \/ UNCHANGED <<clock, since, sync>>
  <2>1. ASSUME NEW w \in Writers, Commit(w) PROVE UNCHANGED <<clock, since, sync>>
    BY <2>1, CommitFrame
  <2> QED BY <2>1, Zenon DEF Next, vars, Begin, Abort
<1> QED BY <1>2, <1>3, <1>4, <1>5, <1>6, <1>7, <1>8
------------------------------------------------------------------------------
\* The timestamp of the client is not after the one it is about to get.
LEMMA OrderForm ==
  ASSUME IInv
  PROVE  /\ SeenUpTo \in Nat /\ GoneUpTo \in Nat /\ since \in Nat
         /\ since <= SeenUpTo /\ since <= GoneUpTo
         /\ \A r \in Rooms : /\ room[r].updated \in Nat /\ member[r].updated \in Nat
                             /\ room[r].deleted \in Nat /\ member[r].removed \in Nat
<1>1. SeenUpTo \in Nat /\ GoneUpTo \in Nat /\ since \in Nat
  BY TimesForm
<1>2. \A r \in Rooms : room[r].updated \in Nat /\ room[r].deleted \in Nat
  BY SMT DEF IInv, TypeOK, Room, Time
<1>3. \A r \in Rooms : member[r].updated \in Nat /\ member[r].removed \in Nat
  BY SMT DEF IInv, TypeOK, Member, Time
<1>4. since <= SeenUpTo /\ since <= GoneUpTo
  BY <1>1, SMT DEF IInv, TimeShape, SeenUpTo, GoneUpTo
<1> QED BY <1>1, <1>2, <1>3, <1>4

\* A commit is found by the next sync, or its room is missed.
LEMMA CommitCatches ==
  ASSUME IInv, NEW w \in Writers, Commit(w), NEW r \in Rooms
  PROVE  Catches(r)'
<1>1. PICK x \in Rooms : x = write[w].room /\ Outcome(w, x)
  BY CommitOutcome
<1>2. /\ \A q \in Rooms : q \in missed => q \in missed'
      /\ UNCHANGED <<clock, sync, since, known>>
  BY CommitFrame, SMT
<1>3. /\ SeenUpTo \in Nat /\ GoneUpTo \in Nat /\ since \in Nat
      /\ since <= SeenUpTo /\ since <= GoneUpTo
      /\ SeenUpTo' = SeenUpTo /\ GoneUpTo' = GoneUpTo /\ Merged(r)' = Merged(r)
  BY <1>2, OrderForm, Zenon DEF SeenUpTo, GoneUpTo, Merged, Seconds
<1>4. Catches(r)
  BY DEF IInv
<1>5. TypeOK'
  BY CommitShape
<1>6. CASE r # x
  <2>1. room'[r] = room[r] /\ member'[r] = member[r]
    BY <1>1, <1>6, Zenon DEF Outcome
  <2> QED BY <1>2, <1>3, <1>4, <2>1, SMT DEF Catches, Listed, Gone, Active, Later
<1>7. CASE r = x
  <2>1. room'[r].updated \in Nat /\ member'[r].updated \in Nat /\ member'[r].removed \in Nat
    BY <1>5, SMT DEF TypeOK, Room, Member, Time
  <2>2. SUFFICES ASSUME r \notin missed' PROVE Catches(r)'
    BY Zenon DEF Catches
  <2>3. /\ Listed(r)' => room'[r].updated > SeenUpTo \/ member'[r].updated > SeenUpTo
        /\ Gone(r)' => \/ Gone(r) /\ member'[r].removed = member[r].removed
                       \/ member'[r].removed > GoneUpTo
    BY <1>1, <1>7, <2>2, Zenon DEF Outcome
  <2>4. Listed(r)' => Later(r, since)' /\ Later(r, SeenUpTo)'
    BY <1>2, <1>3, <2>1, <2>3, SMT DEF Later
  <2>5. /\ Gone(r)' /\ known'[r] # 0 => member'[r].removed > since'
        /\ sync'.pc \in {"gone", "reply"} /\ Gone(r)' /\ Merged(r)' # 0 =>
             member'[r].removed > GoneUpTo'
    BY <1>2, <1>3, <1>4, <2>1, <2>2, <2>3, SMT DEF Catches
  <2> QED BY <2>4, <2>5, Zenon DEF Catches
<1> QED BY <1>6, <1>7

\* A room that is not selected has not changed since the client last took it.
LEMMA RoomsCatches ==
  ASSUME IInv, GetRoomList, NEW r \in Rooms
  PROVE  Catches(r)'
<1>1. /\ UNCHANGED <<clock, room, member, write, since, known, missed>>
      /\ sync.pc = "rooms" /\ sync'.pc = "gone" /\ sync'.gone = sync.gone
      /\ sync'.copy[r] = room[r].ver
      /\ sync'.rows = {q \in Rooms : Listed(q) /\ ChangedSince(q)}
  BY RoomsEffect
<1>2. Catches(r) /\ sync.gone = {}
  BY <1>1, SMT DEF IInv, SyncShape
<1>3. GoneUpTo' = since
  BY <1>1, SMT DEF GoneUpTo
<1>4. /\ Listed(r)' = Listed(r) /\ Gone(r)' = Gone(r)
  BY <1>1, Zenon DEF Listed, Gone, Active
<1>5. Merged(r)' = IF Listed(r) /\ ChangedSince(r) THEN room[r].ver ELSE known[r]
  <2>1. r \notin sync'.gone
    BY <1>1, <1>2, SMT
  <2>2. CASE Listed(r) /\ ChangedSince(r)
    <3>1. r \in sync'.rows
      BY <1>1, <2>2
    <3> QED BY <1>1, <2>1, <2>2, <3>1, SMT DEF Merged
  <2>3. CASE ~(Listed(r) /\ ChangedSince(r))
    <3>1. r \notin sync'.rows
      BY <1>1, <2>3
    <3> QED BY <1>1, <2>1, <2>3, <3>1, SMT DEF Merged
  <2> QED BY <2>2, <2>3
<1>6. Listed(r) /\ r \notin missed => Merged(r)' = room[r].ver
  BY <1>2, <1>5, SMT DEF Catches, Later, ChangedSince
<1>7. Gone(r) => Merged(r)' = known[r]
  BY <1>5, Zenon DEF Gone
<1>8. /\ Listed(r)' /\ known'[r] # room'[r].ver /\ r \notin missed' => Later(r, since)'
  BY <1>1, <1>2, <1>4, SMT DEF Catches, Later
<1>9. r \notin missed' /\ Gone(r)' =>
        /\ known'[r] # 0 => member'[r].removed > since'
        /\ Merged(r)' # 0 => member'[r].removed > GoneUpTo'
  BY <1>1, <1>2, <1>3, <1>4, <1>7, SMT DEF Catches
<1>10. r \notin missed' /\ Listed(r)' => Merged(r)' = room'[r].ver
  BY <1>1, <1>4, <1>6
<1> QED BY <1>8, <1>9, <1>10, Zenon DEF Catches

\* A removed room that is not selected was not shown, and is not going to be.
LEMMA GoneCatches ==
  ASSUME IInv, GetRoomListDeleted, NEW r \in Rooms
  PROVE  Catches(r)'
<1>1. /\ UNCHANGED <<clock, room, member, write, since, known, missed>>
      /\ sync.pc = "gone" /\ sync'.pc = "reply"
      /\ sync'.now = sync.now /\ sync'.copy = sync.copy /\ sync'.rows = sync.rows
      /\ sync'.gone = {q \in Rooms : Gone(q) /\ GoneSince(q)}
  BY GoneEffect
<1>2. Catches(r) /\ sync.gone = {}
  BY <1>1, SMT DEF IInv, SyncShape
<1>3. SeenUpTo' = SeenUpTo /\ GoneUpTo = since
  BY <1>1, SMT DEF SeenUpTo, GoneUpTo, Seconds
<1>4. Listed(r)' = Listed(r) /\ Gone(r)' = Gone(r)
  BY <1>1, Zenon DEF Listed, Gone, Active
<1>5. r \in sync'.gone <=> Gone(r) /\ GoneSince(r)
  BY <1>1
<1>6. Merged(r)' = IF Gone(r) /\ GoneSince(r) THEN 0 ELSE Merged(r)
  <2>1. CASE Gone(r) /\ GoneSince(r)
    BY <1>5, <2>1, SMT DEF Merged
  <2>2. CASE ~(Gone(r) /\ GoneSince(r))
    BY <1>1, <1>2, <1>5, <2>2, SMT DEF Merged
  <2> QED BY <2>1, <2>2
<1>7. Listed(r) => Merged(r)' = Merged(r)
  BY <1>6, Zenon DEF Gone
<1>8. Gone(r) /\ r \notin missed => Merged(r)' = 0
  BY <1>1, <1>2, <1>3, <1>6, SMT DEF Catches, GoneSince
<1>9. /\ r \notin missed' /\ Listed(r)' =>
           /\ known'[r] # room'[r].ver => Later(r, since)'
           /\ Merged(r)' # room'[r].ver => Later(r, SeenUpTo)'
  BY <1>1, <1>2, <1>3, <1>4, <1>7, SMT DEF Catches, Later
<1>10. r \notin missed' /\ Gone(r)' =>
         /\ known'[r] # 0 => member'[r].removed > since'
         /\ Merged(r)' = 0
  BY <1>1, <1>2, <1>4, <1>8, SMT DEF Catches
<1> QED BY <1>9, <1>10, Zenon DEF Catches

\* The timestamp of the reply takes over from the one before.
LEMMA ReplyCatches ==
  ASSUME IInv, Reply, NEW r \in Rooms
  PROVE  Catches(r)'
<1>1. /\ known' = [q \in Rooms |-> Merged(q)] /\ since' = Seconds(sync.now) /\ sync' = NoSync
      /\ missed' = {q \in missed : Merged(q) # Right(q)} /\ sync.pc = "reply"
      /\ UNCHANGED <<clock, room, member, write>>
  BY Zenon DEF Reply, db
<1>2. Catches(r) /\ sync'.pc = "idle"
  BY <1>1, SyncForms, Zenon DEF IInv
<1>3. known'[r] = Merged(r) /\ (r \notin missed' => r \notin missed \/ Merged(r) = Right(r))
  BY <1>1
<1>4. SeenUpTo = since' /\ GoneUpTo = since'
  BY <1>1, SMT DEF SeenUpTo, GoneUpTo
<1>5. Listed(r)' = Listed(r) /\ Gone(r)' = Gone(r)
  BY <1>1, Zenon DEF Listed, Gone, Active
<1>6. /\ Listed(r) => Right(r) = room[r].ver
      /\ Gone(r) => Right(r) = 0
  BY SMT DEF Right, Gone
<1>7. r \notin missed' /\ Listed(r)' /\ known'[r] # room'[r].ver => Later(r, since)'
  BY <1>1, <1>2, <1>3, <1>4, <1>5, <1>6, SMT DEF Catches, Later
<1>8. r \notin missed' /\ Gone(r)' /\ known'[r] # 0 => member'[r].removed > since'
  BY <1>1, <1>2, <1>3, <1>4, <1>5, <1>6, SMT DEF Catches
<1> QED BY <1>2, <1>7, <1>8, SMT DEF Catches

\* A step that neither writes nor hands anything out.
LEMMA QuietCatches ==
  ASSUME IInv, UNCHANGED <<room, member, since, known, missed>>,
         UNCHANGED sync \/ sync'.pc \in {"idle", "rooms"}, NEW r \in Rooms
  PROVE  Catches(r)'
<1>1. Catches(r)
  BY DEF IInv
<1>2. Listed(r)' = Listed(r) /\ Gone(r)' = Gone(r)
  BY Zenon DEF Listed, Gone, Active
<1>3. CASE UNCHANGED sync
  <2>1. SeenUpTo' = SeenUpTo /\ GoneUpTo' = GoneUpTo /\ Merged(r)' = Merged(r)
    BY <1>3, Zenon DEF SeenUpTo, GoneUpTo, Merged, Seconds
  <2> QED BY <1>1, <1>2, <1>3, <2>1, SMT DEF Catches, Later
<1>4. CASE sync'.pc \in {"idle", "rooms"}
  BY <1>1, <1>2, <1>4, SMT DEF Catches, Later
<1> QED BY <1>3, <1>4

\* No step leaves the client wrong for good.
LEMMA CatchStep == IInv /\ [Next]_vars => \A r \in Rooms : Catches(r)'
<1> SUFFICES ASSUME IInv, [Next]_vars, NEW r \in Rooms PROVE Catches(r)'
  OBVIOUS
<1>1. ASSUME NEW w \in Writers, Commit(w) PROVE Catches(r)'
  BY <1>1, CommitCatches
<1>2. CASE UNCHANGED <<room, member, sync, since, known, missed>>
  BY <1>2, QuietCatches
<1>3. CASE SyncStart \/ SyncFails
  <2>1. UNCHANGED <<room, member, since, known, missed>> /\ sync'.pc \in {"idle", "rooms"}
    BY <1>3, StartEffect
  <2> QED BY <2>1, QuietCatches
<1>4. CASE GetRoomList
  BY <1>4, RoomsCatches
<1>5. CASE GetRoomListDeleted
  BY <1>5, GoneCatches
<1>6. CASE Reply
  BY <1>6, ReplyCatches
<1>7. \/ \E w \in Writers : Commit(w)
      \/ UNCHANGED <<room, member, sync, since, known, missed>>
      \/ SyncStart \/ SyncFails \/ GetRoomList \/ GetRoomListDeleted \/ Reply
  BY Zenon DEF Next, vars, Tick, Begin, Abort
<1> QED BY <1>1, <1>2, <1>3, <1>4, <1>5, <1>6, <1>7
------------------------------------------------------------------------------
\* Every step keeps the inductive invariant.
LEMMA StepKeeps == IInv /\ [Next]_vars => IInv'
<1> SUFFICES ASSUME IInv, [Next]_vars PROVE IInv'
  OBVIOUS
<1> QED BY TypeStep, TimeStep, CatchStep DEF IInv

\* The inductive invariant holds in every reachable state of RoomSync.
THEOREM Invariance == Spec => []IInv
<1> QED BY InitInv, StepKeeps, PTL DEF Spec

\* The rows, statements, calls and copies always have their shape (InitialSync and the writes of
\* room and room_member).
THEOREM TypeCorrect == Spec => []TypeOK
<1>1. IInv => TypeOK
  BY DEF IInv
<1> QED BY <1>1, Invariance, PTL

\* A room of the user that the client lacks or shows in an old version is later than the client's
\* timestamp, so that the next GetRoomList brings it, whatever is committed between the two queries
\* and in whatever order; apart from the missed ones.
THEOREM RoomsCaughtUp == Spec => []RoomsCatchUp
<1>1. IInv => RoomsCatchUp
  BY Zenon DEF IInv, Catches, Later, RoomsCatchUp
<1> QED BY <1>1, Invariance, PTL

\* A room the client shows and the user has left, or that is closed, is found as such by the next
\* GetRoomListDeleted; apart from the missed ones.
THEOREM RemovalsCaughtUp == Spec => []RemovalsCatchUp
<1>1. IInv => RemovalsCatchUp
  BY Zenon DEF IInv, Catches, RemovalsCatchUp
<1> QED BY <1>1, Invariance, PTL
==============================================================================
