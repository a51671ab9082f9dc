------------------------------ MODULE RoomsProofs ------------------------------
(***************************************************************************)
(* Rooms, for every number of users, rooms, callers and requests: its       *)
(* types, one open room per pair, that members are told and subscribed, and *)
(* that handlers act within rights.  IInv is the inductive invariant: what  *)
(* a request has read and decided is still right, unless history has marked *)
(* it, and what it has not told yet is still to be told.  A lemma for each  *)
(* action shows that it keeps IInv.                                         *)
(***************************************************************************)
EXTENDS Rooms, FiniteSetTheorems, TLAPS

\* A room that was never made has no members and nobody is busy with it.
RoomShape ==
  \A r \in RoomIds :
    /\ room[r].alive => room[r].type # "none"
    /\ room[r].type = "none" =>
         /\ room[r] = NoSuch
         /\ \A u \in Users : /\ row[r][u].state = "none" /\ told[r][u] # "joined"
                             /\ u \notin topic[r]
                             /\ \A k \in Keys : cache[r][u][k] = NoEntry
         /\ \A c \in Callers : call[c].room # r

\* A request: which steps its operation takes, and what its checks have made of it.
Shape(c) ==
  LET x == call[c]
  IN /\ x.pc = "idle" => x = NoCall
     /\ x.pc # "idle" => x.user \in Users /\ x.op # "none"
     /\ x.op = "create" => /\ x.pc \in {"lookup", "insert", "tell"}
                           /\ x.view = NoView /\ x.what \in Types
                           /\ x.what = "p2p" => \E u \in Users : x.to = {u}
                           /\ x.pc = "lookup" => x.what = "p2p"
                           /\ x.pc = "tell" => /\ x.room \in RoomIds
                                               /\ room[x.room].type = x.what
                           /\ x.pc # "tell" => x.room = NoRoom
     /\ x.op \notin {"none", "create"} =>
          /\ x.room \in RoomIds
          /\ x.view.type \in Types /\ x.view.type = room[x.room].type
          /\ x.pc \in {"fill", "refill"} => ~x.doubt
     /\ x.pc \in {"lookup", "insert"} => x.op = "create"
     /\ x.pc = "add" => x.op = "add"
     /\ x.op = "add" => /\ x.pc \in {"fill", "act", "add", "inval", "tell"}
                        /\ x.fresh \subseteq x.to /\ x.absent \subseteq x.to
                        /\ x.pc # "fill" => x.view.type = "group"
     /\ x.pc \in {"list", "select", "remove", "unsub", "close", "clear", "inval2"} =>
          x.op = "leave"
     /\ x.pc \in {"list", "select", "close", "clear", "inval2"} => LeavesAll(c)
     /\ x.pc = "remove" /\ ~LeavesAll(c) => x.gone = x.to
     /\ x.pc \in {"reread", "refill"} => x.op = "update"
     /\ x.op = "toggle" /\ x.pc = "tell" => x.what = "muted"
     /\ x.op = "toggle" <=> x.what \in Flags
     /\ x.op = "role" => x.what \in Roles /\ x.pc # "tell"
     /\ x.op = "send" => x.pc \in {"fill", "act"}
     /\ x.pc = "act" => May(x, x.view)
CallShape == \A c \in Callers : Shape(c)

\* A handler's view, and a cached one, that has no excuse is the database's.
Current(c) ==
  call[c].view # NoView /\ ~call[c].raced /\ ~call[c].doubt =>
    ViewOf(call[c].room, call[c].user) = call[c].view
CallCurrent == \A c \in Callers : Current(c)
Kept(r, u, k) ==
  LET e == cache[r][u][k]
  IN e # NoEntry => /\ e.view.type \in Types /\ e.view.type = room[r].type
                    /\ ~e.suspect => Deleting(r) \/ e.view = ViewOf(r, u)
CacheCurrent == \A r \in RoomIds, u \in Users, k \in Keys : Kept(r, u, k)

\* Nobody returns to a room of two that is being left.
Emptied(c) ==
  call[c].op = "leave" /\ call[c].view.type = "p2p" =>
    /\ call[c].pc = "remove" => Active(call[c].room) \subseteq call[c].gone
    /\ call[c].pc \in {"inval", "unsub", "close", "clear", "inval2", "tell"} =>
         Active(call[c].room) = {}
PairLeft == \A c \in Callers : Emptied(c)

\* A CreateRoom that found no room of its pair still finds none, unless it was overtaken.
Alone(c) ==
  /\ call[c].pc = "lookup" => ~call[c].raced
  /\ /\ call[c].pc = "insert" /\ call[c].what = "p2p" /\ ~call[c].raced
     /\ call[c].to # {call[c].user}
     => Existing(c) = {}
StillNone == \A c \in Callers : Alone(c)

Announces(c, u) ==
  LET x == call[c]
  IN \/ x.op = "create" /\ x.pc = "tell" /\ u \in PairOf(c)
     \/ x.op = "add" /\ x.pc \in {"inval", "tell"} /\ u \in x.fresh
     \/ /\ x.op = "leave" /\ u \in x.to
        /\ x.pc \in {"inval", "unsub", "close", "clear", "inval2", "tell"}
Subscribes(c, u) ==
  LET x == call[c]
  IN \/ x.op = "create" /\ x.pc = "tell" /\ u \in PairOf(c)
     \/ x.op = "add" /\ x.pc \in {"inval", "tell"} /\ u \in x.to
     \/ x.op = "toggle" /\ x.what = "muted" /\ x.pc \in {"inval", "tell"} /\ u = x.user
     \/ x.op = "leave" /\ x.pc \in {"inval", "unsub"} /\ u \in x.to

\* What a handler has decided about a user is still right.
Decided(c, u) ==
  LET x == call[c]
      m == row[x.room][u]
  IN /\ x.op = "create" /\ x.pc = "tell" /\ u \in PairOf(c) =>
          m.state = "active" /\ (x.what = "group" => "muted" \notin m.flags)
     /\ x.op = "add" /\ u \in x.to =>
          /\ x.pc = "add" => /\ u \in x.fresh <=> m.state # "active"
                             /\ u \in x.absent <=> m.state = "none"
                             /\ m.state = "removed" => x.revive
          /\ x.pc \in {"inval", "tell"} => m.state = "active"
     /\ x.op = "toggle" /\ x.what = "muted" /\ x.pc \in {"inval", "tell"} /\ u = x.user =>
          ("muted" \in m.flags <=> Toggled(c) # {})
     /\ x.op = "leave" =>
          /\ x.pc \in {"select", "remove"} /\ LeavesAll(c) /\ m.state = "active" => u \in x.to
          /\ x.pc = "remove" => /\ u \in x.gone /\ m.state = "active" => u \in x.to
                                /\ u \in x.to => u \in x.gone
          /\ /\ x.pc \in {"inval", "unsub", "close", "clear", "inval2", "tell"}
             /\ u \in x.to \/ LeavesAll(c)
             => m.state # "active"

Told(r, u) ==
  (\A c \in Callers : call[c].room = r => ~Announces(c, u)) =>
    (u \in Active(r) <=> told[r][u] = "joined")
Follows(r, u) ==
  /\ room[r].type = "group" /\ <<r, u>> \notin misjoined
  /\ \A c \in Callers : call[c].room = r => ~Subscribes(c, u)
  => (u \in topic[r] <=> u \in Active(r) /\ "muted" \notin row[r][u].flags)

Clear(r, u) ==
  <<r, u>> \notin muddled =>
    /\ \A c \in Callers : call[c].room = r => Decided(c, u)
    /\ Told(r, u) /\ Follows(r, u)

IInv ==
  /\ TypeOK /\ RoomShape /\ CallShape /\ CallCurrent /\ CacheCurrent
  /\ PairLeft /\ StillNone /\ PairHasOneRoom
  /\ \A r \in RoomIds, u \in Users : Clear(r, u)
------------------------------------------------------------------------------
\* A request of which one field is replaced is a request.
LEMMA FieldForms ==
  ASSUME NEW x \in Call
  PROVE  /\ \A v \in Pc : [x EXCEPT !.pc = v] \in Call
         /\ \A v \in RoomIds \cup {NoRoom} : [x EXCEPT !.room = v] \in Call
         /\ \A v \in SUBSET Users : /\ [x EXCEPT !.to = v] \in Call
                                    /\ [x EXCEPT !.gone = v] \in Call
                                    /\ [x EXCEPT !.fresh = v] \in Call
                                    /\ [x EXCEPT !.absent = v] \in Call
         /\ \A v \in View : [x EXCEPT !.view = v] \in Call
         /\ \A v \in Ops : [x EXCEPT !.op = v] \in Call
         /\ \A v \in Users : [x EXCEPT !.user = v] \in Call
         /\ \A v \in Whats : [x EXCEPT !.what = v] \in Call
         /\ \A v \in SUBSET Perms : [x EXCEPT !.grant = v] \in Call
         /\ \A v \in BOOLEAN : /\ [x EXCEPT !.raced = v] \in Call
                               /\ [x EXCEPT !.doubt = v] \in Call
                               /\ [x EXCEPT !.revive = v] \in Call
<1>1. \A v \in Pc : [x EXCEPT !.pc = v] \in Call
  BY Zenon DEF Call
<1>2. \A v \in RoomIds \cup {NoRoom} : [x EXCEPT !.room = v] \in Call
  BY Zenon DEF Call
<1>3. \A v \in SUBSET Users : [x EXCEPT !.to = v] \in Call
  BY Zenon DEF Call
<1>4. \A v \in SUBSET Users : [x EXCEPT !.gone = v] \in Call
  BY Zenon DEF Call
<1>5. \A v \in SUBSET Users : [x EXCEPT !.fresh = v] \in Call
  BY Zenon DEF Call
<1>6. \A v \in SUBSET Users : [x EXCEPT !.absent = v] \in Call
  BY Zenon DEF Call
<1>7. \A v \in View : [x EXCEPT !.view = v] \in Call
  BY Zenon DEF Call
<1>8. \A v \in BOOLEAN : [x EXCEPT !.raced = v] \in Call
  BY Zenon DEF Call
<1>9. \A v \in BOOLEAN : [x EXCEPT !.doubt = v] \in Call
  BY Zenon DEF Call
<1>10. \A v \in BOOLEAN : [x EXCEPT !.revive = v] \in Call
  BY Zenon DEF Call
<1>11. \A v \in Ops : [x EXCEPT !.op = v] \in Call
  <2>1. \A v \in Ops \cup {"none"} : [x EXCEPT !.op = v] \in Call
    BY Zenon DEF Call
  <2> QED BY <2>1
<1>12. \A v \in Users : [x EXCEPT !.user = v] \in Call
  <2>1. \A v \in Users \cup {NoUser} : [x EXCEPT !.user = v] \in Call
    BY Zenon DEF Call
  <2> QED BY <2>1
<1>13. \A v \in Whats : [x EXCEPT !.what = v] \in Call
  BY Zenon DEF Call
<1>14. \A v \in SUBSET Perms : [x EXCEPT !.grant = v] \in Call
  BY Zenon DEF Call
<1> QED BY <1>1, <1>2, <1>3, <1>4, <1>5, <1>6, <1>7, <1>8, <1>9, <1>10, <1>11, <1>12, <1>13,
           <1>14, Zenon

\* The empty values have their types.
LEMMA NoForms ==
  /\ NoView \in View /\ NoView.type = "none" /\ NoEntry \in Entry /\ NoEntry.view = NoView
  /\ NoCall \in Call /\ NoCall.pc = "idle" /\ NoCall.op = "none" /\ NoCall.room = NoRoom
  /\ NoCall.view = NoView /\ NoCall.to = {}
  /\ NoSuch \in Room /\ NoSuch.type = "none" /\ NoMember \in Member /\ NoMember.state = "none"
<1>1. NoView \in View /\ NoView.type = "none"
  BY SMT DEF NoView, View, Roles
<1>2. NoEntry \in Entry /\ NoEntry.view = NoView
  <2>1. NoEntry \in Entry
    BY <1>1, Zenon DEF NoEntry, Entry
  <2> QED BY <2>1, SMT DEF NoEntry
<1>3. NoCall \in Call
  <2>1. "idle" \in Pc /\ "none" \in Ops \cup {"none"} /\ "none" \in Whats
    BY SMT DEF Pc, Whats
  <2> QED BY <1>1, <2>1, Zenon DEF NoCall, Call
<1>4. NoCall.pc = "idle" /\ NoCall.op = "none" /\ NoCall.room = NoRoom /\ NoCall.view = NoView
      /\ NoCall.to = {}
  BY SMT DEF NoCall
<1>5. NoSuch \in Room /\ NoSuch.type = "none"
  <2>1. NoSuch \in Room
    BY Zenon DEF NoSuch, Room
  <2> QED BY <2>1, SMT DEF NoSuch
<1>6. NoMember \in Member /\ NoMember.state = "none"
  BY SMT DEF NoMember, Member, Roles
<1> QED BY <1>1, <1>2, <1>3, <1>4, <1>5, <1>6

\* The call y is the call x, whether their views have changed or not.
Alike(x, y) ==
  /\ y.pc = x.pc /\ y.op = x.op /\ y.user = x.user /\ y.room = x.room /\ y.to = x.to
  /\ y.what = x.what /\ y.grant = x.grant /\ y.view = x.view /\ y.gone = x.gone
  /\ y.fresh = x.fresh /\ y.absent = x.absent /\ y.revive = x.revive /\ y.doubt = x.doubt

\* Whether a view has changed is all that is different after a commit of another request.
LEMMA RacedForm ==
  ASSUME NEW x \in Call, NEW b \in BOOLEAN
  PROVE  [x EXCEPT !.raced = b] \in Call /\ Alike(x, [x EXCEPT !.raced = b])
         /\ [x EXCEPT !.raced = b].raced = b
<1>1. [x EXCEPT !.raced = b] \in Call
  BY FieldForms
<1>2. Alike(x, [x EXCEPT !.raced = b]) /\ [x EXCEPT !.raced = b].raced = b
  BY SMT DEF Alike, Call
<1> QED BY <1>1, <1>2
------------------------------------------------------------------------------
\* A request decides nothing about a user it does not concern, and tells them nothing.
LEMMA Unconcerned ==
  ASSUME CallShape, NEW c \in Callers, NEW u \in Users,
         call[c].pc = "idle" \/ u \notin Concerned(c)
  PROVE  Decided(c, u) /\ ~Announces(c, u) /\ ~Subscribes(c, u)
<1>1. Shape(c)
  BY DEF CallShape
<1>2. CASE call[c].pc = "idle"
  BY <1>1, <1>2, NoForms, SMT DEF Shape, Decided, Announces, Subscribes
<1>3. CASE call[c].pc # "idle" /\ u \notin Concerned(c)
  BY <1>1, <1>3, SMT DEF Shape, Decided, Announces, Subscribes, Concerned, PairOf, LeavesAll
<1> QED BY <1>2, <1>3

\* A step of one request leaves what holds of the others as it is.
LEMMA OthersKeep ==
  ASSUME TypeOK, CallShape, CallCurrent, PairLeft, StillNone,
         NEW c \in Callers, NEW y \in Call,
         call' = [call EXCEPT ![c] = y], UNCHANGED store,
         Shape(c)', Current(c)', Emptied(c)', Alone(c)'
  PROVE  /\ call' \in [Callers -> Call] /\ call'[c] = y
         /\ CallShape' /\ CallCurrent' /\ PairLeft' /\ StillNone'
<1>1. call \in [Callers -> Call] /\ room' = room /\ row' = row
  BY DEF TypeOK, store
<1>2. call' \in [Callers -> Call] /\ call'[c] = y /\ \A d \in Callers \ {c} : call'[d] = call[d]
  BY <1>1, Zenon
<1>3. ASSUME NEW d \in Callers \ {c} PROVE Shape(d)' /\ Current(d)' /\ Emptied(d)' /\ Alone(d)'
  <2>1. call'[d] = call[d]
    BY <1>2
  <2>2. Shape(d)'
    <3>1. Shape(d)
      BY DEF CallShape
    <3> QED BY <1>1, <2>1, <3>1, SMT DEF Shape, LeavesAll
  <2>3. Current(d)'
    <3>1. Current(d)
      BY DEF CallCurrent
    <3> QED BY <1>1, <2>1, <3>1, Zenon DEF Current, ViewOf
  <2>4. Emptied(d)'
    <3>1. Emptied(d)
      BY DEF PairLeft
    <3> QED BY <1>1, <2>1, <3>1, Zenon DEF Emptied, Active
  <2>5. Alone(d)'
    <3>1. Alone(d)
      BY DEF StillNone
    <3>2. Existing(d)' = Existing(d)
      BY <1>1, <2>1, Zenon DEF Existing, LivePair, PairOf, Active
    <3> QED BY <2>1, <3>1, <3>2, Zenon DEF Alone
  <2> QED BY <2>2, <2>3, <2>4, <2>5
<1>4. CallShape'
  BY <1>3 DEF CallShape
<1>5. CallCurrent'
  BY <1>3 DEF CallCurrent
<1>6. PairLeft'
  BY <1>3 DEF PairLeft
<1>7. StillNone'
  BY <1>3 DEF StillNone
<1> QED BY <1>2, <1>4, <1>5, <1>6, <1>7

\* A step of one request that changes no row keeps what is told and the topic in line with the
\* members if it tells what the request announces, or leaves both as they are.
LEMMA ClearKeeps ==
  ASSUME TypeOK, NEW c \in Callers, NEW y \in Call, NEW r \in RoomIds, NEW u \in Users,
         call' = [call EXCEPT ![c] = y], UNCHANGED store, Clear(r, u),
         muddled \subseteq muddled', misjoined \subseteq misjoined',
         <<r, u>> \notin muddled' =>
           /\ call'[c].room = r => Decided(c, u)'
           /\ \/ u \in Active(r) <=> told'[r][u] = "joined"
              \/ /\ told'[r][u] = told[r][u]
                 /\ call[c].room = r /\ Announces(c, u) =>
                      call'[c].room = r /\ Announces(c, u)'
           /\ \/ room[r].type # "group" \/ <<r, u>> \in misjoined'
              \/ u \in topic'[r] <=> u \in Active(r) /\ "muted" \notin row[r][u].flags
              \/ /\ u \in topic'[r] <=> u \in topic[r]
                 /\ call[c].room = r /\ Subscribes(c, u) =>
                      call'[c].room = r /\ Subscribes(c, u)'
  PROVE  Clear(r, u)'
<1>1. call \in [Callers -> Call] /\ room' = room /\ row' = row /\ Active(r)' = Active(r)
  BY DEF TypeOK, store, Active
<1>2. call'[c] = y /\ \A d \in Callers \ {c} : call'[d] = call[d]
  BY <1>1, Zenon
<1>3. ASSUME NEW d \in Callers \ {c}
      PROVE  /\ Decided(d, u) => Decided(d, u)'
             /\ Announces(d, u)' => Announces(d, u)
             /\ Announces(d, u) => Announces(d, u)'
             /\ Subscribes(d, u)' => Subscribes(d, u)
             /\ Subscribes(d, u) => Subscribes(d, u)'
  <2>1. call'[d] = call[d]
    BY <1>2
  <2>2. Decided(d, u) => Decided(d, u)'
    BY <1>1, <2>1, SMT DEF Decided, PairOf, Toggled, LeavesAll
  <2>3. /\ Announces(d, u)' => Announces(d, u)
        /\ Announces(d, u) => Announces(d, u)'
    BY <2>1, Zenon DEF Announces, PairOf
  <2>4. /\ Subscribes(d, u)' => Subscribes(d, u)
        /\ Subscribes(d, u) => Subscribes(d, u)'
    BY <2>1, Zenon DEF Subscribes, PairOf
  <2> QED BY <2>2, <2>3, <2>4
<1>4. SUFFICES ASSUME <<r, u>> \notin muddled'
      PROVE  (\A d \in Callers : call'[d].room = r => Decided(d, u)') /\ Told(r, u)'
               /\ Follows(r, u)'
  BY DEF Clear
<1>5. (\A d \in Callers : call[d].room = r => Decided(d, u)) /\ Told(r, u) /\ Follows(r, u)
  BY <1>4 DEF Clear
<1>6. \A d \in Callers : call'[d].room = r => Decided(d, u)'
  BY <1>2, <1>3, <1>4, <1>5
<1>7. Told(r, u)'
  <2>1. CASE u \in Active(r) <=> told'[r][u] = "joined"
    BY <1>1, <2>1 DEF Told
  <2>2. CASE /\ told'[r][u] = told[r][u]
             /\ call[c].room = r /\ Announces(c, u) => call'[c].room = r /\ Announces(c, u)'
    <3>1. SUFFICES ASSUME \A d \in Callers : call'[d].room = r => ~Announces(d, u)'
          PROVE  u \in Active(r) <=> told[r][u] = "joined"
      BY <1>1, <2>2 DEF Told
    <3>2. \A d \in Callers : call[d].room = r => ~Announces(d, u)
      BY <1>2, <1>3, <2>2, <3>1
    <3> QED BY <1>5, <3>2 DEF Told
  <2> QED BY <1>4, <2>1, <2>2
<1>8. Follows(r, u)'
  <2>1. CASE room[r].type # "group" \/ <<r, u>> \in misjoined'
    BY <1>1, <2>1 DEF Follows
  <2>2. CASE u \in topic'[r] <=> u \in Active(r) /\ "muted" \notin row[r][u].flags
    BY <1>1, <2>2 DEF Follows
  <2>3. CASE /\ u \in topic'[r] <=> u \in topic[r]
             /\ call[c].room = r /\ Subscribes(c, u) => call'[c].room = r /\ Subscribes(c, u)'
    <3>1. SUFFICES ASSUME room[r].type = "group", <<r, u>> \notin misjoined',
                          \A d \in Callers : call'[d].room = r => ~Subscribes(d, u)'
          PROVE  u \in topic[r] <=> u \in Active(r) /\ "muted" \notin row[r][u].flags
      BY <1>1, <2>3 DEF Follows
    <3>2. \A d \in Callers : call[d].room = r => ~Subscribes(d, u)
      BY <1>2, <1>3, <2>3, <3>1
    <3> QED BY <1>5, <3>1, <3>2 DEF Follows
  <2> QED BY <1>4, <2>1, <2>2, <2>3
<1> QED BY <1>6, <1>7, <1>8

------------------------------------------------------------------------------
\* The members of a room of two, and whether it is open, only get fewer.
PairsShrink ==
  \A r \in RoomIds :
    /\ room'[r].type = room[r].type
    /\ room'[r].alive => room[r].alive
    /\ room[r].type = "p2p" => \A u \in Users : row'[r][u].state = "active"
         => row[r][u].state = "active"

\* CommitAndGo: the request goes on, and each view is raced if it was or is no longer the
\* database's.
LEMMA CommitForm ==
  ASSUME TypeOK, NEW c \in Callers, NEW p \in Pc, CommitAndGo(c, p)
  PROVE  /\ call' \in [Callers -> Call]
         /\ call'[c].pc = p /\ Alike([call[c] EXCEPT !.pc = p], call'[c])
         /\ \A d \in Callers \ {c} : Alike(call[d], call'[d])
         /\ \A d \in Callers :
              /\ call'[d].view = NoView => call'[d].raced = call[d].raced
              /\ call[d].raced => call'[d].raced
              /\ \A r, u : call[d].room = r /\ call[d].user = u /\ call'[d].view # NoView
                   /\ ~call'[d].raced =>
                   Seen(room'[r], row'[r][u]) = Seen(room[r], row[r][u])
<1>1. call \in [Callers -> Call]
  BY DEF TypeOK
<1> DEFINE X(d) == IF d = c THEN [call[c] EXCEPT !.pc = p] ELSE call[d]
           B(d) == X(d).raced \/ Seen(room'[X(d).room], row'[X(d).room][X(d).user])
             # ViewOf(X(d).room, X(d).user)
<1>2. \A d \in Callers : call'[d] = IF X(d).view = NoView THEN X(d)
        ELSE [X(d) EXCEPT !.raced = B(d)]
  BY Zenon DEF CommitAndGo
<1>3. ASSUME NEW d \in Callers
      PROVE  /\ X(d) \in Call
             /\ X(d).view = call[d].view /\ X(d).raced = call[d].raced /\ X(d).room = call[d].room
             /\ X(d).user = call[d].user
  <2>1. CASE d = c
    <3>1. [call[c] EXCEPT !.pc = p] \in Call
      BY <1>1, FieldForms
    <3>2. X(d) = [call[c] EXCEPT !.pc = p]
      BY <2>1
    <3> HIDE DEF X
    <3> QED BY <1>1, <2>1, <3>1, <3>2, SMT DEF Call
  <2>2. CASE d # c
    BY <1>1, <2>2
  <2> QED BY <2>1, <2>2
<1>4. call' = [d \in Callers |-> call'[d]]
  BY Zenon DEF CommitAndGo
<1>5. ASSUME NEW d \in Callers
      PROVE  /\ call'[d] \in Call /\ Alike(X(d), call'[d])
             /\ call'[d].view = NoView => call'[d].raced = call[d].raced
             /\ call[d].raced => call'[d].raced
             /\ \A r, u : call[d].room = r /\ call[d].user = u /\ call'[d].view # NoView
                  /\ ~call'[d].raced =>
                   Seen(room'[r], row'[r][u]) = Seen(room[r], row[r][u])
  <2> HIDE DEF X
  <2>1. CASE X(d).view = NoView
    <3>1. call'[d] = X(d)
      BY <1>2, <2>1
    <3>2. Alike(X(d), X(d))
      BY DEF Alike
    <3> QED BY <1>3, <2>1, <3>1, <3>2
  <2>2. CASE X(d).view # NoView
    <3> DEFINE b == B(d)
    <3>1. call'[d] = [X(d) EXCEPT !.raced = b]
      BY <1>2, <2>2
    <3>2. X(d).raced \in BOOLEAN
      BY <1>3, SMT DEF Call
    <3>3. b \in BOOLEAN /\ (X(d).raced => b)
      BY <3>2, Zenon
    <3>4. ~b => Seen(room'[X(d).room], row'[X(d).room][X(d).user])
            = Seen(room[X(d).room], row[X(d).room][X(d).user])
      BY Zenon DEF ViewOf
    <3> HIDE DEF b
    <3>5. call'[d] \in Call /\ Alike(X(d), call'[d]) /\ call'[d].raced = b
      BY <1>3, <3>1, <3>3, RacedForm
    <3>6. call'[d].view # NoView
      BY <2>2, <3>5 DEF Alike
    <3> QED BY <1>3, <3>3, <3>4, <3>5, <3>6, Zenon
  <2> QED BY <2>1, <2>2
<1>6. call' \in [Callers -> Call]
  BY <1>4, <1>5, Zenon
<1>7. Alike([call[c] EXCEPT !.pc = p], call'[c])
  BY <1>5
<1>8. call'[c].pc = p
  BY <1>1, <1>7, SMT DEF Alike, Call
<1>9. \A d \in Callers \ {c} : Alike(call[d], call'[d])
  BY <1>5
<1> QED BY <1>5, <1>6, <1>7, <1>8, <1>9


\* A commit that makes nobody a member of a room of two keeps what holds of the requests.
LEMMA CommitKeeps ==
  ASSUME TypeOK, CallShape, CallCurrent, PairLeft, StillNone, PairHasOneRoom,
         NEW c \in Callers, NEW p \in Pc, CommitAndGo(c, p), call[c].op \in Ops \ {"create"},
         call[c].pc # "idle", PairsShrink, UNCHANGED twins,
         p \in {"inval", "clear", "inval2"},
         p \in {"clear", "inval2"} => call[c].op = "leave" /\ LeavesAll(c),
         call[c].op = "add" => p = "inval" /\ call[c].pc # "fill",
         call[c].op # "send",
         Emptied(c)'
  PROVE  CallShape' /\ CallCurrent' /\ PairLeft' /\ StillNone' /\ PairHasOneRoom'
<1>1. /\ call' \in [Callers -> Call]
      /\ call'[c].pc = p /\ Alike([call[c] EXCEPT !.pc = p], call'[c])
      /\ \A d \in Callers \ {c} : Alike(call[d], call'[d])
      /\ \A d \in Callers :
           /\ call'[d].view = NoView => call'[d].raced = call[d].raced
           /\ call[d].raced => call'[d].raced
           /\ \A r, u : call[d].room = r /\ call[d].user = u /\ call'[d].view # NoView
                /\ ~call'[d].raced =>
                Seen(room'[r], row'[r][u]) = Seen(room[r], row[r][u])
  BY CommitForm
<1>2. call \in [Callers -> Call] /\ call[c] \in Call
  BY DEF TypeOK
<1>3. /\ call'[c].op = call[c].op /\ call'[c].user = call[c].user /\ call'[c].room = call[c].room
      /\ call'[c].to = call[c].to /\ call'[c].what = call[c].what /\ call'[c].view = call[c].view
      /\ call'[c].gone = call[c].gone /\ call'[c].fresh = call[c].fresh
      /\ call'[c].absent = call[c].absent /\ call'[c].doubt = call[c].doubt
  BY <1>1, <1>2, SMT DEF Alike, Call
<1>4. \A r \in RoomIds : room'[r].type = room[r].type
  BY DEF PairsShrink
<1>5. \A r \in RoomIds, S \in SUBSET Users : LivePair(r, S)' => LivePair(r, S)
  BY DEF PairsShrink, LivePair, Active
<1>6. ASSUME NEW d \in Callers PROVE Current(d)'
  <2>1. /\ call'[d].view = call[d].view /\ call'[d].doubt = call[d].doubt
        /\ call'[d].room = call[d].room /\ call'[d].user = call[d].user
    <3>1. CASE d = c
      BY <1>3, <3>1
    <3>2. CASE d # c
      BY <1>1, <3>2 DEF Alike
    <3> QED BY <3>1, <3>2
  <2>2. Current(d)
    BY DEF CallCurrent
  <2>3. SUFFICES ASSUME call'[d].view # NoView, ~call'[d].raced, ~call'[d].doubt
        PROVE  Seen(room'[call'[d].room], row'[call'[d].room][call'[d].user]) = call'[d].view
    BY Zenon DEF Current, ViewOf
  <2>4. Seen(room[call[d].room], row[call[d].room][call[d].user]) = call[d].view
    BY <1>1, <2>1, <2>2, <2>3, Zenon DEF Current, ViewOf
  <2>5. Seen(room'[call[d].room], row'[call[d].room][call[d].user])
          = Seen(room[call[d].room], row[call[d].room][call[d].user])
    BY <1>1, <2>3
  <2> QED BY <2>1, <2>4, <2>5
<1>7. ASSUME NEW d \in Callers \ {c} PROVE Shape(d)' /\ Emptied(d)' /\ Alone(d)'
  <2>1. Alike(call[d], call'[d])
    BY <1>1
  <2>2. Shape(d)'
    <3>1. Shape(d)
      BY DEF CallShape
    <3>2. call'[d].pc = "idle" => call'[d] = NoCall
      <4>1. SUFFICES ASSUME call'[d].pc = "idle" PROVE call'[d] = NoCall
        OBVIOUS
      <4>2. call[d] = NoCall
        BY <2>1, <3>1, <4>1 DEF Alike, Shape
      <4>3. call'[d].raced = call[d].raced
        BY <1>1, <2>1, <4>2, NoForms DEF Alike
      <4>4. call'[d] \in Call /\ call[d] \in Call
        BY <1>1, <1>2
      <4> QED BY <2>1, <4>2, <4>3, <4>4, SMT DEF Alike, Call
    <3>3. May(call'[d], call'[d].view) <=> May(call[d], call[d].view)
      BY <2>1, SMT DEF Alike, May
    <3>4. LeavesAll(d)' <=> LeavesAll(d)
      BY <2>1 DEF Alike, LeavesAll
    <3> HIDE DEF May, LeavesAll
    <3> QED BY <1>4, <2>1, <3>1, <3>2, <3>3, <3>4, SMT DEF Shape, Alike
  <2>3. Emptied(d)'
    <3>1. Emptied(d) /\ Shape(d)
      BY DEF PairLeft, CallShape
    <3>2. SUFFICES ASSUME call[d].op = "leave", call[d].view.type = "p2p"
          PROVE  Emptied(d)'
      BY <2>1 DEF Emptied, Alike
    <3>3. call[d].room \in RoomIds /\ room[call[d].room].type = "p2p"
      BY <3>1, <3>2 DEF Shape
    <3>4. \A u \in Users : row'[call[d].room][u].state = "active"
            => row[call[d].room][u].state = "active"
      BY <3>3 DEF PairsShrink
    <3> QED BY <2>1, <3>1, <3>4, SMT DEF Emptied, Alike, Active
  <2>4. Alone(d)'
    <3>1. Alone(d) /\ Shape(d)
      BY DEF StillNone, CallShape
    <3>2. SUFFICES ASSUME call[d].pc \in {"lookup", "insert"} PROVE Alone(d)'
      BY <2>1 DEF Alone, Alike
    <3>3. call'[d].raced = call[d].raced
      BY <1>1, <2>1, <3>1, <3>2 DEF Shape, Alike
    <3>4. PairOf(d) \in SUBSET Users /\ PairOf(d)' = PairOf(d)
      <4>1. call[d] \in Call /\ call[d].user \in Users
        BY <1>2, <3>1, <3>2 DEF Shape
      <4> QED BY <2>1, <4>1, SMT DEF PairOf, Alike, Call
    <3>5. Existing(d)' \subseteq Existing(d)
      BY <1>5, <3>4, Zenon DEF Existing, LivePair, Active
    <3> QED BY <2>1, <3>1, <3>3, <3>5, Zenon DEF Alone, Alike
  <2> QED BY <2>2, <2>3, <2>4
<1>8. Shape(c)'
  <2>1. Shape(c)
    BY DEF CallShape
  <2>2. LeavesAll(c)' <=> LeavesAll(c)
    BY <1>3 DEF LeavesAll
  <2> HIDE DEF May, LeavesAll
  <2> QED BY <1>1, <1>3, <1>4, <2>1, <2>2, SMT DEF Shape
<1>9. Alone(c)'
  BY <1>1 DEF Alone
<1>10. CallShape'
  BY <1>7, <1>8 DEF CallShape
<1>11. CallCurrent'
  BY <1>6 DEF CallCurrent
<1>12. PairLeft'
  BY <1>7 DEF PairLeft
<1>13. StillNone'
  BY <1>7, <1>9 DEF StillNone
<1>14. PairHasOneRoom'
  BY <1>5, Zenon DEF PairHasOneRoom
<1> QED BY <1>10, <1>11, <1>12, <1>13, <1>14

\* A request that is not counted as overlapping concerns nobody whom this one concerns.
LEMMA OverlapForm ==
  ASSUME NEW c \in Callers, NEW r \in RoomIds, NEW u \in Users,
         <<r, u>> \notin Overlapped(c), call[c].room = r, u \in Concerned(c),
         NEW d \in Callers \ {c}, call[d].room = r
  PROVE  call[d].pc = "idle" \/ u \notin Concerned(d)
BY Zenon DEF Overlapped, At

\* A commit that changes who is a member, or who has muted, is announced by the request, and no
\* other request under way concerns those users.
LEMMA ClearCommits ==
  ASSUME TypeOK, CallShape, NEW c \in Callers, NEW p \in Pc, CommitAndGo(c, p),
         NEW r \in RoomIds, NEW u \in Users, Clear(r, u), UNCHANGED outside,
         muddled \subseteq muddled', misjoined' = misjoined, PairsShrink,
         <<r, u>> \notin muddled' =>
           LET same  == row'[r][u].state = row[r][u].state
               muted == "muted" \in row'[r][u].flags <=> "muted" \in row[r][u].flags
           IN /\ call[c].room = r => Decided(c, u)'
              /\ same \/ (call[c].room = r /\ Announces(c, u)')
              /\ (same /\ muted) \/ (call[c].room = r /\ Subscribes(c, u)')
              /\ call[c].room = r /\ Announces(c, u) => Announces(c, u)'
              /\ call[c].room = r /\ Subscribes(c, u) => Subscribes(c, u)'
              /\ \/ same /\ muted
                 \/ \A d \in Callers \ {c} :
                      call[d].room = r => call[d].pc = "idle" \/ u \notin Concerned(d)
  PROVE  Clear(r, u)'
<1>1. /\ Alike([call[c] EXCEPT !.pc = p], call'[c])
      /\ \A d \in Callers \ {c} : Alike(call[d], call'[d])
  BY CommitForm
<1>2. call'[c].room = call[c].room
  <2>1. call[c] \in Call
    BY DEF TypeOK
  <2> QED BY <1>1, <2>1, SMT DEF Alike, Call
<1>3. room'[r].type = room[r].type /\ told' = told /\ topic' = topic
  BY DEF outside, PairsShrink
<1>4. SUFFICES ASSUME <<r, u>> \notin muddled'
      PROVE  (\A d \in Callers : call'[d].room = r => Decided(d, u)') /\ Told(r, u)'
               /\ Follows(r, u)'
  BY DEF Clear
<1>5. (\A d \in Callers : call[d].room = r => Decided(d, u)) /\ Told(r, u) /\ Follows(r, u)
  BY <1>4 DEF Clear
<1> DEFINE same  == row'[r][u].state = row[r][u].state
           muted == "muted" \in row'[r][u].flags <=> "muted" \in row[r][u].flags
<1>6. ASSUME NEW d \in Callers \ {c}
      PROVE  /\ Announces(d, u)' <=> Announces(d, u)
             /\ Subscribes(d, u)' <=> Subscribes(d, u)
             /\ call'[d].room = call[d].room
             /\ call'[d].room = r => Decided(d, u)'
  <2>1. Alike(call[d], call'[d])
    BY <1>1
  <2>2. call'[d].room = call[d].room
    BY <2>1 DEF Alike
  <2>3. Announces(d, u)' <=> Announces(d, u)
    BY <2>1, SMT DEF Alike, Announces, PairOf
  <2>4. Subscribes(d, u)' <=> Subscribes(d, u)
    BY <2>1, SMT DEF Alike, Subscribes, PairOf
  <2>5. ASSUME call[d].room = r PROVE Decided(d, u)'
    <3>1. Shape(d)
      BY DEF CallShape
    <3>2. CASE same /\ muted
      <4>1. Decided(d, u)
        BY <1>5, <2>5
      <4> QED BY <2>1, <2>5, <3>2, <4>1, SMT DEF Alike, Decided, PairOf, Toggled, LeavesAll
    <3>3. CASE call[d].pc = "idle"
      BY <2>1, <3>1, <3>3, NoForms, SMT DEF Alike, Shape, Decided
    <3>4. CASE call[d].pc # "idle" /\ u \notin Concerned(d)
      BY <2>1, <3>1, <3>4, SMT DEF Alike, Shape, Decided, Concerned, PairOf, LeavesAll
    <3> QED BY <1>4, <2>5, <3>2, <3>3, <3>4
  <2> QED BY <2>2, <2>3, <2>4, <2>5
<1>7. \A d \in Callers : call'[d].room = r => Decided(d, u)'
  BY <1>2, <1>4, <1>6
<1>8. Told(r, u)'
  <2>1. SUFFICES ASSUME \A d \in Callers : call'[d].room = r => ~Announces(d, u)'
        PROVE  row'[r][u].state = "active" <=> told[r][u] = "joined"
    BY <1>3 DEF Told, Active
  <2>2. \A d \in Callers : call[d].room = r => ~Announces(d, u)
    BY <1>2, <1>4, <1>6, <2>1
  <2>3. same
    BY <1>2, <1>4, <2>1
  <2> QED BY <1>5, <2>2, <2>3 DEF Told, Active
<1>9. Follows(r, u)'
  <2>1. SUFFICES ASSUME room[r].type = "group", <<r, u>> \notin misjoined,
                        \A d \in Callers : call'[d].room = r => ~Subscribes(d, u)'
        PROVE  u \in topic[r] <=> row'[r][u].state = "active" /\ "muted" \notin row'[r][u].flags
    BY <1>3 DEF Follows, Active
  <2>2. \A d \in Callers : call[d].room = r => ~Subscribes(d, u)
    BY <1>2, <1>4, <1>6, <2>1
  <2>3. same /\ muted
    BY <1>2, <1>4, <2>1
  <2> QED BY <1>5, <2>1, <2>2, <2>3 DEF Follows, Active
<1> QED BY <1>7, <1>8, <1>9

------------------------------------------------------------------------------
\* Nothing is asked of a request that has ended.
LEMMA Ended ==
  ASSUME NEW c \in Callers, call'[c] = NoCall
  PROVE  Shape(c)' /\ Current(c)' /\ Emptied(c)' /\ Alone(c)'
<1>1. NoCall.what = "none" /\ "none" \notin Flags
  BY SMT DEF NoCall, Flags
<1> QED BY <1>1, NoForms, SMT DEF Shape, Current, Emptied, Alone

\* A step that changes one request and no row keeps the invariant if it keeps its parts.
LEMMA Steady ==
  ASSUME IInv, TypeOK', NEW c \in Callers, NEW y \in Call,
         call' = [call EXCEPT ![c] = y], UNCHANGED store, twins \subseteq twins',
         y.room \in RoomIds => room[y.room].type # "none",
         \A r \in RoomIds : room[r].type = "none" =>
           cache'[r] = cache[r] /\ told'[r] = told[r] /\ topic'[r] = topic[r],
         Shape(c)', Current(c)', Emptied(c)', Alone(c)', CacheCurrent',
         \A r \in RoomIds, u \in Users : Clear(r, u)'
  PROVE  IInv'
<1>1. room' = room /\ row' = row /\ call \in [Callers -> Call]
  BY DEF store, IInv, TypeOK
<1>2. CallShape' /\ CallCurrent' /\ PairLeft' /\ StillNone'
  BY OthersKeep DEF IInv
<1>3. call'[c] = y /\ \A d \in Callers \ {c} : call'[d] = call[d]
  BY <1>1, Zenon
<1>4. RoomShape'
  <2>1. SUFFICES ASSUME NEW r \in RoomIds, room[r].type = "none"
        PROVE  /\ \A u \in Users : /\ told'[r][u] # "joined" /\ u \notin topic'[r]
                                   /\ \A k \in Keys : cache'[r][u][k] = NoEntry
               /\ \A d \in Callers : call'[d].room # r
    BY <1>1 DEF IInv, RoomShape
  <2>2. /\ \A u \in Users : /\ told[r][u] # "joined" /\ u \notin topic[r]
                            /\ \A k \in Keys : cache[r][u][k] = NoEntry
        /\ \A d \in Callers : call[d].room # r
    BY <2>1 DEF IInv, RoomShape
  <2> QED BY <1>3, <2>1, <2>2
<1>5. PairHasOneRoom'
  <2>1. \A r \in RoomIds, S \in SUBSET Users : LivePair(r, S)' => LivePair(r, S)
    BY <1>1, Zenon DEF LivePair, Active
  <2> QED BY <2>1, Zenon DEF PairHasOneRoom, IInv
<1> QED BY <1>2, <1>4, <1>5 DEF IInv

\* The cache is in line with the database as long as neither of them changes.
LEMMA CacheStays ==
  ASSUME TypeOK, CacheCurrent, NEW c \in Callers, NEW y \in Call,
         call' = [call EXCEPT ![c] = y], UNCHANGED <<store, cache>>,
         ~At(c, "inval"), ~At(c, "inval2")
  PROVE  CacheCurrent'
<1>1. room' = room /\ row' = row /\ cache' = cache /\ call \in [Callers -> Call]
  BY DEF store, TypeOK
<1>2. \A d \in Callers \ {c} : call'[d] = call[d]
  BY <1>1, Zenon
<1>3. \A r \in RoomIds : Deleting(r) => Deleting(r)'
  BY <1>2, Zenon DEF Deleting, At
<1>4. ASSUME NEW r \in RoomIds, NEW u \in Users, NEW k \in Keys PROVE Kept(r, u, k)'
  <2>1. Kept(r, u, k)
    BY DEF CacheCurrent
  <2>2. ViewOf(r, u)' = ViewOf(r, u)
    BY <1>1 DEF ViewOf
  <2> QED BY <1>1, <1>3, <2>1, <2>2, Zenon DEF Kept
<1> QED BY <1>4 DEF CacheCurrent

\* A step that changes one request, and the cache at most.
LEMMA CallStep ==
  ASSUME IInv, NEW c \in Callers, NEW y \in Call,
         call' = [call EXCEPT ![c] = y], UNCHANGED <<store, outside, history>>,
         received' \in 0..MaxRequests,
         cache' \in [RoomIds -> [Users -> [Keys -> Entry]]], CacheCurrent',
         \A r \in RoomIds : room[r].type = "none" => cache'[r] = cache[r],
         y.room \in RoomIds => room[y.room].type # "none",
         Shape(c)', Current(c)', Emptied(c)', Alone(c)',
         \A r \in RoomIds, u \in Users : <<r, u>> \notin muddled =>
           /\ y.room = r => Decided(c, u)'
           /\ call[c].room = r /\ Announces(c, u) => y.room = r /\ Announces(c, u)'
           /\ call[c].room = r /\ Subscribes(c, u) => y.room = r /\ Subscribes(c, u)'
  PROVE  IInv'
<1>1. TypeOK
  BY DEF IInv
<1>2. call \in [Callers -> Call]
  BY <1>1 DEF TypeOK
<1>3. call' \in [Callers -> Call] /\ call'[c] = y
  BY <1>2, Zenon
<1>4. /\ room' = room /\ row' = row /\ topic' = topic /\ told' = told
      /\ twins' = twins /\ muddled' = muddled /\ misjoined' = misjoined
  BY DEF store, outside, history
<1>5. TypeOK'
  BY <1>1, <1>3, <1>4 DEF TypeOK
<1>6. ASSUME NEW r \in RoomIds, NEW u \in Users PROVE Clear(r, u)'
  <2>1. Clear(r, u)
    BY DEF IInv
  <2>2. <<r, u>> \notin muddled' =>
           /\ call'[c].room = r => Decided(c, u)'
           /\ \/ u \in Active(r) <=> told'[r][u] = "joined"
              \/ /\ told'[r][u] = told[r][u]
                 /\ call[c].room = r /\ Announces(c, u) =>
                      call'[c].room = r /\ Announces(c, u)'
           /\ \/ room[r].type # "group" \/ <<r, u>> \in misjoined'
              \/ u \in topic'[r] <=> u \in Active(r) /\ "muted" \notin row[r][u].flags
              \/ /\ u \in topic'[r] <=> u \in topic[r]
                 /\ call[c].room = r /\ Subscribes(c, u) =>
                      call'[c].room = r /\ Subscribes(c, u)'
    BY <1>3, <1>4, Zenon
  <2> QED BY <1>1, <1>4, <2>1, <2>2, ClearKeeps, Zenon
<1>7. twins \subseteq twins' /\ \A r \in RoomIds : room[r].type = "none" =>
           cache'[r] = cache[r] /\ told'[r] = told[r] /\ topic'[r] = topic[r]
  BY <1>4
<1> QED BY <1>4, <1>5, <1>6, <1>7, Steady

\* A step that changes one request only.
LEMMA Quiet ==
  ASSUME IInv, NEW c \in Callers, NEW y \in Call,
         call' = [call EXCEPT ![c] = y], UNCHANGED <<store, cache, outside, history>>,
         received' \in 0..MaxRequests, ~At(c, "inval"), ~At(c, "inval2"),
         y.room \in RoomIds => room[y.room].type # "none",
         Shape(c)', Current(c)', Emptied(c)', Alone(c)',
         \A r \in RoomIds, u \in Users : <<r, u>> \notin muddled =>
           /\ y.room = r => Decided(c, u)'
           /\ call[c].room = r /\ Announces(c, u) => y.room = r /\ Announces(c, u)'
           /\ call[c].room = r /\ Subscribes(c, u) => y.room = r /\ Subscribes(c, u)'
  PROVE  IInv'
<1>1. TypeOK /\ CacheCurrent
  BY DEF IInv
<1>2. CacheCurrent'
  BY <1>1, CacheStays
<1>3. cache' \in [RoomIds -> [Users -> [Keys -> Entry]]] /\ \A r \in RoomIds : cache'[r] = cache[r]
  BY <1>1 DEF TypeOK
<1> QED BY <1>2, <1>3, CallStep

\* A step that ends one request.
LEMMA Ending ==
  ASSUME IInv, NEW c \in Callers, End(c), UNCHANGED <<store, cache, received, twins>>,
         ~At(c, "inval"), ~At(c, "inval2"),
         muddled \subseteq muddled', muddled' \subseteq RoomIds \X Users,
         misjoined \subseteq misjoined', misjoined' \subseteq RoomIds \X Users,
         topic' \in [RoomIds -> SUBSET Users],
         told' \in [RoomIds -> [Users -> {"nothing", "joined", "left"}]],
         \A r \in RoomIds \ {call[c].room} : told'[r] = told[r] /\ topic'[r] = topic[r],
         \A r \in RoomIds, u \in Users :
           call[c].room = r /\ <<r, u>> \notin muddled' /\ Decided(c, u) =>
             /\ \/ u \in Active(r) <=> told'[r][u] = "joined"
                \/ told'[r][u] = told[r][u] /\ ~Announces(c, u)
             /\ \/ room[r].type # "group" \/ <<r, u>> \in misjoined'
                \/ u \in topic'[r] <=> u \in Active(r) /\ "muted" \notin row[r][u].flags
                \/ (u \in topic'[r] <=> u \in topic[r]) /\ ~Subscribes(c, u)
  PROVE  IInv'
<1>1. TypeOK /\ RoomShape
  BY DEF IInv
<1>2. call \in [Callers -> Call] /\ NoCall \in Call /\ call' = [call EXCEPT ![c] = NoCall]
  BY <1>1, NoForms DEF TypeOK, End
<1>3. call' \in [Callers -> Call] /\ call'[c] = NoCall
  BY <1>2, Zenon
<1>4. /\ room' = room /\ row' = row /\ cache' = cache /\ received' = received /\ twins' = twins
  BY DEF store
<1>5. TypeOK'
  BY <1>1, <1>3, <1>4 DEF TypeOK
<1>6. CacheCurrent'
  BY <1>1, <1>2, CacheStays DEF IInv
<1>7. ASSUME NEW r \in RoomIds, NEW u \in Users PROVE Clear(r, u)'
  <2>1. Clear(r, u)
    BY DEF IInv
  <2>2. call'[c].room # r
    BY <1>3, NoForms, RoomsAssumption
  <2>3. CASE call[c].room # r
    <3>1. told'[r] = told[r] /\ topic'[r] = topic[r]
      BY <2>3
    <3>2. <<r, u>> \notin muddled' =>
             /\ call'[c].room = r => Decided(c, u)'
             /\ \/ u \in Active(r) <=> told'[r][u] = "joined"
                \/ /\ told'[r][u] = told[r][u]
                   /\ call[c].room = r /\ Announces(c, u) =>
                        call'[c].room = r /\ Announces(c, u)'
             /\ \/ room[r].type # "group" \/ <<r, u>> \in misjoined'
                \/ u \in topic'[r] <=> u \in Active(r) /\ "muted" \notin row[r][u].flags
                \/ /\ u \in topic'[r] <=> u \in topic[r]
                   /\ call[c].room = r /\ Subscribes(c, u) =>
                        call'[c].room = r /\ Subscribes(c, u)'
      BY <2>2, <2>3, <3>1, Zenon
    <3> QED BY <1>1, <1>2, <1>4, <2>1, <3>2, ClearKeeps, Zenon
  <2>4. CASE call[c].room = r /\ <<r, u>> \notin muddled'
    <3>1. Decided(c, u)
      BY <2>1, <2>4 DEF Clear
    <3>2. /\ \/ u \in Active(r) <=> told'[r][u] = "joined"
             \/ told'[r][u] = told[r][u] /\ ~Announces(c, u)
          /\ \/ room[r].type # "group" \/ <<r, u>> \in misjoined'
             \/ u \in topic'[r] <=> u \in Active(r) /\ "muted" \notin row[r][u].flags
             \/ (u \in topic'[r] <=> u \in topic[r]) /\ ~Subscribes(c, u)
      BY <2>4, <3>1
    <3>3. <<r, u>> \notin muddled' =>
             /\ call'[c].room = r => Decided(c, u)'
             /\ \/ u \in Active(r) <=> told'[r][u] = "joined"
                \/ /\ told'[r][u] = told[r][u]
                   /\ call[c].room = r /\ Announces(c, u) =>
                        call'[c].room = r /\ Announces(c, u)'
             /\ \/ room[r].type # "group" \/ <<r, u>> \in misjoined'
                \/ u \in topic'[r] <=> u \in Active(r) /\ "muted" \notin row[r][u].flags
                \/ /\ u \in topic'[r] <=> u \in topic[r]
                   /\ call[c].room = r /\ Subscribes(c, u) =>
                        call'[c].room = r /\ Subscribes(c, u)'
      BY <2>2, <3>2, Zenon
    <3> QED BY <1>1, <1>2, <1>4, <2>1, <3>3, ClearKeeps, Zenon
  <2>5. CASE <<r, u>> \in muddled'
    BY <2>5 DEF Clear
  <2> QED BY <2>3, <2>4, <2>5
<1>8. Shape(c)' /\ Current(c)' /\ Emptied(c)' /\ Alone(c)'
  BY <1>3, Ended
<1>9. \A r \in RoomIds : room[r].type = "none" =>
           cache'[r] = cache[r] /\ told'[r] = told[r] /\ topic'[r] = topic[r]
  BY <1>1, <1>4 DEF RoomShape
<1>10. NoCall.room \notin RoomIds
  BY NoForms, RoomsAssumption
<1> QED BY <1>2, <1>4, <1>5, <1>6, <1>7, <1>8, <1>9, <1>10, Steady

------------------------------------------------------------------------------
\* A request concerns users.
LEMMA ConcernedForm ==
  ASSUME TypeOK, CallShape, NEW c \in Callers, call[c].pc # "idle"
  PROVE  Concerned(c) \subseteq Users
<1>1. call[c] \in Call /\ call[c].user \in Users
  BY DEF TypeOK, CallShape, Shape
<1>2. call[c].to \subseteq Users
  BY <1>1, SMT DEF Call
<1> QED BY <1>1, <1>2, SMT DEF Concerned

\* A request that is under way has a room, unless it is about to create one.
LEMMA RoomOfCall ==
  ASSUME TypeOK, CallShape, NEW c \in Callers, call[c].pc \notin {"idle", "lookup", "insert"}
  PROVE  call[c].room \in RoomIds
<1>1. call[c] \in Call /\ Shape(c)
  BY DEF TypeOK, CallShape
<1> QED BY <1>1, SMT DEF Shape

\* SendMessage: the request ends.
LEMMA SendKeeps ==
  ASSUME IInv, NEW c \in Callers, SendMessage(c)
  PROVE  IInv'
<1>1. /\ call[c].op = "send" /\ call[c].pc = "act" /\ End(c)
      /\ room' = room /\ row' = row /\ cache' = cache /\ topic' = topic /\ told' = told
      /\ received' = received /\ twins' = twins /\ muddled' = muddled /\ misjoined' = misjoined
  BY DEF SendMessage, At, store, outside, history
<1>2. TypeOK
  BY DEF IInv
<1>3. \A u \in Users : ~Announces(c, u) /\ ~Subscribes(c, u)
  BY <1>1, SMT DEF Announces, Subscribes
<1>4. ~At(c, "inval") /\ ~At(c, "inval2") /\ UNCHANGED <<store, cache, received, twins>>
  BY <1>1 DEF At, store
<1> QED BY <1>1, <1>2, <1>3, <1>4, Ending DEF TypeOK

\* A request that fails concerns users who are muddled from then on, if it had changed anything.
LEMMA FailsKeeps ==
  ASSUME IInv, NEW c \in Callers, Fails(c)
  PROVE  IInv'
<1>1. /\ call[c].pc \notin {"idle", "inval", "inval2"} /\ End(c)
      /\ room' = room /\ row' = row /\ cache' = cache /\ topic' = topic /\ told' = told
      /\ received' = received /\ twins' = twins /\ misjoined' = misjoined
  BY DEF Fails, At, store, outside
<1>2. muddled' = IF call[c].pc \in {"unsub", "close", "clear", "tell"}
                 THEN muddled \cup {<<call[c].room, u>> : u \in Concerned(c)} ELSE muddled
  BY Zenon DEF Fails, At
<1>3. TypeOK /\ CallShape /\ Shape(c)
  BY DEF IInv, CallShape
<1>4. muddled \subseteq muddled' /\ muddled' \subseteq RoomIds \X Users
  <2>1. CASE call[c].pc \in {"unsub", "close", "clear", "tell"}
    <3>1. call[c].room \in RoomIds /\ Concerned(c) \subseteq Users
      BY <1>3, <2>1, RoomOfCall, ConcernedForm
    <3> HIDE DEF Concerned
    <3> QED BY <1>2, <1>3, <2>1, <3>1 DEF TypeOK
  <2>2. CASE call[c].pc \notin {"unsub", "close", "clear", "tell"}
    BY <1>2, <1>3, <2>2 DEF TypeOK
  <2> QED BY <2>1, <2>2
<1>5. ASSUME NEW r \in RoomIds, NEW u \in Users, call[c].room = r, <<r, u>> \notin muddled'
      PROVE  ~Announces(c, u) /\ ~Subscribes(c, u)
  <2>1. CASE call[c].pc \in {"unsub", "close", "clear", "tell"}
    <3>1. u \notin Concerned(c)
      BY <1>2, <1>5, <2>1
    <3> QED BY <1>3, <3>1, Unconcerned
  <2>2. CASE call[c].pc \notin {"unsub", "close", "clear", "tell"}
    BY <1>1, <2>2, SMT DEF Announces, Subscribes
  <2> QED BY <2>1, <2>2
<1>6. ~At(c, "inval") /\ ~At(c, "inval2") /\ UNCHANGED <<store, cache, received, twins>>
  BY <1>1 DEF At, store
<1> QED BY <1>1, <1>3, <1>4, <1>5, <1>6, Ending DEF TypeOK

\* CreateRoom tells every member and subscribes them to the topic of a group.
LEMMA TellCreatedKeeps ==
  ASSUME IInv, NEW c \in Callers, TellCreated(c)
  PROVE  IInv'
<1>1. /\ call[c].pc = "tell" /\ call[c].op = "create" /\ End(c)
      /\ room' = room /\ row' = row /\ cache' = cache
      /\ received' = received /\ twins' = twins /\ misjoined' = misjoined /\ muddled' = muddled
  BY DEF TellCreated, At, store, history
<1>2. TypeOK /\ CallShape /\ Shape(c)
  BY DEF IInv, CallShape
<1>3. /\ call[c].room \in RoomIds /\ room[call[c].room].type = call[c].what
      /\ PairOf(c) \subseteq Users
  <2>1. PairOf(c) = Concerned(c)
    BY <1>1, SMT DEF PairOf, Concerned
  <2> QED BY <1>1, <1>2, <2>1, ConcernedForm DEF Shape
<1> DEFINE q == call[c].room
<1>4. /\ told' = [told EXCEPT ![q] = [u \in Users |-> IF u \in PairOf(c) THEN "joined"
           ELSE told[q][u]]]
      /\ topic' = IF room[q].type = "group" THEN [topic EXCEPT ![q] = topic[q] \cup PairOf(c)]
                  ELSE topic
  BY <1>2, <1>3 DEF TellCreated, TypeOK
<1> HIDE DEF PairOf
<1>5. told' \in [RoomIds -> [Users -> {"nothing", "joined", "left"}]]
  BY <1>2, <1>3, <1>4 DEF TypeOK
<1>6. topic' \in [RoomIds -> SUBSET Users]
  BY <1>2, <1>3, <1>4 DEF TypeOK
<1>7. \A r \in RoomIds \ {q} : told'[r] = told[r] /\ topic'[r] = topic[r]
  BY <1>2, <1>3, <1>4 DEF TypeOK
<1>8. ASSUME NEW r \in RoomIds, NEW u \in Users, q = r, Decided(c, u)
      PROVE  /\ \/ u \in Active(r) <=> told'[r][u] = "joined"
                \/ told'[r][u] = told[r][u] /\ ~Announces(c, u)
             /\ \/ room[r].type # "group"
                \/ u \in topic'[r] <=> u \in Active(r) /\ "muted" \notin row[r][u].flags
                \/ (u \in topic'[r] <=> u \in topic[r]) /\ ~Subscribes(c, u)
  <2>1. /\ told'[r][u] = IF u \in PairOf(c) THEN "joined" ELSE told[r][u]
        /\ room[r].type = "group" => topic'[r] = topic[r] \cup PairOf(c)
    BY <1>2, <1>4, <1>8 DEF TypeOK
  <2>2. u \in PairOf(c) => row[r][u].state = "active" /\ (call[c].what = "group"
          => "muted" \notin row[r][u].flags)
    BY <1>1, <1>8 DEF Decided
  <2>3. u \notin PairOf(c) => ~Announces(c, u) /\ ~Subscribes(c, u)
    BY <1>1, SMT DEF Announces, Subscribes
  <2> QED BY <1>3, <1>8, <2>1, <2>2, <2>3 DEF Active
<1>9. ~At(c, "inval") /\ ~At(c, "inval2") /\ UNCHANGED <<store, cache, received, twins>>
  BY <1>1 DEF At, store
<1>10. /\ muddled \subseteq muddled' /\ muddled' \subseteq RoomIds \X Users
       /\ misjoined \subseteq misjoined' /\ misjoined' \subseteq RoomIds \X Users
  BY <1>1, <1>2 DEF TypeOK
<1> QED BY <1>1, <1>5, <1>6, <1>7, <1>8, <1>9, <1>10, Ending


\* AddParticipantToRoom tells the new ones and subscribes all it was asked to add.
LEMMA TellAddedKeeps ==
  ASSUME IInv, NEW c \in Callers, TellAdded(c)
  PROVE  IInv'
<1>1. /\ call[c].pc = "tell" /\ call[c].op = "add" /\ End(c)
      /\ room' = room /\ row' = row /\ cache' = cache
      /\ received' = received /\ twins' = twins /\ muddled' = muddled
  BY DEF TellAdded, At, store
<1>2. TypeOK /\ CallShape /\ Shape(c)
  BY DEF IInv, CallShape
<1> DEFINE q == call[c].room
           T == call[c].to
           F == call[c].fresh
<1>3. q \in RoomIds /\ T \subseteq Users /\ F \subseteq T
  <2>1. q \in RoomIds
    BY <1>1, <1>2, RoomOfCall
  <2>2. call[c] \in Call
    BY <1>2 DEF TypeOK
  <2> QED BY <1>1, <1>2, <2>1, <2>2, SMT DEF Shape, Call
<1>4. /\ told' = [told EXCEPT ![q] = [u \in Users |-> IF u \in F THEN "joined" ELSE told[q][u]]]
      /\ topic' = [topic EXCEPT ![q] = topic[q] \cup T]
      /\ misjoined' = misjoined \cup {<<q, u>> : u \in {v \in T : "muted" \in row[q][v].flags}}
  BY <1>2, <1>3 DEF TellAdded, TypeOK
<1>5. told' \in [RoomIds -> [Users -> {"nothing", "joined", "left"}]]
  BY <1>2, <1>3, <1>4 DEF TypeOK
<1>6. topic' \in [RoomIds -> SUBSET Users]
  BY <1>2, <1>3, <1>4 DEF TypeOK
<1>7. \A r \in RoomIds \ {q} : told'[r] = told[r] /\ topic'[r] = topic[r]
  BY <1>2, <1>3, <1>4 DEF TypeOK
<1>8. ASSUME NEW r \in RoomIds, NEW u \in Users, q = r, Decided(c, u)
      PROVE  /\ \/ u \in Active(r) <=> told'[r][u] = "joined"
                \/ told'[r][u] = told[r][u] /\ ~Announces(c, u)
             /\ \/ <<r, u>> \in misjoined'
                \/ u \in topic'[r] <=> u \in Active(r) /\ "muted" \notin row[r][u].flags
                \/ (u \in topic'[r] <=> u \in topic[r]) /\ ~Subscribes(c, u)
  <2>1. /\ told'[r][u] = IF u \in F THEN "joined" ELSE told[r][u]
        /\ topic'[r] = topic[r] \cup T
    BY <1>2, <1>4, <1>8 DEF TypeOK
  <2>2. u \in T => row[r][u].state = "active"
    BY <1>1, <1>8 DEF Decided
  <2>3. (u \notin F => ~Announces(c, u)) /\ (u \notin T => ~Subscribes(c, u))
    BY <1>1, SMT DEF Announces, Subscribes
  <2>4. u \in T /\ "muted" \in row[r][u].flags => <<r, u>> \in misjoined'
    BY <1>4, <1>8
  <2> QED BY <1>3, <1>8, <2>1, <2>2, <2>3, <2>4 DEF Active
<1>9. ~At(c, "inval") /\ ~At(c, "inval2") /\ UNCHANGED <<store, cache, received, twins>>
  BY <1>1 DEF At, store
<1>10. /\ muddled \subseteq muddled' /\ muddled' \subseteq RoomIds \X Users
       /\ misjoined \subseteq misjoined' /\ misjoined' \subseteq RoomIds \X Users
  BY <1>1, <1>2, <1>3, <1>4 DEF TypeOK
<1> QED BY <1>1, <1>5, <1>6, <1>7, <1>8, <1>9, <1>10, Ending

\* AddParticipantToRoom fails between two users; all of them are muddled.
LEMMA TellSomeKeeps ==
  ASSUME IInv, NEW c \in Callers, TellSome(c)
  PROVE  IInv'
<1>1. /\ call[c].pc = "tell" /\ call[c].op = "add" /\ End(c)
      /\ room' = room /\ row' = row /\ cache' = cache /\ topic' = topic
      /\ received' = received /\ twins' = twins /\ misjoined' = misjoined
  BY DEF TellSome, At, store
<1>2. TypeOK /\ CallShape /\ Shape(c)
  BY DEF IInv, CallShape
<1> DEFINE q == call[c].room
           T == call[c].to
<1>3. q \in RoomIds /\ T \subseteq Users /\ call[c].fresh \subseteq T
  <2>1. q \in RoomIds
    BY <1>1, <1>2, RoomOfCall
  <2>2. call[c] \in Call
    BY <1>2 DEF TypeOK
  <2> QED BY <1>1, <1>2, <2>1, <2>2, SMT DEF Shape, Call
<1>4. PICK F \in SUBSET T :
        told' = [told EXCEPT ![q] = [u \in Users |-> IF u \in F THEN "joined" ELSE told[q][u]]]
  <2>1. PICK F \in SUBSET call[c].fresh :
          told' = [told EXCEPT ![q] = [u \in Users |-> IF u \in F THEN "joined" ELSE @[u]]]
    BY Zenon DEF TellSome
  <2> QED BY <1>2, <1>3, <2>1 DEF TypeOK
<1>5. muddled' = muddled \cup {<<q, u>> : u \in T}
  BY DEF TellSome
<1>6. told' \in [RoomIds -> [Users -> {"nothing", "joined", "left"}]]
  BY <1>2, <1>3, <1>4 DEF TypeOK
<1>7. topic' \in [RoomIds -> SUBSET Users] /\ \A r \in RoomIds \ {q} : told'[r] = told[r]
        /\ topic'[r] = topic[r]
  BY <1>1, <1>2, <1>3, <1>4 DEF TypeOK
<1>8. ASSUME NEW r \in RoomIds, NEW u \in Users, q = r, <<r, u>> \notin muddled'
      PROVE  told'[r][u] = told[r][u] /\ topic'[r] = topic[r] /\ ~Announces(c, u)
               /\ ~Subscribes(c, u)
  <2>1. u \notin T
    BY <1>5, <1>8
  <2>2. told'[r][u] = told[r][u]
    BY <1>2, <1>4, <1>8, <2>1 DEF TypeOK
  <2>3. ~Announces(c, u) /\ ~Subscribes(c, u)
    BY <1>1, <1>3, <2>1, SMT DEF Announces, Subscribes
  <2> QED BY <1>1, <2>2, <2>3
<1>9. ~At(c, "inval") /\ ~At(c, "inval2") /\ UNCHANGED <<store, cache, received, twins>>
  BY <1>1 DEF At, store
<1>10. /\ muddled \subseteq muddled' /\ muddled' \subseteq RoomIds \X Users
       /\ misjoined \subseteq misjoined' /\ misjoined' \subseteq RoomIds \X Users
  BY <1>1, <1>2, <1>3, <1>5 DEF TypeOK
<1> QED BY <1>1, <1>6, <1>7, <1>8, <1>9, <1>10, Ending

\* MuteRoom leaves the topic or joins it, and the one who is no member is misjoined.
LEMMA TellUpdatedKeeps ==
  ASSUME IInv, NEW c \in Callers, TellUpdated(c)
  PROVE  IInv'
<1> DEFINE q == call[c].room
           v == call[c].user
<1>1. /\ call[c].pc = "tell" /\ call[c].op \in {"toggle", "update"} /\ End(c)
      /\ room' = room /\ row' = row /\ cache' = cache /\ told' = told
      /\ received' = received /\ twins' = twins /\ muddled' = muddled
  BY DEF TellUpdated, At, store
<1>2. TypeOK /\ CallShape /\ Shape(c)
  BY DEF IInv, CallShape
<1>3. /\ q \in RoomIds /\ v \in Users /\ room[q].type = call[c].view.type
      /\ call[c].op = "toggle" => call[c].what = "muted"
  BY <1>1, <1>2, RoomOfCall DEF Shape
<1>4. /\ topic' = IF call[c].op = "update" \/ call[c].view.type # "group" THEN topic
                  ELSE IF Toggled(c) # {} THEN [topic EXCEPT ![q] = topic[q] \ {v}]
                  ELSE [topic EXCEPT ![q] = topic[q] \cup {v}]
      /\ misjoined' = IF call[c].op = "toggle" /\ v \in topic'[q] \ Active(q)
                      THEN misjoined \cup {<<q, v>>} ELSE misjoined
  BY <1>2, <1>3 DEF TellUpdated, TypeOK
<1> HIDE DEF Toggled
<1>5. told' \in [RoomIds -> [Users -> {"nothing", "joined", "left"}]]
  BY <1>1, <1>2 DEF TypeOK
<1>6. topic' \in [RoomIds -> SUBSET Users]
  BY <1>2, <1>3, <1>4 DEF TypeOK
<1>7. \A r \in RoomIds \ {q} : told'[r] = told[r] /\ topic'[r] = topic[r]
  BY <1>1, <1>2, <1>3, <1>4 DEF TypeOK
<1>8. ASSUME NEW r \in RoomIds, NEW u \in Users, q = r, Decided(c, u)
      PROVE  /\ told'[r][u] = told[r][u] /\ ~Announces(c, u)
             /\ \/ room[r].type # "group" \/ <<r, u>> \in misjoined'
                \/ u \in topic'[r] <=> u \in Active(r) /\ "muted" \notin row[r][u].flags
                \/ (u \in topic'[r] <=> u \in topic[r]) /\ ~Subscribes(c, u)
  <2>1. ~Announces(c, u)
    BY <1>1, SMT DEF Announces
  <2>2. CASE call[c].op = "update" \/ u # v
    <3>1. ~Subscribes(c, u)
      BY <1>1, <2>2, SMT DEF Subscribes
    <3>2. u \in topic'[r] <=> u \in topic[r]
      BY <1>2, <1>4, <1>8, <2>2 DEF TypeOK
    <3> QED BY <1>1, <2>1, <3>1, <3>2
  <2>3. CASE call[c].op = "toggle" /\ u = v /\ room[r].type = "group"
    <3>1. "muted" \in row[r][u].flags <=> Toggled(c) # {}
      BY <1>1, <1>3, <1>8, <2>3 DEF Decided
    <3>2. u \in topic'[r] <=> Toggled(c) = {}
      BY <1>2, <1>3, <1>4, <1>8, <2>3 DEF TypeOK
    <3>3. Toggled(c) = {} /\ u \notin Active(r) => <<r, u>> \in misjoined'
      BY <1>4, <1>8, <2>3, <3>2
    <3> QED BY <1>1, <2>1, <3>1, <3>2, <3>3
  <2>4. CASE room[r].type # "group"
    BY <1>1, <2>1, <2>4
  <2> QED BY <1>1, <2>2, <2>3, <2>4
<1>9. ~At(c, "inval") /\ ~At(c, "inval2") /\ UNCHANGED <<store, cache, received, twins>>
  BY <1>1 DEF At, store
<1>10. /\ muddled \subseteq muddled' /\ muddled' \subseteq RoomIds \X Users
       /\ misjoined \subseteq misjoined' /\ misjoined' \subseteq RoomIds \X Users
  BY <1>1, <1>2, <1>3, <1>4 DEF TypeOK
<1> QED BY <1>1, <1>5, <1>6, <1>7, <1>8, <1>9, <1>10, Ending

\* LeaveRoom tells the ones it has removed.
LEMMA TellLeftKeeps ==
  ASSUME IInv, NEW c \in Callers, TellLeft(c)
  PROVE  IInv'
<1> DEFINE q == call[c].room
           T == call[c].to
<1>1. /\ call[c].pc = "tell" /\ call[c].op = "leave" /\ End(c)
      /\ room' = room /\ row' = row /\ cache' = cache /\ topic' = topic
      /\ received' = received /\ twins' = twins /\ misjoined' = misjoined /\ muddled' = muddled
  BY DEF TellLeft, At, store, history
<1>2. TypeOK /\ CallShape /\ Shape(c)
  BY DEF IInv, CallShape
<1>3. q \in RoomIds
  BY <1>1, <1>2, RoomOfCall
<1>4. told' = [told EXCEPT ![q] = [u \in Users |-> IF u \in T THEN "left" ELSE told[q][u]]]
  BY <1>2, <1>3 DEF TellLeft, TypeOK
<1>5. told' \in [RoomIds -> [Users -> {"nothing", "joined", "left"}]]
  BY <1>2, <1>3, <1>4 DEF TypeOK
<1>6. topic' \in [RoomIds -> SUBSET Users] /\ \A r \in RoomIds \ {q} : told'[r] = told[r]
        /\ topic'[r] = topic[r]
  BY <1>1, <1>2, <1>3, <1>4 DEF TypeOK
<1>7. ASSUME NEW r \in RoomIds, NEW u \in Users, q = r, Decided(c, u)
      PROVE  /\ \/ u \in Active(r) <=> told'[r][u] = "joined"
                \/ told'[r][u] = told[r][u] /\ ~Announces(c, u)
             /\ topic'[r] = topic[r] /\ ~Subscribes(c, u)
  <2>1. told'[r][u] = IF u \in T THEN "left" ELSE told[r][u]
    BY <1>2, <1>4, <1>7 DEF TypeOK
  <2>2. u \in T => row[r][u].state # "active"
    BY <1>1, <1>7 DEF Decided
  <2>3. (u \notin T => ~Announces(c, u)) /\ ~Subscribes(c, u)
    BY <1>1, SMT DEF Announces, Subscribes
  <2> QED BY <1>1, <1>7, <2>1, <2>2, <2>3 DEF Active
<1>8. ~At(c, "inval") /\ ~At(c, "inval2") /\ UNCHANGED <<store, cache, received, twins>>
  BY <1>1 DEF At, store
<1>9. /\ muddled \subseteq muddled' /\ muddled' \subseteq RoomIds \X Users
      /\ misjoined \subseteq misjoined' /\ misjoined' \subseteq RoomIds \X Users
  BY <1>1, <1>2 DEF TypeOK
<1> QED BY <1>1, <1>5, <1>6, <1>7, <1>8, <1>9, Ending

------------------------------------------------------------------------------
\* What GetRoom makes of a room and a row is a view, and of the room's type if there is any.
LEMMA SeenForm ==
  ASSUME NEW x \in Room, NEW m \in Member
  PROVE  /\ Seen(x, m) \in View
         /\ Seen(x, m) # NoView => x.alive /\ m.state = "active" /\ Seen(x, m).type = x.type
<1>1. [type |-> x.type, perms |-> x.perms, role |-> m.role, flags |-> m.flags] \in View
  <2>1. x.type \in Types \cup {"none"} /\ x.perms \in SUBSET Perms
    BY Zenon DEF Room
  <2>2. m.role \in Roles /\ m.flags \in SUBSET Flags
    BY Zenon DEF Member
  <2> QED BY <2>1, <2>2, Zenon DEF View
<1>2. CASE x.alive /\ m.state = "active"
  BY <1>1, <1>2 DEF Seen
<1>3. CASE ~(x.alive /\ m.state = "active")
  BY <1>3, NoForms DEF Seen
<1> QED BY <1>2, <1>3

\* What GetRoom reads is a view, and of the room's type if there is any.
LEMMA ViewForm ==
  ASSUME TypeOK, RoomShape, NEW r \in RoomIds, NEW u \in Users
  PROVE  /\ ViewOf(r, u) \in View
         /\ ViewOf(r, u) # NoView => /\ ViewOf(r, u).type \in Types
                                     /\ ViewOf(r, u).type = room[r].type
<1>1. room[r] \in Room /\ row[r][u] \in Member
  BY DEF TypeOK
<1>2. room[r].type \in Types \cup {"none"}
  BY <1>1, Zenon DEF Room
<1> QED BY <1>1, <1>2, SeenForm DEF ViewOf, RoomShape

\* What GetRoom answers is the database's view unless it was suspect or about to be deleted.
LEMMA AnswerForm ==
  ASSUME IInv, NEW r \in RoomIds, NEW u \in Users, NEW op, NEW answer \in Answers(r, u, op)
  PROVE  /\ answer.view \in View /\ answer.doubt \in BOOLEAN /\ answer.hit \in BOOLEAN
         /\ answer.view # NoView => /\ answer.view.type \in Types
                                    /\ answer.view.type = room[r].type
                                    /\ ~answer.doubt => answer.view = ViewOf(r, u)
         /\ ~answer.hit => ~answer.doubt
<1>1. TypeOK /\ RoomShape /\ CacheCurrent
  BY DEF IInv
<1>2. CASE answer = [view |-> ViewOf(r, u), doubt |-> FALSE, hit |-> FALSE]
  <2>1. answer.view = ViewOf(r, u) /\ answer.doubt = FALSE /\ answer.hit = FALSE
    BY <1>2
  <2> QED BY <1>1, <2>1, ViewForm
<1>3. CASE answer # [view |-> ViewOf(r, u), doubt |-> FALSE, hit |-> FALSE]
  <2> DEFINE e == cache[r][u][Key(op)]
  <2>1. /\ e # NoEntry
        /\ answer = [view |-> e.view, doubt |-> e.suspect \/ Deleting(r), hit |-> TRUE]
    BY <1>3, SMT DEF Answers
  <2>2. Key(op) \in Keys
    BY DEF Key, Keys
  <2>3. e \in Entry /\ Kept(r, u, Key(op))
    BY <1>1, <2>2 DEF TypeOK, CacheCurrent
  <2>4. e.view \in View /\ e.suspect \in BOOLEAN
    BY <2>3, Zenon DEF Entry
  <2>5. answer.view = e.view /\ answer.doubt = (e.suspect \/ Deleting(r)) /\ answer.hit = TRUE
    BY <2>1, Zenon
  <2>6. /\ e.view.type \in Types /\ e.view.type = room[r].type
        /\ ~e.suspect => Deleting(r) \/ e.view = ViewOf(r, u)
    BY <2>1, <2>3, Zenon DEF Kept
  <2>7. Deleting(r) \in BOOLEAN
    BY Zenon DEF Deleting
  <2>8. answer.doubt \in BOOLEAN
    BY <2>4, <2>5, <2>7, Zenon
  <2>9. ~answer.doubt => answer.view = ViewOf(r, u)
    BY <2>5, <2>6, Zenon
  <2> QED BY <2>4, <2>5, <2>6, <2>8, <2>9, Zenon
<1> QED BY <1>2, <1>3

\* CreateRoom finds the room of the pair, or none.
LEMMA LookupKeeps ==
  ASSUME IInv, NEW c \in Callers, LookupPair(c)
  PROVE  IInv'
<1> DEFINE x == call[c]
<1>1. x.pc = "lookup" /\ UNCHANGED <<store, cache, outside, history>> /\ received' = received
  BY DEF LookupPair, At
<1>2. TypeOK /\ CallShape /\ Shape(c) /\ StillNone
  BY DEF IInv, CallShape
<1>3. x \in Call /\ call \in [Callers -> Call] /\ received \in 0..MaxRequests
  BY <1>2 DEF TypeOK
<1>4. /\ x.op = "create" /\ x.what = "p2p" /\ x.view = NoView /\ ~x.raced
      /\ x.user \in Users /\ x.room = NoRoom /\ \E u \in Users : x.to = {u}
  BY <1>1, <1>2 DEF Shape, StillNone, Alone
<1>5. ~At(c, "inval") /\ ~At(c, "inval2") /\ room' = room /\ row' = row
  BY <1>1 DEF At, store
<1>6. CASE Existing(c) = {} /\ Go(c, "insert")
  <2> DEFINE y == [x EXCEPT !.pc = "insert"]
  <2>1. y \in Call /\ call' = [call EXCEPT ![c] = y]
    BY <1>3, <1>6, FieldForms DEF Go, Pc
  <2>2. /\ y.pc = "insert" /\ y.op = x.op /\ y.what = x.what /\ y.view = x.view /\ y.raced = x.raced
        /\ y.user = x.user /\ y.room = x.room /\ y.to = x.to
    BY <1>3, SMT DEF Call
  <2>3. call'[c] = y
    BY <1>3, <2>1
  <2> HIDE DEF y
  <2>4. Existing(c)' = {}
    <3>1. Existing(c)' = Existing(c)
      BY <1>5, <2>2, <2>3, Zenon DEF Existing, LivePair, Active, PairOf
    <3> QED BY <1>6, <3>1
  <2>5. Shape(c)' /\ Current(c)' /\ Emptied(c)' /\ Alone(c)'
    BY <1>4, <2>2, <2>3, <2>4, SMT DEF Shape, Current, Emptied, Alone, Types, Flags
  <2>6. y.room \notin RoomIds
    BY <1>4, <2>2, RoomsAssumption
  <2>7. call[c].room \notin RoomIds
    BY <1>4, RoomsAssumption
  <2> QED BY <1>1, <1>3, <1>5, <2>1, <2>5, <2>6, <2>7, Quiet
<1>7. ASSUME NEW r \in Existing(c), call' = [call EXCEPT ![c].room = r, ![c].pc = "tell"]
      PROVE  IInv'
  <2> DEFINE z == [x EXCEPT !.room = r]
             y == [z EXCEPT !.pc = "tell"]
  <2>1. r \in RoomIds /\ LivePair(r, PairOf(c))
    BY <1>7 DEF Existing
  <2>2. z \in Call
    BY <1>3, <2>1, FieldForms
  <2>3. y \in Call
    BY <2>2, FieldForms DEF Pc
  <2>4. call' = [call EXCEPT ![c] = y]
    BY <1>3, <1>7
  <2>5. /\ y.pc = "tell" /\ y.op = x.op /\ y.what = x.what /\ y.view = x.view /\ y.raced = x.raced
        /\ y.user = x.user /\ y.room = r /\ y.to = x.to
    BY <1>3, SMT DEF Call
  <2>6. call'[c] = y
    BY <1>3, <2>4
  <2> HIDE DEF y
  <2>7. Shape(c)' /\ Current(c)' /\ Emptied(c)' /\ Alone(c)'
    BY <1>4, <1>5, <2>1, <2>5, <2>6, SMT DEF Shape, Current, Emptied, Alone, Types, Flags, LivePair
  <2>8. \A u \in Users : Decided(c, u)'
    <3>1. PairOf(c)' = PairOf(c)
      BY <2>5, <2>6 DEF PairOf
    <3> QED BY <1>4, <1>5, <2>1, <2>5, <2>6, <3>1, SMT DEF Decided, LivePair, Active
  <2>9. call[c].room \notin RoomIds
    BY <1>4, RoomsAssumption
  <2>10. room[r].type # "none"
    BY <2>1 DEF LivePair
  <2> QED BY <1>1, <1>3, <1>5, <2>3, <2>4, <2>5, <2>7, <2>8, <2>9, <2>10, Quiet
<1> QED BY <1>6, <1>7 DEF LookupPair


\* AddParticipantToRoom reads which of the users are members or were.
LEMMA AddReadsKeeps ==
  ASSUME IInv, NEW c \in Callers, AddReads(c)
  PROVE  IInv'
<1> DEFINE x == call[c]
           F == x.to \ RowsOf(c, "active")
           A == RowsOf(c, "none")
           b == RowsOf(c, "removed") # {}
           y1 == [x EXCEPT !.pc = "add"]
           y2 == [y1 EXCEPT !.fresh = F]
           y3 == [y2 EXCEPT !.absent = A]
           y  == [y3 EXCEPT !.revive = b]
<1>1. /\ x.pc = "act" /\ x.op = "add" /\ UNCHANGED <<store, cache, outside, history>>
      /\ received' = received
  BY DEF AddReads, At
<1>2. TypeOK /\ CallShape /\ Shape(c) /\ CallCurrent /\ Current(c)
  BY DEF IInv, CallShape, CallCurrent
<1>3. x \in Call /\ call \in [Callers -> Call] /\ received \in 0..MaxRequests
  BY <1>2 DEF TypeOK
<1>4. x.room \in RoomIds /\ x.user \in Users /\ x.view.type = "group" /\ room[x.room].type = "group"
  BY <1>1, <1>2 DEF Shape
<1>5. ~At(c, "inval") /\ ~At(c, "inval2") /\ room' = room /\ row' = row
  BY <1>1 DEF At, store
<1>6. x.to \in SUBSET Users
  BY <1>3, SMT DEF Call
<1>7. F \in SUBSET Users /\ A \in SUBSET Users /\ F \subseteq x.to /\ A \subseteq x.to
        /\ b \in BOOLEAN
  BY <1>6 DEF RowsOf
<1>8. \A u \in x.to : /\ u \in F <=> row[x.room][u].state # "active"
                      /\ u \in A <=> row[x.room][u].state = "none"
                      /\ row[x.room][u].state = "removed" => b
  BY DEF RowsOf
<1>9. call' = [call EXCEPT ![c] = y]
  BY <1>3 DEF AddReads
<1> HIDE DEF F, A, b
<1>10. y \in Call
  <2>1. y1 \in Call
    BY <1>3, FieldForms DEF Pc
  <2> HIDE DEF y1
  <2>2. y2 \in Call
    BY <1>7, <2>1, FieldForms
  <2> HIDE DEF y2
  <2>3. y3 \in Call
    BY <1>7, <2>2, FieldForms
  <2> HIDE DEF y3
  <2> QED BY <1>7, <2>3, FieldForms
<1>11. /\ y.pc = "add" /\ y.op = x.op /\ y.user = x.user /\ y.room = x.room /\ y.to = x.to
       /\ y.what = x.what /\ y.view = x.view /\ y.raced = x.raced /\ y.doubt = x.doubt
       /\ y.fresh = F /\ y.absent = A /\ y.revive = b
  BY <1>3, SMT DEF Call
<1>12. call'[c] = y
  BY <1>3, <1>9
<1> HIDE DEF y
<1>13. Shape(c)' /\ Emptied(c)' /\ Alone(c)'
  BY <1>1, <1>2, <1>4, <1>5, <1>7, <1>11, <1>12, SMT DEF Shape, Emptied, Alone
<1>14. Current(c)'
  BY <1>2, <1>5, <1>11, <1>12, Zenon DEF Current, ViewOf
<1>15. \A u \in Users : Decided(c, u)'
  BY <1>1, <1>5, <1>8, <1>11, <1>12, SMT DEF Decided
<1>16. \A u \in Users : ~Announces(c, u) /\ ~Subscribes(c, u)
  BY <1>1, SMT DEF Announces, Subscribes
<1> QED BY <1>1, <1>3, <1>4, <1>5, <1>9, <1>10, <1>11, <1>13, <1>14, <1>15, <1>16, Quiet

\* LeaveRoom of some, of one or of a room of two.
LEMMA LeaveKeeps ==
  ASSUME IInv, NEW c \in Callers, Leave(c)
  PROVE  IInv'
<1> DEFINE x == call[c]
           T == Leavers(c)
           p == IF LeavesAll(c) THEN "list" ELSE "remove"
           y1 == [x EXCEPT !.to = T]
           y2 == [y1 EXCEPT !.gone = T]
           y  == [y2 EXCEPT !.pc = p]
<1>1. /\ x.pc = "act" /\ x.op = "leave" /\ UNCHANGED <<store, cache, outside, history>>
      /\ received' = received
  BY DEF Leave, At
<1>2. TypeOK /\ CallShape /\ Shape(c) /\ CallCurrent /\ Current(c)
  BY DEF IInv, CallShape, CallCurrent
<1>3. x \in Call /\ call \in [Callers -> Call] /\ received \in 0..MaxRequests
  BY <1>2 DEF TypeOK
<1>4. /\ x.room \in RoomIds /\ x.user \in Users
      /\ x.view.type \in Types /\ room[x.room].type = x.view.type
  BY <1>1, <1>2 DEF Shape
<1>5. ~At(c, "inval") /\ ~At(c, "inval2") /\ room' = room /\ row' = row
  BY <1>1 DEF At, store
<1>6. T \in SUBSET Users /\ p \in {"list", "remove"}
  <2>1. x.to \in SUBSET Users
    BY <1>3, SMT DEF Call
  <2> QED BY <1>4, <2>1 DEF Leavers
<1>7. call' = [call EXCEPT ![c] = y]
  BY <1>3 DEF Leave
<1>8. p = "list" => LeavesAll(c)
  OBVIOUS
<1>9. p = "remove" => ~LeavesAll(c)
  OBVIOUS
<1> HIDE DEF T, p
<1>10. y \in Call
  <2>1. y1 \in Call
    BY <1>3, <1>6, FieldForms
  <2> HIDE DEF y1
  <2>2. y2 \in Call
    BY <1>6, <2>1, FieldForms
  <2> HIDE DEF y2
  <2>3. p \in Pc
    BY <1>6 DEF Pc
  <2> QED BY <2>2, <2>3, FieldForms
<1>11. /\ y.pc = p /\ y.op = x.op /\ y.user = x.user /\ y.room = x.room /\ y.to = T /\ y.gone = T
       /\ y.what = x.what /\ y.view = x.view /\ y.raced = x.raced /\ y.doubt = x.doubt
  BY <1>3, SMT DEF Call
<1>12. call'[c] = y
  BY <1>3, <1>7
<1> HIDE DEF y
<1>13. LeavesAll(c)' <=> LeavesAll(c)
  BY <1>11, <1>12 DEF LeavesAll
<1>14. Shape(c)'
  BY <1>1, <1>2, <1>4, <1>5, <1>6, <1>8, <1>9, <1>11, <1>12, <1>13, SMT DEF Shape
<1>15. Emptied(c)' /\ Alone(c)'
  BY <1>6, <1>9, <1>11, <1>12, SMT DEF Emptied, Alone, LeavesAll
<1>16. Current(c)'
  BY <1>2, <1>5, <1>11, <1>12, Zenon DEF Current, ViewOf
<1>17. \A u \in Users : Decided(c, u)'
  BY <1>1, <1>6, <1>9, <1>11, <1>12, <1>13, SMT DEF Decided
<1>18. \A u \in Users : ~Announces(c, u) /\ ~Subscribes(c, u)
  BY <1>1, SMT DEF Announces, Subscribes
<1>19. room[y.room].type # "none"
  BY <1>4, <1>11 DEF Types
<1> QED BY <1>1, <1>3, <1>5, <1>7, <1>10, <1>14, <1>15, <1>16, <1>17, <1>18, <1>19, Quiet

\* LeaveRoom of a whole group lists its members.
LEMMA ListKeeps ==
  ASSUME IInv, NEW c \in Callers, ListParticipants(c)
  PROVE  IInv'
<1> DEFINE x == call[c]
           T == x.to \cup Active(x.room)
           y1 == [x EXCEPT !.to = T]
           y  == [y1 EXCEPT !.pc = "select"]
<1>1. x.pc = "list" /\ UNCHANGED <<store, cache, outside, history>> /\ received' = received
  BY DEF ListParticipants, At
<1>2. TypeOK /\ CallShape /\ Shape(c) /\ CallCurrent /\ Current(c)
  BY DEF IInv, CallShape, CallCurrent
<1>3. x \in Call /\ call \in [Callers -> Call] /\ received \in 0..MaxRequests
  BY <1>2 DEF TypeOK
<1>4. /\ x.op = "leave" /\ LeavesAll(c) /\ x.room \in RoomIds /\ x.user \in Users
      /\ x.view.type \in Types /\ room[x.room].type = x.view.type
  BY <1>1, <1>2 DEF Shape
<1>5. ~At(c, "inval") /\ ~At(c, "inval2") /\ room' = room /\ row' = row
  BY <1>1 DEF At, store
<1>6. T \in SUBSET Users
  <2>1. x.to \in SUBSET Users
    BY <1>3, SMT DEF Call
  <2> QED BY <2>1 DEF Active
<1>7. call' = [call EXCEPT ![c] = y]
  BY <1>3 DEF ListParticipants
<1>8. \A u \in Users : row[x.room][u].state = "active" => u \in T
  BY DEF Active
<1> HIDE DEF T
<1>9. y \in Call
  <2>1. y1 \in Call
    BY <1>3, <1>6, FieldForms
  <2> HIDE DEF y1
  <2> QED BY <2>1, FieldForms DEF Pc
<1>10. /\ y.pc = "select" /\ y.op = x.op /\ y.user = x.user /\ y.room = x.room /\ y.to = T
       /\ y.what = x.what /\ y.view = x.view /\ y.raced = x.raced /\ y.doubt = x.doubt
  BY <1>3, SMT DEF Call
<1>11. call'[c] = y
  BY <1>3, <1>7
<1> HIDE DEF y
<1>12. LeavesAll(c)'
  BY <1>4, <1>10, <1>11 DEF LeavesAll
<1>13. Shape(c)'
  BY <1>1, <1>2, <1>4, <1>5, <1>10, <1>11, <1>12, SMT DEF Shape
<1>14. Emptied(c)' /\ Alone(c)'
  BY <1>10, <1>11 DEF Emptied, Alone
<1>15. Current(c)'
  BY <1>2, <1>5, <1>10, <1>11, Zenon DEF Current, ViewOf
<1>16. \A u \in Users : Decided(c, u)'
  BY <1>4, <1>5, <1>8, <1>10, <1>11, SMT DEF Decided
<1>17. \A u \in Users : ~Announces(c, u) /\ ~Subscribes(c, u)
  BY <1>1, <1>4, SMT DEF Announces, Subscribes
<1>18. room[y.room].type # "none"
  BY <1>4, <1>10 DEF Types
<1> QED BY <1>1, <1>3, <1>5, <1>7, <1>9, <1>13, <1>14, <1>15, <1>16, <1>17, <1>18, Quiet

\* The rows that LeaveRoom removes are those of the members at that moment.
LEMMA SelectKeeps ==
  ASSUME IInv, NEW c \in Callers, SelectMembers(c)
  PROVE  IInv'
<1> DEFINE x == call[c]
           T == x.to \cup Active(x.room)
           y1 == [x EXCEPT !.gone = T]
           y  == [y1 EXCEPT !.pc = "remove"]
<1>1. x.pc = "select" /\ UNCHANGED <<store, cache, outside, history>> /\ received' = received
  BY DEF SelectMembers, At
<1>2. TypeOK /\ CallShape /\ Shape(c) /\ CallCurrent /\ Current(c)
  BY DEF IInv, CallShape, CallCurrent
<1>3. x \in Call /\ call \in [Callers -> Call] /\ received \in 0..MaxRequests
  BY <1>2 DEF TypeOK
<1>4. /\ x.op = "leave" /\ LeavesAll(c) /\ x.room \in RoomIds /\ x.user \in Users
      /\ x.view.type \in Types /\ room[x.room].type = x.view.type
  BY <1>1, <1>2 DEF Shape
<1>5. ~At(c, "inval") /\ ~At(c, "inval2") /\ room' = room /\ row' = row
  BY <1>1 DEF At, store
<1>6. T \in SUBSET Users
  <2>1. x.to \in SUBSET Users
    BY <1>3, SMT DEF Call
  <2> QED BY <2>1 DEF Active
<1>7. call' = [call EXCEPT ![c] = y]
  BY <1>3 DEF SelectMembers
<1>8. /\ Active(x.room) \subseteq T /\ x.to \subseteq T
      /\ \A u \in Users : u \in Active(x.room) <=> row[x.room][u].state = "active"
  BY DEF Active
<1> HIDE DEF T
<1>9. y \in Call
  <2>1. y1 \in Call
    BY <1>3, <1>6, FieldForms
  <2> HIDE DEF y1
  <2> QED BY <2>1, FieldForms DEF Pc
<1>10. /\ y.pc = "remove" /\ y.op = x.op /\ y.user = x.user /\ y.room = x.room /\ y.gone = T
       /\ y.to = x.to
       /\ y.what = x.what /\ y.view = x.view /\ y.raced = x.raced /\ y.doubt = x.doubt
  BY <1>3, SMT DEF Call
<1>11. call'[c] = y
  BY <1>3, <1>7
<1> HIDE DEF y
<1>12. LeavesAll(c)'
  BY <1>4, <1>10, <1>11 DEF LeavesAll
<1>13. Shape(c)'
  BY <1>1, <1>2, <1>4, <1>5, <1>10, <1>11, <1>12, SMT DEF Shape
<1>14. Emptied(c)' /\ Alone(c)'
  <2>1. Active(x.room)' = Active(x.room)
    BY <1>5, <1>10, <1>11 DEF Active
  <2> QED BY <1>5, <1>8, <1>10, <1>11, <2>1 DEF Emptied, Alone, Active
<1>15. Current(c)'
  BY <1>2, <1>5, <1>10, <1>11, Zenon DEF Current, ViewOf
<1>16. ASSUME NEW r \in RoomIds, NEW u \in Users, <<r, u>> \notin muddled, y.room = r
       PROVE  Decided(c, u)'
  <2>1. Decided(c, u)
    BY <1>10, <1>16 DEF IInv, Clear
  <2>2. row[x.room][u].state = "active" => u \in x.to
    BY <1>1, <1>4, <2>1, SMT DEF Decided
  <2> QED BY <1>4, <1>5, <1>8, <1>10, <1>11, <1>12, <2>2, SMT DEF Decided
<1>17. \A u \in Users : ~Announces(c, u) /\ ~Subscribes(c, u)
  BY <1>1, <1>4, SMT DEF Announces, Subscribes
<1>18. room[y.room].type # "none"
  BY <1>4, <1>10 DEF Types
<1> QED BY <1>1, <1>3, <1>5, <1>7, <1>9, <1>13, <1>14, <1>15, <1>16, <1>17, <1>18, Quiet

------------------------------------------------------------------------------
\* What the fields of a request are.
LEMMA RequestForm ==
  ASSUME NEW q \in Request
  PROVE  /\ q.op \in Ops /\ q.user \in Users /\ q.to \in SUBSET Users /\ q.what \in Whats
         /\ q.grant \in SUBSET Perms
         /\ q.op = "create" => /\ q.room = NoRoom /\ q.what \in Types
                               /\ q.what = "p2p" => \E u \in Users : q.to = {u}
         /\ q.op # "create" => q.room \in RoomIds
         /\ q.op = "toggle" <=> q.what \in Flags
         /\ q.op = "role" => q.what \in Roles
<1> DEFINE Of(op, rooms, to, what, grant) ==
             [op : {op}, user : Users, room : rooms, to : to, what : what, grant : grant]
           some == SUBSET Users \ {{}}
           one  == {{u} : u \in Users}
<1>1. \/ q \in Of("create", {NoRoom}, one, {"p2p"}, {{}})
      \/ q \in Of("create", {NoRoom}, some, {"group"}, Grants)
      \/ q \in Of("toggle", RoomIds, {{}}, Flags, {{}})
      \/ q \in Of("update", RoomIds, {{}}, {"none"}, Grants)
      \/ q \in Of("role", RoomIds, one, Roles, {{}})
      \/ q \in Of("add", RoomIds, some, {"none"}, {{}})
      \/ q \in Of("leave", RoomIds, SUBSET Users, {"some", "all"}, {{}})
      \/ q \in Of("send", RoomIds, {{}}, {"none"}, {{}})
  BY Zenon DEF Request
<1>2. Grants \subseteq SUBSET Perms
  BY RoomsAssumption DEF Perms
<1>3. /\ one \subseteq SUBSET Users /\ some \subseteq SUBSET Users /\ {{}} \subseteq SUBSET Users
      /\ {{}} \subseteq SUBSET Perms
  OBVIOUS
<1>4. /\ \A s \in one : \E u \in Users : s = {u}
      /\ Types \subseteq Whats /\ Flags \subseteq Whats /\ Roles \subseteq Whats
      /\ {"some", "all", "none"} \subseteq Whats /\ {"p2p"} \subseteq Types
           /\ {"group"} \subseteq Types
  BY SMT DEF Whats, Types
<1>15. "p2p" \notin Flags /\ "group" \notin Flags /\ "none" \notin Flags /\ "some" \notin Flags
       /\ "all" \notin Flags /\ Roles \cap Flags = {}
  BY SMT DEF Flags, Roles
<1>5. {"create", "toggle", "update", "role", "add", "leave", "send"} = Ops
  BY DEF Ops
<1> HIDE DEF one, some
<1>6. CASE q \in Of("create", {NoRoom}, one, {"p2p"}, {{}})
  BY <1>2, <1>3, <1>4, <1>5, <1>15, <1>6, SMT
<1>7. CASE q \in Of("create", {NoRoom}, some, {"group"}, Grants)
  BY <1>2, <1>3, <1>4, <1>5, <1>15, <1>7, SMT
<1>8. CASE q \in Of("toggle", RoomIds, {{}}, Flags, {{}})
  BY <1>2, <1>3, <1>4, <1>5, <1>15, <1>8, SMT
<1>9. CASE q \in Of("update", RoomIds, {{}}, {"none"}, Grants)
  BY <1>2, <1>3, <1>4, <1>5, <1>15, <1>9, SMT
<1>10. CASE q \in Of("role", RoomIds, one, Roles, {{}})
  BY <1>2, <1>3, <1>4, <1>5, <1>15, <1>10, SMT
<1>11. CASE q \in Of("add", RoomIds, some, {"none"}, {{}})
  BY <1>2, <1>3, <1>4, <1>5, <1>15, <1>11, SMT
<1>12. CASE q \in Of("leave", RoomIds, SUBSET Users, {"some", "all"}, {{}})
  BY <1>2, <1>3, <1>4, <1>5, <1>15, <1>12, SMT
<1>13. CASE q \in Of("send", RoomIds, {{}}, {"none"}, {{}})
  BY <1>2, <1>3, <1>4, <1>5, <1>15, <1>13, SMT
<1> HIDE DEF Of
<1> QED BY <1>1, <1>6, <1>7, <1>8, <1>9, <1>10, <1>11, <1>12, <1>13

\* A request that has been received has the fields of the request and nothing else.
LEMMA AskedForm ==
  ASSUME NEW q \in Request
  PROVE  /\ Asked(q) \in Call
         /\ Asked(q).pc = "idle" /\ Asked(q).op = q.op /\ Asked(q).user = q.user
         /\ Asked(q).room = q.room /\ Asked(q).to = q.to /\ Asked(q).what = q.what
         /\ Asked(q).grant = q.grant /\ Asked(q).view = NoView /\ Asked(q).gone = {}
         /\ Asked(q).fresh = {} /\ Asked(q).absent = {} /\ Asked(q).raced = FALSE
<1> DEFINE z1 == [NoCall EXCEPT !.op = q.op]
           z2 == [z1 EXCEPT !.user = q.user]
           z3 == [z2 EXCEPT !.room = q.room]
           z4 == [z3 EXCEPT !.to = q.to]
           z5 == [z4 EXCEPT !.what = q.what]
           z6 == [z5 EXCEPT !.grant = q.grant]
<1>1. Asked(q) = z6
  BY Zenon DEF Asked
<1>2. /\ q.op \in Ops /\ q.user \in Users /\ q.room \in RoomIds \cup {NoRoom}
      /\ q.to \in SUBSET Users /\ q.what \in Whats /\ q.grant \in SUBSET Perms
  <2>1. q.room = NoRoom \/ q.room \in RoomIds
    BY RequestForm
  <2> QED BY <2>1, RequestForm
<1>3. /\ z6.pc = NoCall.pc /\ z6.op = q.op /\ z6.user = q.user
      /\ z6.room = q.room /\ z6.to = q.to /\ z6.what = q.what
      /\ z6.grant = q.grant /\ z6.view = NoCall.view /\ z6.gone = NoCall.gone
      /\ z6.fresh = NoCall.fresh /\ z6.absent = NoCall.absent /\ z6.raced = NoCall.raced
  <2>1. NoCall \in Call
    BY NoForms
  <2> QED BY <2>1, SMT DEF Call
<1>4. /\ NoCall.pc = "idle" /\ NoCall.view = NoView /\ NoCall.gone = {} /\ NoCall.fresh = {}
      /\ NoCall.absent = {} /\ NoCall.raced = FALSE
  BY SMT DEF NoCall
<1>5. z6 \in Call
  <2>1. z1 \in Call
    BY <1>2, NoForms, FieldForms
  <2> HIDE DEF z1
  <2>2. z2 \in Call
    BY <1>2, <2>1, FieldForms
  <2> HIDE DEF z2
  <2>3. z3 \in Call
    BY <1>2, <2>2, FieldForms
  <2> HIDE DEF z3
  <2>4. z4 \in Call
    BY <1>2, <2>3, FieldForms
  <2> HIDE DEF z4
  <2>5. z5 \in Call
    BY <1>2, <2>4, FieldForms
  <2> HIDE DEF z5
  <2> QED BY <1>2, <2>5, FieldForms
<1> HIDE DEF z6
<1> QED BY <1>1, <1>3, <1>4, <1>5

\* A request is received with one of the answers of GetRoom, if it starts with that.
LEMMA ReceiveKeeps ==
  ASSUME IInv, NEW c \in Callers, NEW q \in Request, Receive(c, q)
  PROVE  IInv'
<1> DEFINE x == Asked(q)
<1>1. /\ call[c].pc = "idle" /\ UNCHANGED <<store, cache, outside, history>>
      /\ received < MaxRequests /\ received' = received + 1
  BY DEF Receive, At
<1>2. TypeOK /\ CallShape /\ Shape(c)
  BY DEF IInv, CallShape
<1>3. call \in [Callers -> Call] /\ received \in 0..MaxRequests
  BY <1>2 DEF TypeOK
<1>4. received' \in 0..MaxRequests
  BY <1>1, <1>3, RoomsAssumption
<1>5. ~At(c, "inval") /\ ~At(c, "inval2") /\ room' = room /\ row' = row
        /\ call[c].room \notin RoomIds
  <2>1. call[c].room = NoRoom
    BY <1>1, <1>2, NoForms DEF Shape
  <2> QED BY <1>1, <2>1, RoomsAssumption DEF At, store
<1>6. CASE q.op = "create"
  <2> DEFINE p == IF q.what = "p2p" THEN "lookup" ELSE "insert"
             y == [x EXCEPT !.pc = p]
  <2>1. call' = [call EXCEPT ![c] = y]
    BY <1>6 DEF Receive
  <2>2. p \in Pc /\ p \in {"lookup", "insert"} /\ (p = "lookup" <=> q.what = "p2p")
    BY DEF Pc
  <2> HIDE DEF p
  <2>3. y \in Call
    BY <2>2, AskedForm, FieldForms
  <2>4. /\ y.pc = p /\ y.op = "create" /\ y.user = q.user /\ y.room = NoRoom /\ y.to = q.to
        /\ y.what = q.what /\ y.view = NoView /\ y.raced = FALSE
    <3>1. x \in Call
      BY AskedForm
    <3> HIDE DEF x
    <3>2. /\ y.pc = p /\ y.op = x.op /\ y.user = x.user /\ y.room = x.room /\ y.to = x.to
          /\ y.what = x.what /\ y.view = x.view /\ y.raced = x.raced
      BY <3>1, SMT DEF Call
    <3> QED BY <1>6, <3>2, AskedForm, RequestForm DEF x
  <2>5. call'[c] = y
    BY <1>3, <2>1
  <2> HIDE DEF y
  <2>6. /\ q.user \in Users /\ q.what \in Types
        /\ q.what = "p2p" => \E u \in Users : q.to = {u}
    BY <1>6, RequestForm
  <2>7. Shape(c)' /\ Current(c)' /\ Emptied(c)' /\ Alone(c)'
    BY <2>2, <2>4, <2>5, <2>6, SMT DEF Shape, Current, Emptied, Alone, Types, Flags
  <2>8. y.room \notin RoomIds
    BY <2>4, RoomsAssumption
  <2> QED BY <1>1, <1>4, <1>5, <2>1, <2>3, <2>7, <2>8, Quiet
<1>7. ASSUME q.op # "create",
             NEW answer \in Answers(q.room, q.user, q.op),
             call' = [call EXCEPT ![c] = Read(x, answer, answer.hit)]
      PROVE  IInv'
  <2>1. /\ q.room \in RoomIds /\ q.user \in Users /\ q.op \in Ops
        /\ q.op = "toggle" <=> q.what \in Flags
        /\ q.op = "role" => q.what \in Roles
    BY <1>7, RequestForm
  <2>2. CASE answer.view = NoView
    <3>1. call' = [call EXCEPT ![c] = NoCall] /\ NoCall \in Call
      BY <1>7, <2>2, NoForms DEF Read
    <3>2. call'[c] = NoCall
      BY <1>3, <3>1
    <3>3. Shape(c)' /\ Current(c)' /\ Emptied(c)' /\ Alone(c)'
      BY <3>2, Ended
    <3>4. NoCall.room \notin RoomIds
      BY NoForms, RoomsAssumption
    <3> QED BY <1>1, <1>4, <1>5, <3>1, <3>3, <3>4, Quiet
  <2>3. CASE answer.view # NoView
    <3>1. /\ answer.view \in View /\ answer.doubt \in BOOLEAN /\ answer.hit \in BOOLEAN
          /\ answer.view.type \in Types /\ answer.view.type = room[q.room].type
          /\ ~answer.doubt => answer.view = ViewOf(q.room, q.user)
          /\ ~answer.hit => ~answer.doubt
      BY <1>7, <2>1, <2>3, AnswerForm
    <3> DEFINE y1 == [x EXCEPT !.view = answer.view]
               y2 == [y1 EXCEPT !.doubt = answer.doubt]
               y3 == [y2 EXCEPT !.raced = FALSE]
               z(p) == [y3 EXCEPT !.pc = p]
    <3>2. x \in Call
      BY AskedForm
    <3>3. Read(x, answer, answer.hit) \in {z("fill"), z("act"), NoCall}
          /\ (Read(x, answer, answer.hit) = NoCall
              \/ (~answer.hit /\ Read(x, answer, answer.hit) = z("fill"))
              \/ (May(x, answer.view) /\ Read(x, answer, answer.hit) = z("act")))
      <4> HIDE DEF x
      <4>1. [x EXCEPT !.view = answer.view, !.doubt = answer.doubt, !.raced = FALSE] = y3
        BY <3>2, SMT DEF Call
      <4>2. y3.view = answer.view
        BY <3>2, SMT DEF Call
      <4> HIDE DEF y3, May
      <4> QED BY <2>3, <4>1, <4>2 DEF Read
    <3>4. y3 \in Call
      <4> HIDE DEF x
      <4>1. y1 \in Call
        BY <3>1, <3>2, FieldForms
      <4> HIDE DEF y1
      <4>2. y2 \in Call
        BY <3>1, <4>1, FieldForms
      <4> HIDE DEF y2
      <4> QED BY <4>2, FieldForms
    <3>5. /\ y3.op = q.op /\ y3.user = q.user /\ y3.room = q.room /\ y3.to = q.to
               /\ y3.what = q.what
          /\ y3.view = answer.view /\ y3.doubt = answer.doubt /\ y3.raced = FALSE
          /\ y3.fresh = {} /\ y3.absent = {}
      <4> HIDE DEF x
      <4>1. /\ y3.op = x.op /\ y3.user = x.user /\ y3.room = x.room /\ y3.to = x.to
            /\ y3.what = x.what /\ y3.view = answer.view /\ y3.doubt = answer.doubt
            /\ y3.raced = FALSE /\ y3.fresh = x.fresh /\ y3.absent = x.absent
        BY <3>2, SMT DEF Call
      <4> QED BY <4>1, AskedForm DEF x
    <3> HIDE DEF y3
    <3>6. CASE Read(x, answer, answer.hit) = NoCall
      <4>1. call' = [call EXCEPT ![c] = NoCall] /\ NoCall \in Call
        BY <1>7, <3>6, NoForms
      <4>2. call'[c] = NoCall
        BY <1>3, <4>1
      <4>3. Shape(c)' /\ Current(c)' /\ Emptied(c)' /\ Alone(c)'
        BY <4>2, Ended
      <4>4. NoCall.room \notin RoomIds
        BY NoForms, RoomsAssumption
      <4> QED BY <1>1, <1>4, <1>5, <4>1, <4>3, <4>4, Quiet
    <3>7. ASSUME NEW p \in {"fill", "act"},
                 p = "fill" => ~answer.hit, p = "act" => May(x, answer.view),
                 call' = [call EXCEPT ![c] = z(p)]
          PROVE  IInv'
      <4> DEFINE y == z(p)
      <4>1. y \in Call
        BY <3>4, FieldForms DEF Pc
      <4>2. /\ y.pc = p /\ y.op = q.op /\ y.user = q.user /\ y.room = q.room /\ y.to = q.to
            /\ y.what = q.what /\ y.view = answer.view /\ y.doubt = answer.doubt
            /\ y.raced = FALSE /\ y.fresh = {} /\ y.absent = {}
        BY <3>4, <3>5, SMT DEF Call
      <4>3. call'[c] = y /\ call' = [call EXCEPT ![c] = y]
        BY <1>3, <3>7
      <4> HIDE DEF y
      <4>4. p = "act" => May(y, y.view)
        <5>1. x.op = q.op /\ x.to = q.to /\ x.what = q.what
          BY AskedForm
        <5> HIDE DEF x
        <5>2. May(y, y.view) <=> May(x, answer.view)
          BY <4>2, <5>1, SMT DEF May
        <5> QED BY <3>7, <5>2
      <4> HIDE DEF z, x
      <4>5. p = "act" /\ q.op = "add" => answer.view.type = "group"
        BY <4>2, <4>4, SMT DEF May
      <4>6. Shape(c)'
        <5> HIDE DEF May
        <5> QED BY <1>5, <1>7, <2>1, <3>1, <3>7, <4>2, <4>3, <4>4, <4>5, SMT DEF Shape, Ops
      <4>7. Current(c)'
        BY <1>5, <3>1, <4>2, <4>3, Zenon DEF Current, ViewOf
      <4>8. Emptied(c)' /\ Alone(c)'
        BY <3>7, <4>2, <4>3, SMT DEF Emptied, Alone
      <4>9. \A u \in Users : Decided(c, u)'
        BY <1>7, <3>7, <4>2, <4>3, SMT DEF Decided
      <4>10. room[y.room].type # "none"
        BY <3>1, <4>2, SMT DEF Types
      <4> QED BY <1>1, <1>4, <1>5, <4>1, <4>3, <4>6, <4>7, <4>8, <4>9, <4>10, Quiet
    <3> HIDE DEF z
    <3> QED BY <1>7, <3>3, <3>6, <3>7
  <2> QED BY <2>2, <2>3
<1> QED BY <1>6, <1>7 DEF Receive


\* UpdateRoom reads the room once more.
LEMMA RereadKeeps ==
  ASSUME IInv, NEW c \in Callers, Reread(c)
  PROVE  IInv'
<1> DEFINE x == call[c]
<1>1. /\ x.pc = "reread" /\ UNCHANGED <<store, cache, outside, history>> /\ received' = received
  BY DEF Reread, At
<1>2. TypeOK /\ CallShape /\ Shape(c)
  BY DEF IInv, CallShape
<1>3. x \in Call /\ call \in [Callers -> Call] /\ received \in 0..MaxRequests
  BY <1>2 DEF TypeOK
<1>4. x.op = "update" /\ x.room \in RoomIds /\ x.user \in Users
  BY <1>1, <1>2 DEF Shape
<1>5. ~At(c, "inval") /\ ~At(c, "inval2") /\ room' = room /\ row' = row
  BY <1>1 DEF At, store
<1>6. \A u \in Users : ~Announces(c, u) /\ ~Subscribes(c, u)
  BY <1>4, SMT DEF Announces, Subscribes
<1>7. PICK answer \in Answers(x.room, x.user, x.op) :
        call' = [call EXCEPT ![c] =
          IF answer.view = NoView THEN NoCall
          ELSE [x EXCEPT !.view = answer.view, !.doubt = answer.doubt, !.raced = FALSE,
                         !.pc = IF answer.hit THEN "tell" ELSE "refill"]]
  BY <1>3 DEF Reread
<1>8. CASE answer.view = NoView
  <2>1. call' = [call EXCEPT ![c] = NoCall] /\ NoCall \in Call
    BY <1>7, <1>8, NoForms
  <2>2. call'[c] = NoCall
    BY <1>3, <2>1
  <2>3. Shape(c)' /\ Current(c)' /\ Emptied(c)' /\ Alone(c)'
    BY <2>2, Ended
  <2>4. NoCall.room \notin RoomIds
    BY NoForms, RoomsAssumption
  <2> QED BY <1>1, <1>3, <1>5, <1>6, <2>1, <2>3, <2>4, Quiet
<1>9. CASE answer.view # NoView
  <2>1. /\ answer.view \in View /\ answer.doubt \in BOOLEAN /\ answer.hit \in BOOLEAN
        /\ answer.view.type \in Types /\ answer.view.type = room[x.room].type
        /\ ~answer.doubt => answer.view = ViewOf(x.room, x.user)
        /\ ~answer.hit => ~answer.doubt
    BY <1>4, <1>9, AnswerForm
  <2> DEFINE p == IF answer.hit THEN "tell" ELSE "refill"
             y1 == [x EXCEPT !.view = answer.view]
             y2 == [y1 EXCEPT !.doubt = answer.doubt]
             y3 == [y2 EXCEPT !.raced = FALSE]
             y  == [y3 EXCEPT !.pc = p]
  <2>2. p \in {"tell", "refill"} /\ (p = "refill" => ~answer.hit)
    OBVIOUS
  <2>3. call' = [call EXCEPT ![c] = y]
    <3>1. [x EXCEPT !.view = answer.view, !.doubt = answer.doubt, !.raced = FALSE, !.pc = p] = y
      <4> HIDE DEF p
      <4> QED BY <1>3, SMT DEF Call
    <3> HIDE DEF y
    <3> QED BY <1>7, <1>9, <3>1
  <2> HIDE DEF p
  <2>4. y \in Call
    <3>1. y1 \in Call
      BY <1>3, <2>1, FieldForms
    <3> HIDE DEF y1
    <3>2. y2 \in Call
      BY <2>1, <3>1, FieldForms
    <3> HIDE DEF y2
    <3>3. y3 \in Call
      BY <3>2, FieldForms
    <3> HIDE DEF y3
    <3> QED BY <2>2, <3>3, FieldForms DEF Pc
  <2>5. /\ y.pc = p /\ y.op = x.op /\ y.user = x.user /\ y.room = x.room /\ y.to = x.to
        /\ y.what = x.what /\ y.view = answer.view /\ y.doubt = answer.doubt /\ y.raced = FALSE
    BY <1>3, SMT DEF Call
  <2>6. call'[c] = y
    BY <1>3, <2>3
  <2> HIDE DEF y
  <2>7. Shape(c)' /\ Emptied(c)' /\ Alone(c)'
    BY <1>2, <1>4, <1>5, <2>1, <2>2, <2>5, <2>6, SMT DEF Shape, Emptied, Alone
  <2>8. Current(c)'
    BY <1>5, <2>1, <2>5, <2>6, Zenon DEF Current, ViewOf
  <2>9. \A u \in Users : Decided(c, u)'
    BY <1>4, <2>5, <2>6, SMT DEF Decided
  <2>10. room[y.room].type # "none"
    BY <2>1, <2>5, SMT DEF Types
  <2> QED BY <1>1, <1>3, <1>5, <1>6, <2>3, <2>4, <2>7, <2>8, <2>9, <2>10, Quiet
<1> QED BY <1>8, <1>9

\* A fill puts what GetRoom has read into the cache, as suspect if it has changed since.
LEMMA EnteredForm ==
  ASSUME IInv, NEW c \in Callers, NEW y \in Call, call' = [call EXCEPT ![c] = y],
         call[c].pc \in {"fill", "refill"}, cache' = Entered(c), UNCHANGED store
  PROVE  /\ cache' \in [RoomIds -> [Users -> [Keys -> Entry]]] /\ CacheCurrent'
         /\ \A r \in RoomIds : room[r].type = "none" => cache'[r] = cache[r]
<1> DEFINE x == call[c]
           k == Key(x.op)
           e == [view |-> x.view, suspect |-> x.raced]
<1>1. TypeOK /\ RoomShape /\ CacheCurrent /\ Shape(c) /\ Current(c)
  BY DEF IInv, CallShape, CallCurrent
<1>2. x \in Call /\ call \in [Callers -> Call] /\ room' = room /\ row' = row
  BY <1>1 DEF TypeOK, store
<1>3. /\ x.room \in RoomIds /\ x.user \in Users /\ x.view.type \in Types
      /\ x.view.type = room[x.room].type /\ ~x.doubt /\ x.view # NoView
  <2>1. x.op \notin {"none", "create"}
    BY <1>1 DEF Shape
  <2> QED BY <1>1, <2>1, NoForms, SMT DEF Shape, Types
<1>4. k \in Keys
  BY DEF Key, Keys
<1>5. e \in Entry
  <2>1. x.view \in View /\ x.raced \in BOOLEAN
    BY <1>2, Zenon DEF Call
  <2> QED BY <2>1, Zenon DEF Entry
<1>6. cache' = [cache EXCEPT ![x.room][x.user][k] = e]
  BY DEF Entered
<1>7. e.view = x.view /\ e.suspect = x.raced
  BY Zenon
<1> HIDE DEF e, k
<1>8. cache' \in [RoomIds -> [Users -> [Keys -> Entry]]]
  BY <1>1, <1>3, <1>4, <1>5, <1>6 DEF TypeOK
<1>9. \A r \in RoomIds : room[r].type = "none" => cache'[r] = cache[r]
  <2>1. room[x.room].type # "none"
    BY <1>3, SMT DEF Types
  <2> QED BY <1>1, <1>6, <2>1 DEF TypeOK
<1>10. ~x.raced => x.view = ViewOf(x.room, x.user)
  BY <1>1, <1>3 DEF Current
<1>11. \A d \in Callers \ {c} : call'[d] = call[d]
  BY <1>2, Zenon
<1>12. \A r \in RoomIds : Deleting(r) => Deleting(r)'
  BY <1>11, Zenon DEF Deleting, At
<1>13. ASSUME NEW r \in RoomIds, NEW u \in Users, NEW l \in Keys PROVE Kept(r, u, l)'
  <2>1. Kept(r, u, l)
    BY <1>1 DEF CacheCurrent
  <2>2. ViewOf(r, u)' = ViewOf(r, u)
    BY <1>2 DEF ViewOf
  <2>3. cache'[r][u][l] = IF r = x.room /\ u = x.user /\ l = k THEN e ELSE cache[r][u][l]
    BY <1>1, <1>3, <1>4, <1>6 DEF TypeOK
  <2>4. CASE r = x.room /\ u = x.user /\ l = k
    BY <1>2, <1>3, <1>7, <1>10, <2>2, <2>3, <2>4, Zenon DEF Kept
  <2>5. CASE ~(r = x.room /\ u = x.user /\ l = k)
    <3>1. cache'[r][u][l] = cache[r][u][l]
      BY <2>3, <2>5
    <3> QED BY <1>2, <1>12, <2>1, <2>2, <3>1, Zenon DEF Kept
  <2> QED BY <2>4, <2>5
<1>14. CacheCurrent'
  BY <1>13 DEF CacheCurrent
<1> QED BY <1>8, <1>9, <1>14

\* GetRoom enters the view it has read into the cache.
LEMMA FillKeeps ==
  ASSUME IInv, NEW c \in Callers, Fill(c)
  PROVE  IInv'
<1> DEFINE x == call[c]
           z == [x EXCEPT !.pc = "act"]
           y == IF May(x, x.view) THEN z ELSE NoCall
<1>1. x.pc = "fill" /\ UNCHANGED <<store, outside, history>> /\ received' = received
        /\ cache' = Entered(c)
  BY DEF Fill, At
<1>2. TypeOK /\ Shape(c) /\ Current(c)
  BY DEF IInv, CallShape, CallCurrent
<1>3. x \in Call /\ call \in [Callers -> Call] /\ received \in 0..MaxRequests /\ room' = room
        /\ row' = row
  BY <1>1, <1>2 DEF TypeOK, store
<1>4. call' = [call EXCEPT ![c] = y]
  BY <1>3 DEF Fill
<1>5. y \in Call
  <2>1. z \in Call
    BY <1>3, FieldForms DEF Pc
  <2> HIDE DEF z, May
  <2> QED BY <2>1, NoForms
<1>6. call'[c] = y
  BY <1>3, <1>4
<1>7. \A u \in Users : ~Announces(c, u) /\ ~Subscribes(c, u)
  BY <1>1, <1>2, SMT DEF Announces, Subscribes, Shape
<1>8. CASE May(x, x.view)
  <2>1. y = z
    BY <1>8
  <2>2. /\ z.pc = "act" /\ z.op = x.op /\ z.user = x.user /\ z.room = x.room /\ z.to = x.to
        /\ z.what = x.what /\ z.view = x.view /\ z.doubt = x.doubt /\ z.raced = x.raced
        /\ z.fresh = x.fresh /\ z.absent = x.absent
    BY <1>3, SMT DEF Call
  <2>3. May(z, z.view)
    BY <1>8, <2>2, SMT DEF May
  <2>4. x.op = "add" => x.view.type = "group"
    BY <1>8, SMT DEF May
  <2> HIDE DEF y, z
  <2>5. x.op \notin {"none", "create"}
    BY <1>1, <1>2 DEF Shape
  <2>6. Shape(c)'
    <3> HIDE DEF May
    <3> QED BY <1>1, <1>2, <1>3, <1>6, <2>1, <2>2, <2>3, <2>4, <2>5, SMT DEF Shape
  <2>7. Current(c)'
    BY <1>2, <1>3, <1>6, <2>1, <2>2, Zenon DEF Current, ViewOf
  <2>8. Emptied(c)' /\ Alone(c)'
    BY <1>6, <2>1, <2>2, SMT DEF Emptied, Alone
  <2>9. \A u \in Users : Decided(c, u)'
    BY <1>6, <2>1, <2>2, <2>5, SMT DEF Decided
  <2>10. room[y.room].type # "none"
    BY <1>2, <2>1, <2>2, <2>5, SMT DEF Shape, Types
  <2> QED BY <1>1, <1>3, <1>4, <1>5, <1>7, <2>6, <2>7, <2>8, <2>9, <2>10, CallStep, EnteredForm
<1>9. CASE ~May(x, x.view)
  <2>1. y = NoCall
    BY <1>9
  <2> HIDE DEF y
  <2>2. Shape(c)' /\ Current(c)' /\ Emptied(c)' /\ Alone(c)'
    BY <1>6, <2>1, Ended
  <2>3. y.room \notin RoomIds
    BY <2>1, NoForms, RoomsAssumption
  <2> QED BY <1>1, <1>3, <1>4, <1>5, <1>7, <2>2, <2>3, CallStep, EnteredForm
<1> QED BY <1>8, <1>9

\* The second GetRoom of UpdateRoom enters its view.
LEMMA RefillKeeps ==
  ASSUME IInv, NEW c \in Callers, Refill(c)
  PROVE  IInv'
<1> DEFINE x == call[c]
           y == [x EXCEPT !.pc = "tell"]
<1>1. x.pc = "refill" /\ UNCHANGED <<store, outside, history>> /\ received' = received
        /\ cache' = Entered(c)
  BY DEF Refill, At
<1>2. TypeOK /\ Shape(c) /\ Current(c)
  BY DEF IInv, CallShape, CallCurrent
<1>3. x \in Call /\ call \in [Callers -> Call] /\ received \in 0..MaxRequests /\ room' = room
        /\ row' = row
  BY <1>1, <1>2 DEF TypeOK, store
<1>4. call' = [call EXCEPT ![c] = y]
  BY DEF Refill, Go
<1>5. y \in Call
  BY <1>3, FieldForms DEF Pc
<1>6. call'[c] = y
  BY <1>3, <1>4
<1>7. x.op = "update"
  BY <1>1, <1>2 DEF Shape
<1>8. \A u \in Users : ~Announces(c, u) /\ ~Subscribes(c, u)
  BY <1>7, SMT DEF Announces, Subscribes
<1>9. /\ y.pc = "tell" /\ y.op = x.op /\ y.user = x.user /\ y.room = x.room /\ y.to = x.to
      /\ y.what = x.what /\ y.view = x.view /\ y.doubt = x.doubt /\ y.raced = x.raced
  BY <1>3, SMT DEF Call
<1> HIDE DEF y
<1>10. Shape(c)'
  BY <1>1, <1>2, <1>3, <1>6, <1>7, <1>9, SMT DEF Shape
<1>11. Current(c)'
  BY <1>2, <1>3, <1>6, <1>9, Zenon DEF Current, ViewOf
<1>12. Emptied(c)' /\ Alone(c)'
  BY <1>6, <1>7, <1>9, SMT DEF Emptied, Alone
<1>13. \A u \in Users : Decided(c, u)'
  BY <1>6, <1>7, <1>9, SMT DEF Decided
<1>14. room[y.room].type # "none"
  BY <1>2, <1>7, <1>9, SMT DEF Shape, Types
<1> QED BY <1>1, <1>3, <1>4, <1>5, <1>8, <1>10, <1>11, <1>12, <1>13, <1>14, CallStep, EnteredForm


\* A request leaves DeleteRoomCacheByRoomID.
LEMMA ProceedKeeps ==
  ASSUME IInv, NEW c \in Callers, call[c].pc \in {"inval", "inval2"}, Proceed(c),
         UNCHANGED <<store, outside, history, received>>,
         cache' \in [RoomIds -> [Users -> [Keys -> Entry]]], CacheCurrent',
         \A r \in RoomIds : room[r].type = "none" => cache'[r] = cache[r]
  PROVE  IInv'
<1> DEFINE x == call[c]
<1>1. TypeOK /\ Shape(c) /\ Current(c) /\ Emptied(c)
  BY DEF IInv, CallShape, CallCurrent, PairLeft
<1>2. x \in Call /\ call \in [Callers -> Call] /\ received \in 0..MaxRequests /\ room' = room
        /\ row' = row
      /\ received' = received
  BY <1>1 DEF TypeOK, store
<1>3. /\ x.op \in {"leave", "update", "add", "toggle", "role"} /\ x.room \in RoomIds
      /\ x.pc = "inval2" => x.op = "leave"
      /\ x.op \in {"leave", "update", "role"} => x.what # "muted"
      /\ room[x.room].type # "none"
  <2>1. x.op \in Ops \cup {"none"}
    BY <1>2, Zenon DEF Call
  <2> QED BY <1>1, <2>1, SMT DEF Shape, Ops, Types, Flags
<1>4. CASE AfterDelete(c) = "idle"
  <2>1. call' = [call EXCEPT ![c] = NoCall] /\ NoCall \in Call
    BY <1>4, NoForms DEF Proceed, End
  <2>2. call'[c] = NoCall
    BY <1>2, <2>1
  <2>3. x.op \in {"toggle", "role"} /\ (x.op = "toggle" => x.what # "muted")
    BY <1>3, <1>4, SMT DEF AfterDelete
  <2>4. \A u \in Users : ~Announces(c, u) /\ ~Subscribes(c, u)
    BY <2>3, SMT DEF Announces, Subscribes
  <2>5. Shape(c)' /\ Current(c)' /\ Emptied(c)' /\ Alone(c)'
    BY <2>2, Ended
  <2>6. NoCall.room \notin RoomIds
    BY NoForms, RoomsAssumption
  <2> QED BY <1>2, <2>1, <2>4, <2>5, <2>6, CallStep
<1>5. CASE AfterDelete(c) # "idle"
  <2> DEFINE p == AfterDelete(c)
             y == [x EXCEPT !.pc = p]
  <2>1. call' = [call EXCEPT ![c] = y]
    BY <1>5 DEF Proceed, Go
  <2>2. /\ p \in {"unsub", "tell", "reread"}
        /\ p = "unsub" => x.op = "leave" /\ x.pc = "inval"
        /\ p = "reread" => x.op = "update"
        /\ p = "tell" => /\ x.op = "leave" => x.pc = "inval2"
                         /\ x.op \in {"leave", "add", "toggle"}
                         /\ x.op = "toggle" => x.what = "muted"
    BY <1>3, <1>5, SMT DEF AfterDelete, At
  <2>3. x.op # "role"
    BY <1>1, <2>2, SMT DEF Shape, Roles
  <2> HIDE DEF p
  <2>4. y \in Call
    BY <1>2, <2>2, FieldForms DEF Pc
  <2>5. /\ y.pc = p /\ y.op = x.op /\ y.user = x.user /\ y.room = x.room /\ y.to = x.to
        /\ y.what = x.what /\ y.view = x.view /\ y.doubt = x.doubt /\ y.raced = x.raced
        /\ y.gone = x.gone /\ y.fresh = x.fresh /\ y.absent = x.absent
    BY <1>2, SMT DEF Call
  <2>6. call'[c] = y
    BY <1>2, <2>1
  <2> HIDE DEF y
  <2>7. LeavesAll(c)' <=> LeavesAll(c)
    BY <2>5, <2>6 DEF LeavesAll
  <2>8. Shape(c)'
    <3> HIDE DEF May, LeavesAll
    <3> QED BY <1>1, <1>2, <1>3, <2>2, <2>3, <2>5, <2>6, <2>7, SMT DEF Shape
  <2>9. Current(c)'
    BY <1>1, <1>2, <2>5, <2>6, Zenon DEF Current, ViewOf
  <2>10. Emptied(c)' /\ Alone(c)'
    BY <1>1, <1>2, <2>2, <2>5, <2>6, SMT DEF Emptied, Alone, Active
  <2>11. ASSUME NEW r \in RoomIds, NEW u \in Users, <<r, u>> \notin muddled, y.room = r
         PROVE  Decided(c, u)'
    <3>1. Decided(c, u)
      BY <2>5, <2>11 DEF IInv, Clear
    <3>2. Toggled(c)' = Toggled(c)
      BY <2>5, <2>6 DEF Toggled
    <3> HIDE DEF LeavesAll, Toggled
    <3> QED BY <1>2, <1>3, <2>2, <2>3, <2>5, <2>6, <2>7, <3>1, <3>2, SMT DEF Decided
  <2>12. \A u \in Users : Announces(c, u) => Announces(c, u)'
    BY <1>3, <2>2, <2>3, <2>5, <2>6, SMT DEF Announces
  <2>13. \A u \in Users : Subscribes(c, u) => Subscribes(c, u)'
    BY <1>3, <2>2, <2>3, <2>5, <2>6, SMT DEF Subscribes
  <2> QED BY <1>2, <1>3, <2>1, <2>4, <2>5, <2>8, <2>9, <2>10, <2>11, <2>12, <2>13, CallStep
<1> QED BY <1>4, <1>5

\* An invalidation of another room goes on.
LEMMA DeletingElsewhere ==
  ASSUME NEW c \in Callers, call \in [Callers -> Call], Proceed(c), NEW r \in RoomIds,
         r # call[c].room, Deleting(r)
  PROVE  Deleting(r)'
<1>1. \A d \in Callers \ {c} : call'[d] = call[d]
  <2>1. CASE AfterDelete(c) = "idle"
    BY <2>1, Zenon DEF Proceed, End
  <2>2. CASE AfterDelete(c) # "idle"
    BY <2>2, Zenon DEF Proceed, Go
  <2> QED BY <2>1, <2>2
<1> QED BY <1>1, Zenon DEF Deleting, At

\* DeleteRoomCacheByRoomID deletes the views of the room.
LEMMA InvalidateKeeps ==
  ASSUME IInv, NEW c \in Callers, Invalidate(c)
  PROVE  IInv'
<1> DEFINE q == call[c].room
<1>1. /\ call[c].pc \in {"inval", "inval2"} /\ Proceed(c)
      /\ UNCHANGED <<store, outside, history, received>>
      /\ cache' = [cache EXCEPT ![q] = [u \in Users |-> [k \in Keys |-> NoEntry]]]
  BY DEF Invalidate, At
<1>2. TypeOK /\ CallShape /\ CacheCurrent /\ Shape(c)
  BY DEF IInv, CallShape
<1>3. q \in RoomIds /\ room[q].type # "none"
  <2>1. q \in RoomIds
    BY <1>1, <1>2, RoomOfCall
  <2>2. room[q].type # "none"
    BY <1>1, <2>1 DEF IInv, RoomShape
  <2> QED BY <2>1, <2>2
<1>4. cache' \in [RoomIds -> [Users -> [Keys -> Entry]]]
  BY <1>1, <1>2, NoForms DEF TypeOK
<1>5. \A r \in RoomIds \ {q} : cache'[r] = cache[r]
  BY <1>1, <1>2 DEF TypeOK
<1>6. room' = room /\ row' = row
  BY <1>1 DEF store
<1>7. ASSUME NEW r \in RoomIds, NEW u \in Users, NEW k \in Keys PROVE Kept(r, u, k)'
  <2>1. CASE r = q
    <3>1. cache'[r][u][k] = NoEntry
      BY <1>1, <1>2, <1>3, <2>1 DEF TypeOK
    <3> QED BY <3>1, Zenon DEF Kept
  <2>2. CASE r # q
    <3>1. Kept(r, u, k)
      BY <1>2 DEF CacheCurrent
    <3>2. cache'[r][u][k] = cache[r][u][k] /\ ViewOf(r, u)' = ViewOf(r, u)
      BY <1>5, <1>6, <2>2 DEF ViewOf
    <3>3. Deleting(r) => Deleting(r)'
      BY <1>1, <1>2, <2>2, DeletingElsewhere DEF TypeOK
    <3> QED BY <1>6, <3>1, <3>2, <3>3, Zenon DEF Kept
  <2> QED BY <2>1, <2>2
<1>8. CacheCurrent'
  BY <1>7 DEF CacheCurrent
<1> QED BY <1>1, <1>3, <1>4, <1>5, <1>8, ProceedKeeps

\* DeleteRoomCacheByRoomID fails and the views of the room are suspect from then on.
LEMMA InvalidateFailsKeeps ==
  ASSUME IInv, NEW c \in Callers, InvalidateFails(c)
  PROVE  IInv'
<1> DEFINE q == call[c].room
           cur(u) == [NoEntry EXCEPT !.view = ViewOf(q, u)]
           aged(u, k) == IF cache[q][u][k] \notin {NoEntry, cur(u)}
                         THEN [cache[q][u][k] EXCEPT !.suspect = TRUE] ELSE cache[q][u][k]
<1>1. /\ call[c].pc \in {"inval", "inval2"} /\ Proceed(c)
      /\ UNCHANGED <<store, outside, history, received>>
  BY DEF InvalidateFails, At
<1>2. TypeOK /\ CallShape /\ CacheCurrent /\ Shape(c)
  BY DEF IInv, CallShape
<1>3. q \in RoomIds /\ room[q].type # "none"
  <2>1. q \in RoomIds
    BY <1>1, <1>2, RoomOfCall
  <2>2. room[q].type # "none"
    BY <1>1, <2>1 DEF IInv, RoomShape
  <2> QED BY <2>1, <2>2
<1>4. cache' = [cache EXCEPT ![q] = [u \in Users |-> [k \in Keys |-> aged(u, k)]]]
  BY <1>2, <1>3, SMTT(20), ZenonT(40) DEF InvalidateFails, TypeOK
<1>5. ASSUME NEW u \in Users, NEW k \in Keys
      PROVE  /\ aged(u, k) \in Entry
             /\ aged(u, k) # NoEntry => cache[q][u][k] # NoEntry
             /\ aged(u, k).view = cache[q][u][k].view
             /\ ~aged(u, k).suspect => cache[q][u][k] = NoEntry \/ aged(u, k).view = ViewOf(q, u)
  <2> DEFINE e == cache[q][u][k]
  <2>1. e \in Entry
    BY <1>2, <1>3, SMTT(20), ZenonT(40) DEF TypeOK
  <2>2. CASE e \notin {NoEntry, cur(u)}
    <3>1. aged(u, k) = [e EXCEPT !.suspect = TRUE]
      BY <2>2
    <3>2. [e EXCEPT !.suspect = TRUE] \in Entry
      BY <2>1, Zenon DEF Entry
    <3>3. [e EXCEPT !.suspect = TRUE].view = e.view /\ [e EXCEPT !.suspect = TRUE].suspect = TRUE
      BY <2>1, SMT DEF Entry
    <3> HIDE DEF aged, cur
    <3> QED BY <2>2, <3>1, <3>2, <3>3
  <2>3. CASE e = NoEntry
    <3>1. aged(u, k) = e
      BY <2>3
    <3> HIDE DEF aged
    <3> QED BY <2>1, <2>3, <3>1
  <2>4. CASE e = cur(u)
    <3>1. aged(u, k) = e
      BY <2>4
    <3>2. cur(u).view = ViewOf(q, u)
      BY SMT DEF NoEntry
    <3> HIDE DEF aged, cur
    <3> QED BY <2>1, <2>4, <3>1, <3>2
  <2> QED BY <2>2, <2>3, <2>4, SMTT(20), ZenonT(40)
<1> HIDE DEF aged
<1>6. cache' \in [RoomIds -> [Users -> [Keys -> Entry]]]
  BY <1>2, <1>4, <1>5 DEF TypeOK
<1>7. \A r \in RoomIds \ {q} : cache'[r] = cache[r]
  BY <1>2, <1>4 DEF TypeOK
<1>8. room' = room /\ row' = row
  BY <1>1 DEF store
<1>9. ASSUME NEW r \in RoomIds, NEW u \in Users, NEW k \in Keys PROVE Kept(r, u, k)'
  <2>1. Kept(r, u, k)
    BY <1>2 DEF CacheCurrent
  <2>2. ViewOf(r, u)' = ViewOf(r, u)
    BY <1>8 DEF ViewOf
  <2>3. CASE r = q
    <3>1. cache'[r][u][k] = aged(u, k)
      BY <1>2, <1>3, <1>4, <2>3 DEF TypeOK
    <3> QED BY <1>5, <1>8, <2>1, <2>2, <2>3, <3>1, Zenon DEF Kept
  <2>4. CASE r # q
    <3>1. cache'[r][u][k] = cache[r][u][k]
      BY <1>7, <2>4
    <3>2. Deleting(r) => Deleting(r)'
      BY <1>1, <1>2, <2>4, DeletingElsewhere DEF TypeOK
    <3> QED BY <1>8, <2>1, <2>2, <3>1, <3>2, Zenon DEF Kept
  <2> QED BY <2>3, <2>4
<1>10. CacheCurrent'
  BY <1>9 DEF CacheCurrent
<1> QED BY <1>1, <1>3, <1>6, <1>7, <1>10, ProceedKeeps


\* LeaveRoom removes the ones who left from the topic.
LEMMA UnsubscribeKeeps ==
  ASSUME IInv, NEW c \in Callers, Unsubscribe(c)
  PROVE  IInv'
<1> DEFINE x == call[c]
           q == x.room
           T == x.to
           p == IF LeavesAll(c) THEN "close" ELSE "tell"
           y == [x EXCEPT !.pc = p]
<1>1. /\ x.pc = "unsub" /\ UNCHANGED <<store, cache, told, received, history>>
      /\ call' = [call EXCEPT ![c] = y]
  BY DEF Unsubscribe, At, Go
<1>2. TypeOK /\ CallShape /\ Shape(c) /\ Current(c) /\ Emptied(c)
  BY DEF IInv, CallShape, CallCurrent, PairLeft
<1>3. /\ x \in Call /\ call \in [Callers -> Call] /\ room' = room /\ row' = row /\ told' = told
      /\ cache' = cache /\ received' = received
      /\ twins' = twins /\ muddled' = muddled /\ misjoined' = misjoined
  BY <1>1, <1>2 DEF TypeOK, store, history
<1>4. x.op = "leave" /\ q \in RoomIds /\ T \in SUBSET Users /\ room[q].type # "none"
  <2>1. x.op = "leave"
    BY <1>1, <1>2 DEF Shape
  <2>2. T \in SUBSET Users
    BY <1>3, SMT DEF Call
  <2> QED BY <1>2, <2>1, <2>2, SMT DEF Shape, Types
<1>5. topic' = [topic EXCEPT ![q] = topic[q] \ T]
  BY <1>2, <1>4 DEF Unsubscribe, TypeOK
<1>6. p \in {"close", "tell"} /\ (p = "close" => LeavesAll(c)) /\ (p = "tell" => ~LeavesAll(c))
  OBVIOUS
<1> HIDE DEF p
<1>7. y \in Call
  BY <1>3, <1>6, FieldForms DEF Pc
<1>8. /\ y.pc = p /\ y.op = x.op /\ y.user = x.user /\ y.room = x.room /\ y.to = x.to
      /\ y.what = x.what /\ y.view = x.view /\ y.doubt = x.doubt /\ y.raced = x.raced
      /\ y.gone = x.gone /\ y.fresh = x.fresh /\ y.absent = x.absent
  BY <1>3, SMT DEF Call
<1>9. call'[c] = y
  BY <1>1, <1>3
<1> HIDE DEF y
<1>10. LeavesAll(c)' <=> LeavesAll(c)
  BY <1>8, <1>9 DEF LeavesAll
<1>11. Shape(c)'
  <2> HIDE DEF May, LeavesAll
  <2> QED BY <1>1, <1>2, <1>3, <1>4, <1>6, <1>8, <1>9, <1>10, SMT DEF Shape
<1>12. Current(c)'
  BY <1>2, <1>3, <1>8, <1>9, Zenon DEF Current, ViewOf
<1>13. Emptied(c)' /\ Alone(c)'
  BY <1>1, <1>2, <1>3, <1>6, <1>8, <1>9, SMT DEF Emptied, Alone, Active
<1>14. TypeOK'
  <2>1. topic' \in [RoomIds -> SUBSET Users]
    BY <1>2, <1>4, <1>5 DEF TypeOK
  <2>2. call' \in [Callers -> Call]
    BY <1>1, <1>3, <1>7
  <2> QED BY <1>2, <1>3, <2>1, <2>2 DEF TypeOK
<1>15. CacheCurrent'
  <2>1. ~At(c, "inval") /\ ~At(c, "inval2") /\ UNCHANGED <<store, cache>>
    BY <1>1 DEF At
  <2> QED BY <1>1, <1>2, <1>7, <2>1, CacheStays DEF IInv
<1>16. ASSUME NEW r \in RoomIds, NEW u \in Users PROVE Clear(r, u)'
  <2>1. Clear(r, u) /\ UNCHANGED store
    BY <1>1 DEF IInv
  <2>2. ASSUME <<r, u>> \notin muddled', y.room = r
        PROVE  /\ Decided(c, u)' /\ (Announces(c, u) => Announces(c, u)')
               /\ u \in T => u \notin Active(r)
    <3>1. Decided(c, u)
      BY <1>3, <1>8, <2>1, <2>2 DEF Clear
    <3>2. Decided(c, u)'
      <4> HIDE DEF LeavesAll
      <4> QED BY <1>1, <1>3, <1>4, <1>6, <1>8, <1>9, <1>10, <3>1, SMT DEF Decided
    <3>3. Announces(c, u) => Announces(c, u)'
      BY <1>4, <1>6, <1>8, <1>9, SMT DEF Announces
    <3>4. u \in T => u \notin Active(r)
      BY <1>1, <1>4, <1>8, <2>2, <3>1, SMT DEF Decided, Active
    <3> QED BY <3>2, <3>3, <3>4
  <2>3. \/ u \in topic'[r] <=> u \in topic[r]
        \/ q = r /\ u \in T /\ u \notin topic'[r]
    BY <1>2, <1>4, <1>5 DEF TypeOK
  <2>4. q = r /\ u \notin T => ~Subscribes(c, u)
    BY <1>4, SMT DEF Subscribes
  <2>5. CASE q = r /\ u \in T
    <3>1. u \notin topic'[r]
      BY <1>2, <1>4, <1>5, <2>5 DEF TypeOK
    <3>2. <<r, u>> \notin muddled' =>
             /\ call'[c].room = r => Decided(c, u)'
             /\ \/ u \in Active(r) <=> told'[r][u] = "joined"
                \/ /\ told'[r][u] = told[r][u]
                   /\ call[c].room = r /\ Announces(c, u) =>
                        call'[c].room = r /\ Announces(c, u)'
             /\ \/ room[r].type # "group" \/ <<r, u>> \in misjoined'
                \/ u \in topic'[r] <=> u \in Active(r) /\ "muted" \notin row[r][u].flags
                \/ /\ u \in topic'[r] <=> u \in topic[r]
                   /\ call[c].room = r /\ Subscribes(c, u) =>
                        call'[c].room = r /\ Subscribes(c, u)'
      BY <1>3, <1>8, <1>9, <2>2, <2>5, <3>1, Zenon
    <3> QED BY <1>1, <1>2, <1>3, <1>7, <2>1, <3>2, ClearKeeps, Zenon
  <2>6. CASE ~(q = r /\ u \in T)
    <3>1. <<r, u>> \notin muddled' =>
             /\ call'[c].room = r => Decided(c, u)'
             /\ \/ u \in Active(r) <=> told'[r][u] = "joined"
                \/ /\ told'[r][u] = told[r][u]
                   /\ call[c].room = r /\ Announces(c, u) =>
                        call'[c].room = r /\ Announces(c, u)'
             /\ \/ room[r].type # "group" \/ <<r, u>> \in misjoined'
                \/ u \in topic'[r] <=> u \in Active(r) /\ "muted" \notin row[r][u].flags
                \/ /\ u \in topic'[r] <=> u \in topic[r]
                   /\ call[c].room = r /\ Subscribes(c, u) =>
                        call'[c].room = r /\ Subscribes(c, u)'
      BY <1>3, <1>8, <1>9, <2>2, <2>3, <2>4, <2>6, Zenon
    <3> QED BY <1>1, <1>2, <1>3, <1>7, <2>1, <3>1, ClearKeeps, Zenon
  <2> QED BY <2>5, <2>6
<1>17. \A r \in RoomIds : room[r].type = "none" =>
         cache'[r] = cache[r] /\ told'[r] = told[r] /\ topic'[r] = topic[r]
  BY <1>2, <1>3, <1>4, <1>5 DEF TypeOK
<1>18. twins \subseteq twins' /\ room[y.room].type # "none" /\ UNCHANGED store
  BY <1>1, <1>3, <1>4, <1>8
<1> QED BY <1>1, <1>7, <1>11, <1>12, <1>13, <1>14, <1>15, <1>16, <1>17, <1>18, Steady
------------------------------------------------------------------------------
\* A commit to the room of a request.
LEMMA CommitStep ==
  ASSUME IInv, NEW c \in Callers, NEW p \in {"inval", "clear", "inval2"}, CommitAndGo(c, p),
         call[c].op \in Ops \ {"create", "send"},
         call[c].pc \notin {"idle", "fill", "inval", "inval2"},
         p \in {"clear", "inval2"} => call[c].op = "leave" /\ LeavesAll(c),
         PairsShrink, Emptied(c)',
         UNCHANGED <<cache, outside, received, twins, misjoined>>,
         room' \in [RoomIds -> Room], row' \in [RoomIds -> [Users -> Member]],
         muddled \subseteq muddled', muddled' \subseteq RoomIds \X Users,
         \A r \in RoomIds \ {call[c].room} : room'[r] = room[r] /\ row'[r] = row[r],
         \/ p \in {"inval", "inval2"}
         \/ \A r \in RoomIds, u \in Users :
              call[c].room = r => ViewOf(r, u)' = ViewOf(r, u),
         \A r \in RoomIds, u \in Users :
           call[c].room = r /\ <<r, u>> \notin muddled' /\ Decided(c, u) =>
             LET same  == row'[r][u].state = row[r][u].state
                 muted == "muted" \in row'[r][u].flags <=> "muted" \in row[r][u].flags
             IN /\ Decided(c, u)'
                /\ same \/ Announces(c, u)'
                /\ (same /\ muted) \/ Subscribes(c, u)'
                /\ Announces(c, u) => Announces(c, u)'
                /\ Subscribes(c, u) => Subscribes(c, u)'
                /\ \/ same /\ muted
                   \/ \A d \in Callers \ {c} :
                        call[d].room = r => call[d].pc = "idle" \/ u \notin Concerned(d)
  PROVE  IInv'
<1> DEFINE q == call[c].room
<1>1. /\ TypeOK /\ CallShape /\ RoomShape /\ CacheCurrent /\ Shape(c) /\ p \in Pc
      /\ CallCurrent /\ PairLeft /\ StillNone /\ PairHasOneRoom
  BY DEF IInv, CallShape, Pc
<1>2. /\ call' \in [Callers -> Call] /\ call'[c].pc = p
      /\ Alike([call[c] EXCEPT !.pc = p], call'[c])
      /\ \A d \in Callers \ {c} : Alike(call[d], call'[d])
  BY <1>1, CommitForm
<1>3. call[c] \in Call /\ q \in RoomIds
  BY <1>1 DEF TypeOK, Shape
<1>4. call'[c].room = q
  BY <1>2, <1>3, SMT DEF Alike, Call
<1>5. /\ cache' = cache /\ told' = told /\ topic' = topic /\ received' = received
      /\ twins' = twins /\ misjoined' = misjoined
  BY DEF outside
<1>6. TypeOK'
  BY <1>1, <1>2, <1>5 DEF TypeOK
<1>7. CallShape' /\ CallCurrent' /\ PairLeft' /\ StillNone' /\ PairHasOneRoom'
  <2>1. call[c].op = "add" => p = "inval"
    OBVIOUS
  <2> QED BY <1>1, <2>1, CommitKeeps
<1>8. \A d \in Callers : call'[d].room = call[d].room
  BY <1>2, <1>4 DEF Alike
<1>9. RoomShape'
  <2>1. ASSUME NEW r \in RoomIds PROVE room'[r].alive => room'[r].type # "none"
    BY <1>1 DEF PairsShrink, RoomShape
  <2>2. ASSUME NEW r \in RoomIds, room'[r].type = "none"
        PROVE  /\ room'[r] = NoSuch
               /\ \A u \in Users : /\ row'[r][u].state = "none" /\ told'[r][u] # "joined"
                                   /\ u \notin topic'[r]
                                   /\ \A k \in Keys : cache'[r][u][k] = NoEntry
               /\ \A d \in Callers : call'[d].room # r
    <3>1. room[r].type = "none"
      BY <2>2 DEF PairsShrink
    <3>2. r # q
      BY <1>1, <3>1 DEF RoomShape
    <3>3. room'[r] = room[r] /\ row'[r] = row[r]
      BY <3>2
    <3> QED BY <1>1, <1>5, <1>8, <3>1, <3>3, SMTT(20), ZenonT(40) DEF RoomShape
  <2> QED BY <2>1, <2>2 DEF RoomShape
<1>10. ASSUME NEW r \in RoomIds, NEW u \in Users, NEW k \in Keys PROVE Kept(r, u, k)'
  <2>1. Kept(r, u, k) /\ room'[r].type = room[r].type
    BY <1>1 DEF CacheCurrent, PairsShrink
  <2>2. Deleting(r)' \/ (ViewOf(r, u)' = ViewOf(r, u) /\ (Deleting(r) => Deleting(r)'))
    <3>1. CASE r = q /\ p \in {"inval", "inval2"}
      BY <1>2, <1>4, <3>1, Zenon DEF Deleting, At
    <3>2. CASE ~(r = q /\ p \in {"inval", "inval2"})
      <4>1. ViewOf(r, u)' = ViewOf(r, u)
        <5>1. CASE r = q
          BY <3>2, <5>1
        <5>2. CASE r # q
          <6>1. room'[r] = room[r] /\ row'[r] = row[r]
            BY <5>2
          <6> QED BY <6>1 DEF ViewOf
        <5> QED BY <5>1, <5>2
      <4>2. Deleting(r) => Deleting(r)'
        <5>1. SUFFICES ASSUME NEW d \in Callers, At(d, "inval") \/ At(d, "inval2"), call[d].room = r
              PROVE  Deleting(r)'
          BY DEF Deleting
        <5>2. d # c
          BY <5>1 DEF At
        <5>3. Alike(call[d], call'[d])
          BY <1>2, <5>2
        <5>4. call'[d].pc = call[d].pc /\ call'[d].room = r
          BY <5>1, <5>3 DEF Alike
        <5> QED BY <5>1, <5>4, Zenon DEF Deleting, At
      <4> QED BY <4>1, <4>2
    <3> QED BY <3>1, <3>2
  <2> QED BY <1>5, <2>1, <2>2, Zenon DEF Kept
<1>11. CacheCurrent'
  BY <1>10 DEF CacheCurrent
<1>12. ASSUME NEW r \in RoomIds, NEW u \in Users PROVE Clear(r, u)'
  <2>1. Clear(r, u)
    BY DEF IInv
  <2>2. CASE <<r, u>> \in muddled'
    BY <2>2 DEF Clear
  <2>3. CASE <<r, u>> \notin muddled' /\ q # r
    <3>1. row'[r] = row[r]
      BY <2>3
    <3>2. <<r, u>> \notin muddled' =>
           LET same  == row'[r][u].state = row[r][u].state
               muted == "muted" \in row'[r][u].flags <=> "muted" \in row[r][u].flags
           IN /\ call[c].room = r => Decided(c, u)'
              /\ same \/ (call[c].room = r /\ Announces(c, u)')
              /\ (same /\ muted) \/ (call[c].room = r /\ Subscribes(c, u)')
              /\ call[c].room = r /\ Announces(c, u) => Announces(c, u)'
              /\ call[c].room = r /\ Subscribes(c, u) => Subscribes(c, u)'
              /\ \/ same /\ muted
                 \/ \A d \in Callers \ {c} :
                      call[d].room = r => call[d].pc = "idle" \/ u \notin Concerned(d)
      BY <2>3, <3>1, Zenon
    <3> QED BY <1>1, <1>5, <2>1, <3>2, ClearCommits
  <2>4. CASE <<r, u>> \notin muddled' /\ q = r
    <3>1. Decided(c, u)
      BY <2>1, <2>4 DEF Clear
    <3>2. <<r, u>> \notin muddled' =>
           LET same  == row'[r][u].state = row[r][u].state
               muted == "muted" \in row'[r][u].flags <=> "muted" \in row[r][u].flags
           IN /\ call[c].room = r => Decided(c, u)'
              /\ same \/ (call[c].room = r /\ Announces(c, u)')
              /\ (same /\ muted) \/ (call[c].room = r /\ Subscribes(c, u)')
              /\ call[c].room = r /\ Announces(c, u) => Announces(c, u)'
              /\ call[c].room = r /\ Subscribes(c, u) => Subscribes(c, u)'
              /\ \/ same /\ muted
                 \/ \A d \in Callers \ {c} :
                      call[d].room = r => call[d].pc = "idle" \/ u \notin Concerned(d)
      BY <2>4, <3>1, Zenon
    <3> QED BY <1>1, <1>5, <2>1, <3>2, ClearCommits
  <2> QED BY <2>2, <2>3, <2>4
<1> QED BY <1>6, <1>7, <1>9, <1>11, <1>12 DEF IInv


\* A commit leaves the request of which it is a part as it was, but for where it is.
LEMMA CommitOwn ==
  ASSUME TypeOK, NEW c \in Callers, NEW p \in Pc, CommitAndGo(c, p)
  PROVE  /\ call'[c].pc = p
         /\ call'[c].op = call[c].op /\ call'[c].user = call[c].user /\ call'[c].room = call[c].room
         /\ call'[c].to = call[c].to /\ call'[c].what = call[c].what /\ call'[c].view = call[c].view
         /\ call'[c].gone = call[c].gone /\ call'[c].fresh = call[c].fresh
         /\ call'[c].absent = call[c].absent
<1>1. call[c] \in Call
  BY DEF TypeOK
<1>2. call'[c].pc = p /\ Alike([call[c] EXCEPT !.pc = p], call'[c])
  BY CommitForm
<1> QED BY <1>1, <1>2, SMT DEF Alike, Call

\* A row of which the state or the flags are replaced is a row, and so is a new one.
LEMMA MemberForms ==
  ASSUME NEW m \in Member
  PROVE  /\ \A s \in {"none", "active", "removed"} :
              /\ [m EXCEPT !.state = s] \in Member
              /\ [m EXCEPT !.state = s].state = s /\ [m EXCEPT !.state = s].flags = m.flags
         /\ \A o \in Roles :
              /\ Joined(o) \in Member
              /\ Joined(o).state = "active" /\ Joined(o).flags = {}
         /\ \A F \in SUBSET Flags :
              /\ [m EXCEPT !.flags = F] \in Member
              /\ [m EXCEPT !.flags = F].state = m.state /\ [m EXCEPT !.flags = F].flags = F
<1>1. \A s \in {"none", "active", "removed"} : [m EXCEPT !.state = s] \in Member
  BY Zenon DEF Member
<1>2. \A F \in SUBSET Flags : [m EXCEPT !.flags = F] \in Member
  BY Zenon DEF Member
<1>3. \A o \in Roles : Joined(o) \in Member
  BY SMT DEF Joined, Member
<1>4. \A o \in Roles : Joined(o).state = "active" /\ Joined(o).flags = {}
  BY DEF Joined
<1>5. \A s : [m EXCEPT !.state = s].state = s /\ [m EXCEPT !.state = s].flags = m.flags
  BY SMT DEF Member
<1>6. \A F : [m EXCEPT !.flags = F].state = m.state /\ [m EXCEPT !.flags = F].flags = F
  BY SMT DEF Member
<1> QED BY <1>1, <1>2, <1>3, <1>4, <1>5, <1>6

\* A row of which the role is replaced is a row.
LEMMA RoleForm ==
  ASSUME NEW m \in Member, NEW o \in Roles
  PROVE  /\ [m EXCEPT !.role = o] \in Member
         /\ [m EXCEPT !.role = o].state = m.state /\ [m EXCEPT !.role = o].flags = m.flags
<1>1. [m EXCEPT !.role = o] \in Member
  BY Zenon DEF Member
<1>2. [m EXCEPT !.role = o].state = m.state /\ [m EXCEPT !.role = o].flags = m.flags
  BY SMT DEF Member
<1> QED BY <1>1, <1>2

\* PinRoom, MuteRoom and BlockUser change one row of the room.
LEMMA ToggleKeeps ==
  ASSUME IInv, NEW c \in Callers, Toggle(c)
  PROVE  IInv'
<1> DEFINE x == call[c]
           q == x.room
           v == x.user
           F == (row[q][v].flags \ {x.what}) \cup Toggled(c)
<1>1. /\ x.pc = "act" /\ x.op = "toggle" /\ room' = room /\ CommitAndGo(c, "inval")
      /\ muddled' = muddled \cup Overlapped(c)
      /\ UNCHANGED <<cache, outside, received, twins, misjoined>>
  BY DEF Toggle, At
<1>2. TypeOK /\ Shape(c) /\ "inval" \in Pc
  BY DEF IInv, CallShape, Pc
<1>3. q \in RoomIds /\ v \in Users /\ x.what \in Flags
  BY <1>1, <1>2 DEF Shape
<1>4. row[q][v] \in Member /\ row[q][v].flags \in SUBSET Flags
  <2>1. row[q][v] \in Member
    BY <1>2, <1>3 DEF TypeOK
  <2> QED BY <2>1, Zenon DEF Member
<1>5. F \in SUBSET Flags /\ ("muted" \in F <=> IF x.what = "muted" THEN Toggled(c) # {}
                                               ELSE "muted" \in row[q][v].flags)
  BY <1>3, <1>4 DEF Toggled
<1>6. row' = [row EXCEPT ![q][v] = [row[q][v] EXCEPT !.flags = F]]
  BY <1>2, <1>3 DEF Toggle, TypeOK
<1> HIDE DEF F
<1>7. row' \in [RoomIds -> [Users -> Member]]
  BY <1>2, <1>3, <1>4, <1>5, <1>6, MemberForms DEF TypeOK
<1>8. \A r \in RoomIds, u \in Users :
        /\ row'[r][u].state = row[r][u].state
        /\ ~(r = q /\ u = v) => row'[r][u] = row[r][u]
        /\ r = q /\ u = v => row'[r][u].flags = F
  <2>1. \A r \in RoomIds, u \in Users :
          row'[r][u] = IF r = q /\ u = v THEN [row[q][v] EXCEPT !.flags = F] ELSE row[r][u]
    BY <1>2, <1>3, <1>6 DEF TypeOK
  <2>2. /\ [row[q][v] EXCEPT !.flags = F].state = row[q][v].state
        /\ [row[q][v] EXCEPT !.flags = F].flags = F
    BY <1>4, <1>5, MemberForms
  <2> QED BY <2>1, <2>2
<1>9. \A r \in RoomIds \ {q} : room'[r] = room[r] /\ row'[r] = row[r]
  BY <1>1, <1>2, <1>3, <1>6 DEF TypeOK
<1>10. PairsShrink
  BY <1>1, <1>8 DEF PairsShrink
<1>11. /\ call'[c].pc = "inval" /\ call'[c].op = x.op /\ call'[c].user = x.user
       /\ call'[c].room = x.room /\ call'[c].what = x.what /\ call'[c].view = x.view
  BY <1>1, <1>2, CommitOwn
<1>12. Emptied(c)'
  BY <1>1, <1>11 DEF Emptied
<1>13. muddled \subseteq muddled' /\ muddled' \subseteq RoomIds \X Users
  <2>1. Concerned(c) \subseteq Users
    BY <1>1, <1>2, ConcernedForm DEF IInv
  <2> HIDE DEF Concerned
  <2>2. Overlapped(c) \subseteq RoomIds \X Users
    BY <1>3, <2>1 DEF Overlapped
  <2> QED BY <1>1, <1>2, <2>2 DEF TypeOK
<1>14. ASSUME NEW r \in RoomIds, NEW u \in Users, q = r, <<r, u>> \notin muddled'
       PROVE  LET same  == row'[r][u].state = row[r][u].state
                  muted == "muted" \in row'[r][u].flags <=> "muted" \in row[r][u].flags
              IN /\ Decided(c, u)'
                 /\ same \/ Announces(c, u)'
                 /\ (same /\ muted) \/ Subscribes(c, u)'
                 /\ Announces(c, u) => Announces(c, u)'
                 /\ Subscribes(c, u) => Subscribes(c, u)'
                 /\ \/ same /\ muted
                    \/ \A d \in Callers \ {c} :
                         call[d].room = r => call[d].pc = "idle" \/ u \notin Concerned(d)
  <2>1. row'[r][u].state = row[r][u].state
    BY <1>8
  <2>2. ~Announces(c, u) /\ ~Subscribes(c, u)
    BY <1>1, SMT DEF Announces, Subscribes
  <2>3. Toggled(c)' = Toggled(c)
    BY <1>11 DEF Toggled
  <2>4. CASE x.what # "muted" \/ u # v
    <3>1. Decided(c, u)'
      BY <1>1, <1>11, <2>4, SMT DEF Decided
    <3>2. "muted" \in row'[r][u].flags <=> "muted" \in row[r][u].flags
      BY <1>5, <1>8, <1>14, <2>4
    <3> QED BY <2>1, <2>2, <3>1, <3>2
  <2>5. CASE x.what = "muted" /\ u = v
    <3>1. "muted" \in row'[r][u].flags <=> Toggled(c) # {}
      BY <1>5, <1>8, <1>14, <2>5
    <3>2. Decided(c, u)'
      BY <1>1, <1>11, <1>14, <2>3, <2>5, <3>1, SMT DEF Decided
    <3>3. Subscribes(c, u)'
      BY <1>1, <1>11, <2>5, SMT DEF Subscribes
    <3>4. u \in Concerned(c) /\ <<r, u>> \notin Overlapped(c)
      <4>1. u \in Concerned(c)
        BY <1>1, <2>5, SMT DEF Concerned
      <4> QED BY <1>1, <1>14, <4>1
    <3>5. \A d \in Callers \ {c} : call[d].room = r => call[d].pc = "idle" \/ u \notin Concerned(d)
      BY <1>14, <3>4, OverlapForm
    <3> QED BY <2>1, <2>2, <3>2, <3>3, <3>5
  <2> QED BY <2>4, <2>5
<1>15. room' \in [RoomIds -> Room] /\ x.op \in Ops \ {"create", "send"}
  BY <1>1, <1>2 DEF TypeOK, Ops
<1>16. x.pc \notin {"idle", "fill", "inval", "inval2"}
  BY <1>1
<1> QED BY <1>1, <1>7, <1>9, <1>10, <1>12, <1>13, <1>14, <1>15, <1>16, CommitStep,
           SMTT(20), ZenonT(40)


\* UpdateRoom changes the permissions of the room, and no member.
LEMMA UpdateRoomKeeps ==
  ASSUME IInv, NEW c \in Callers, UpdateRoom(c)
  PROVE  IInv'
<1> DEFINE x == call[c]
           q == x.room
<1>1. /\ x.pc = "act" /\ x.op = "update" /\ row' = row /\ CommitAndGo(c, "inval")
      /\ muddled' = muddled
      /\ UNCHANGED <<cache, outside, received, twins, misjoined>>
      /\ room' = IF room[q].alive THEN [room EXCEPT ![q].perms = x.grant] ELSE room
  BY DEF UpdateRoom, At, history
<1>2. TypeOK /\ Shape(c) /\ "inval" \in Pc
  BY DEF IInv, CallShape, Pc
<1>3. q \in RoomIds /\ x.grant \in SUBSET Perms /\ room[q] \in Room
  <2>1. x \in Call
    BY <1>2 DEF TypeOK
  <2>2. x.grant \in SUBSET Perms
    BY <2>1, Zenon DEF Call
  <2> QED BY <1>1, <1>2, <2>2 DEF Shape, TypeOK
<1>4. /\ [room[q] EXCEPT !.perms = x.grant] \in Room
      /\ [room[q] EXCEPT !.perms = x.grant].type = room[q].type
      /\ [room[q] EXCEPT !.perms = x.grant].alive = room[q].alive
  <2>1. [room[q] EXCEPT !.perms = x.grant] \in Room
    BY <1>3, Zenon DEF Room
  <2>2. /\ [room[q] EXCEPT !.perms = x.grant].type = room[q].type
        /\ [room[q] EXCEPT !.perms = x.grant].alive = room[q].alive
    BY <1>3, SMT DEF Room
  <2> QED BY <2>1, <2>2
<1>5. \/ room' = room
      \/ room' = [room EXCEPT ![q] = [room[q] EXCEPT !.perms = x.grant]]
  BY <1>1
<1>6. room' \in [RoomIds -> Room]
  BY <1>2, <1>3, <1>4, <1>5 DEF TypeOK
<1>7. \A r \in RoomIds : /\ room'[r].type = room[r].type /\ room'[r].alive = room[r].alive
                         /\ r # q => room'[r] = room[r]
  BY <1>2, <1>3, <1>4, <1>5 DEF TypeOK
<1>8. PairsShrink
  BY <1>1, <1>7 DEF PairsShrink
<1>9. call'[c].op = x.op
  BY <1>1, <1>2, CommitOwn
<1>10. Emptied(c)' /\ \A u \in Users : Decided(c, u)'
  BY <1>1, <1>9, SMT DEF Emptied, Decided
<1>11. \A u \in Users : ~Announces(c, u) /\ ~Subscribes(c, u)
  BY <1>1, SMT DEF Announces, Subscribes
<1>12. muddled \subseteq muddled' /\ muddled' \subseteq RoomIds \X Users
       /\ row' \in [RoomIds -> [Users -> Member]]
  BY <1>1, <1>2 DEF TypeOK
<1>13. x.pc \notin {"idle", "fill", "inval", "inval2"} /\ x.op \in Ops \ {"create", "send"}
  BY <1>1 DEF Ops
<1> QED BY <1>1, <1>6, <1>7, <1>8, <1>10, <1>11, <1>12, <1>13, CommitStep,
           SMTT(20), ZenonT(40)

\* UpdateParticipantRoom changes a role, which nobody is told.
LEMMA UpdateRoleKeeps ==
  ASSUME IInv, NEW c \in Callers, UpdateRole(c)
  PROVE  IInv'
<1> DEFINE x == call[c]
           q == x.room
           new(u) == IF u \in x.to /\ row[q][u].state # "none"
                     THEN [row[q][u] EXCEPT !.role = x.what] ELSE row[q][u]
<1>1. /\ x.pc = "act" /\ x.op = "role" /\ room' = room /\ CommitAndGo(c, "inval")
      /\ muddled' = muddled
      /\ UNCHANGED <<cache, outside, received, twins, misjoined>>
  BY DEF UpdateRole, At, history
<1>2. TypeOK /\ Shape(c) /\ "inval" \in Pc
  BY DEF IInv, CallShape, Pc
<1>3. q \in RoomIds /\ x.what \in Roles
  BY <1>1, <1>2 DEF Shape
<1>4. row' = [row EXCEPT ![q] = [u \in Users |-> new(u)]]
  BY <1>2, <1>3 DEF UpdateRole, TypeOK
<1>5. \A u \in Users : new(u) \in Member /\ new(u).state = row[q][u].state
        /\ new(u).flags = row[q][u].flags
  <2> SUFFICES ASSUME NEW u \in Users
               PROVE  new(u) \in Member /\ new(u).state = row[q][u].state
                        /\ new(u).flags = row[q][u].flags
    OBVIOUS
  <2>1. row[q][u] \in Member
    BY <1>2, <1>3 DEF TypeOK
  <2>2. /\ [row[q][u] EXCEPT !.role = x.what] \in Member
        /\ [row[q][u] EXCEPT !.role = x.what].state = row[q][u].state
        /\ [row[q][u] EXCEPT !.role = x.what].flags = row[q][u].flags
    BY <1>3, <2>1, RoleForm
  <2> QED BY <2>1, <2>2
<1> HIDE DEF new
<1>6. row' \in [RoomIds -> [Users -> Member]]
  BY <1>2, <1>3, <1>4, <1>5 DEF TypeOK
<1>7. /\ \A r \in RoomIds \ {q} : room'[r] = room[r] /\ row'[r] = row[r]
      /\ \A r \in RoomIds, u \in Users : /\ row'[r][u].state = row[r][u].state
                                         /\ row'[r][u].flags = row[r][u].flags
  BY <1>1, <1>2, <1>3, <1>4, <1>5 DEF TypeOK
<1>8. PairsShrink
  BY <1>1, <1>7 DEF PairsShrink
<1>9. call'[c].op = x.op
  BY <1>1, <1>2, CommitOwn
<1>10. Emptied(c)' /\ \A u \in Users : Decided(c, u)'
  BY <1>1, <1>9, SMT DEF Emptied, Decided
<1>11. \A u \in Users : ~Announces(c, u) /\ ~Subscribes(c, u)
  BY <1>1, SMT DEF Announces, Subscribes
<1>12. muddled \subseteq muddled' /\ muddled' \subseteq RoomIds \X Users
       /\ room' \in [RoomIds -> Room]
  BY <1>1, <1>2 DEF TypeOK
<1>13. x.pc \notin {"idle", "fill", "inval", "inval2"} /\ x.op \in Ops \ {"create", "send"}
  BY <1>1 DEF Ops
<1> QED BY <1>1, <1>6, <1>7, <1>8, <1>10, <1>11, <1>12, <1>13, CommitStep,
           SMTT(20), ZenonT(40)

\* AddParticipantToRoom makes its users members, which the request announces.
LEMMA AddWritesKeeps ==
  ASSUME IInv, NEW c \in Callers, AddWrites(c)
  PROVE  IInv'
<1> DEFINE x == call[c]
           q == x.room
           new(u) == IF u \in x.absent THEN Joined("MEMBER")
                     ELSE IF u \in x.to /\ x.revive
                          THEN [row[q][u] EXCEPT !.state = "active"] ELSE row[q][u]
<1>1. /\ x.pc = "add" /\ room' = room /\ CommitAndGo(c, "inval")
      /\ muddled' = muddled \cup Overlapped(c)
      /\ UNCHANGED <<cache, outside, received, twins, misjoined>>
      /\ \A u \in x.absent : row[q][u].state = "none"
  BY DEF AddWrites, At
<1>2. TypeOK /\ Shape(c) /\ "inval" \in Pc
  BY DEF IInv, CallShape, Pc
<1>3. x.op = "add" /\ q \in RoomIds /\ x.absent \subseteq x.to /\ room[q].type = "group"
        /\ x \in Call
  <2>1. x.op = "add"
    BY <1>1, <1>2 DEF Shape
  <2>2. x \in Call
    BY <1>2 DEF TypeOK
  <2> QED BY <1>1, <1>2, <2>1, <2>2 DEF Shape
<1>4. row' = [row EXCEPT ![q] = [u \in Users |-> new(u)]]
  BY <1>2, <1>3 DEF AddWrites, TypeOK
<1>5. ASSUME NEW u \in Users
      PROVE  /\ new(u) \in Member
             /\ u \in x.absent => new(u).state = "active"
             /\ u \notin x.absent /\ u \in x.to /\ x.revive =>
                  new(u).state = "active" /\ new(u).flags = row[q][u].flags
             /\ ~(u \in x.to /\ x.revive) /\ u \notin x.absent => new(u) = row[q][u]
  <2>1. row[q][u] \in Member
    BY <1>2, <1>3 DEF TypeOK
  <2>2. /\ [row[q][u] EXCEPT !.state = "active"] \in Member
        /\ [row[q][u] EXCEPT !.state = "active"].state = "active"
        /\ [row[q][u] EXCEPT !.state = "active"].flags = row[q][u].flags
    BY <2>1, MemberForms
  <2>3. Joined("MEMBER") \in Member /\ Joined("MEMBER").state = "active"
    BY <2>1, MemberForms DEF Roles
  <2> QED BY <2>1, <2>2, <2>3
<1> HIDE DEF new
<1>6. row' \in [RoomIds -> [Users -> Member]]
  BY <1>2, <1>3, <1>4, <1>5 DEF TypeOK
<1>7. /\ \A r \in RoomIds \ {q} : room'[r] = room[r] /\ row'[r] = row[r]
      /\ \A u \in Users : row'[q][u] = new(u)
  BY <1>1, <1>2, <1>3, <1>4 DEF TypeOK
<1>8. PairsShrink
  <2>1. \A r \in RoomIds : room[r].type = "p2p" => row'[r] = row[r]
    BY <1>3, <1>7
  <2> QED BY <1>1, <2>1 DEF PairsShrink
<1>9. /\ call'[c].pc = "inval" /\ call'[c].op = x.op /\ call'[c].room = x.room
      /\ call'[c].to = x.to /\ call'[c].fresh = x.fresh
  BY <1>1, <1>2, CommitOwn
<1>10. Emptied(c)'
  BY <1>3, <1>9 DEF Emptied
<1>11. muddled \subseteq muddled' /\ muddled' \subseteq RoomIds \X Users
  <2>1. Concerned(c) \subseteq Users
    BY <1>1, <1>2, ConcernedForm DEF IInv
  <2> HIDE DEF Concerned
  <2>2. Overlapped(c) \subseteq RoomIds \X Users
    BY <1>3, <2>1 DEF Overlapped
  <2> QED BY <1>1, <1>2, <2>2 DEF TypeOK
<1>12. ASSUME NEW r \in RoomIds, NEW u \in Users, q = r, <<r, u>> \notin muddled', Decided(c, u)
       PROVE  LET same  == row'[r][u].state = row[r][u].state
                  muted == "muted" \in row'[r][u].flags <=> "muted" \in row[r][u].flags
              IN /\ Decided(c, u)'
                 /\ same \/ Announces(c, u)'
                 /\ (same /\ muted) \/ Subscribes(c, u)'
                 /\ Announces(c, u) => Announces(c, u)'
                 /\ Subscribes(c, u) => Subscribes(c, u)'
                 /\ \/ same /\ muted
                    \/ \A d \in Callers \ {c} :
                         call[d].room = r => call[d].pc = "idle" \/ u \notin Concerned(d)
  <2>1. ~Announces(c, u) /\ ~Subscribes(c, u)
    BY <1>1, <1>3, SMT DEF Announces, Subscribes
  <2>2. row'[r][u] = new(u)
    BY <1>7, <1>12
  <2>3. CASE u \notin x.to
    <3>1. row'[r][u] = row[r][u]
      BY <1>3, <1>5, <1>12, <2>2, <2>3
    <3>2. Decided(c, u)'
      BY <1>3, <1>9, <2>3, SMT DEF Decided
    <3> QED BY <2>1, <3>1, <3>2
  <2>4. CASE u \in x.to
    <3>1. /\ u \in x.fresh <=> row[r][u].state # "active"
          /\ u \in x.absent <=> row[r][u].state = "none"
          /\ row[r][u].state = "removed" => x.revive
      BY <1>1, <1>3, <1>12, <2>4, SMT DEF Decided
    <3>2. row[r][u].state \in {"none", "active", "removed"}
      <4>1. row[r][u] \in Member
        BY <1>2 DEF TypeOK
      <4> QED BY <4>1, Zenon DEF Member
    <3>3. row'[r][u].state = "active"
      BY <1>5, <1>12, <2>2, <2>4, <3>1, <3>2
    <3>4. Decided(c, u)'
      BY <1>3, <1>9, <1>12, <3>3, SMT DEF Decided
    <3>5. Subscribes(c, u)'
      BY <1>3, <1>9, <2>4, SMT DEF Subscribes
    <3>6. row[r][u].state # "active" => Announces(c, u)'
      BY <1>3, <1>9, <3>1, SMT DEF Announces
    <3>7. u \in Concerned(c) /\ <<r, u>> \notin Overlapped(c)
      <4>1. u \in Concerned(c)
        BY <1>3, <2>4, SMT DEF Concerned
      <4> QED BY <1>1, <1>12, <4>1
    <3>8. \A d \in Callers \ {c} : call[d].room = r => call[d].pc = "idle" \/ u \notin Concerned(d)
      BY <1>12, <3>7, OverlapForm
    <3> QED BY <2>1, <3>3, <3>4, <3>5, <3>6, <3>8
  <2> QED BY <2>3, <2>4
<1>13. x.pc \notin {"idle", "fill", "inval", "inval2"} /\ x.op \in Ops \ {"create", "send"}
       /\ room' \in [RoomIds -> Room]
  BY <1>1, <1>2, <1>3 DEF Ops, TypeOK
<1> QED BY <1>1, <1>6, <1>7, <1>8, <1>10, <1>11, <1>12, <1>13, CommitStep,
           SMTT(20), ZenonT(40)


\* Removed ends the membership of the active ones and leaves every other row alone.
LEMMA RemovedForm ==
  ASSUME TypeOK, NEW r \in RoomIds, NEW S \in SUBSET Users
  PROVE  /\ Removed(r, S) \in [RoomIds -> [Users -> Member]]
         /\ \A q \in RoomIds \ {r} : Removed(r, S)[q] = row[q]
         /\ \A u \in Users :
              /\ Removed(r, S)[r][u].flags = row[r][u].flags
              /\ Removed(r, S)[r][u].state =
                   IF u \in S /\ row[r][u].state = "active" THEN "removed" ELSE row[r][u].state
<1> DEFINE new(u) == IF u \in S \cap Active(r) THEN [row[r][u] EXCEPT !.state = "removed"]
             ELSE row[r][u]
<1>1. row \in [RoomIds -> [Users -> Member]]
  BY DEF TypeOK
<1>2. Removed(r, S) = [row EXCEPT ![r] = [u \in Users |-> new(u)]]
  BY <1>1 DEF Removed
<1>3. ASSUME NEW u \in Users
      PROVE  /\ new(u) \in Member /\ new(u).flags = row[r][u].flags
             /\ new(u).state = IF u \in S /\ row[r][u].state = "active" THEN "removed"
                  ELSE row[r][u].state
  <2>1. row[r][u] \in Member
    BY <1>1
  <2>2. /\ [row[r][u] EXCEPT !.state = "removed"] \in Member
        /\ [row[r][u] EXCEPT !.state = "removed"].state = "removed"
        /\ [row[r][u] EXCEPT !.state = "removed"].flags = row[r][u].flags
    BY <2>1, MemberForms
  <2> QED BY <2>1, <2>2 DEF Active
<1> HIDE DEF new
<1> QED BY <1>1, <1>2, <1>3

\* LeaveRoom ends the membership of the selected ones, which the request announces.
LEMMA RemoveMembersKeeps ==
  ASSUME IInv, NEW c \in Callers, RemoveMembers(c)
  PROVE  IInv'
<1> DEFINE x == call[c]
           q == x.room
<1>1. /\ x.pc = "remove" /\ room' = room /\ CommitAndGo(c, "inval") /\ row' = Removed(q, x.gone)
      /\ muddled' = muddled \cup Overlapped(c)
      /\ UNCHANGED <<cache, outside, received, twins, misjoined>>
  BY DEF RemoveMembers, At
<1>2. TypeOK /\ Shape(c) /\ "inval" \in Pc /\ Emptied(c)
  BY DEF IInv, CallShape, Pc, PairLeft
<1>3. x.op = "leave" /\ q \in RoomIds /\ x \in Call /\ x.gone \in SUBSET Users
  <2>1. x.op = "leave"
    BY <1>1, <1>2 DEF Shape
  <2>2. x \in Call
    BY <1>2 DEF TypeOK
  <2>3. x.gone \in SUBSET Users
    BY <2>2, SMT DEF Call
  <2> QED BY <1>1, <1>2, <2>1, <2>2, <2>3 DEF Shape
<1>4. /\ row' \in [RoomIds -> [Users -> Member]]
      /\ \A r \in RoomIds \ {q} : room'[r] = room[r] /\ row'[r] = row[r]
      /\ \A u \in Users : /\ row'[q][u].flags = row[q][u].flags
                          /\ row'[q][u].state = IF u \in x.gone /\ row[q][u].state = "active"
                                                THEN "removed" ELSE row[q][u].state
  BY <1>1, <1>2, <1>3, RemovedForm
<1>5. PairsShrink
  <2>1. \A r \in RoomIds, u \in Users : row'[r][u].state = "active" => row[r][u].state = "active"
    BY <1>4
  <2> QED BY <1>1, <2>1 DEF PairsShrink
<1>6. /\ call'[c].pc = "inval" /\ call'[c].op = x.op /\ call'[c].room = x.room
      /\ call'[c].to = x.to /\ call'[c].what = x.what /\ call'[c].view = x.view
  BY <1>1, <1>2, CommitOwn
<1>7. LeavesAll(c)' <=> LeavesAll(c)
  BY <1>6 DEF LeavesAll
<1>8. Emptied(c)'
  <2>1. SUFFICES ASSUME x.view.type = "p2p" PROVE \A u \in Users : row'[q][u].state # "active"
    BY <1>6 DEF Emptied, Active
  <2>2. \A u \in Users : row[q][u].state = "active" => u \in x.gone
    BY <1>1, <1>2, <1>3, <2>1 DEF Emptied, Active
  <2> QED BY <1>4, <2>2
<1>9. muddled \subseteq muddled' /\ muddled' \subseteq RoomIds \X Users
  <2>1. Concerned(c) \subseteq Users
    BY <1>1, <1>2, ConcernedForm DEF IInv
  <2> HIDE DEF Concerned
  <2>2. Overlapped(c) \subseteq RoomIds \X Users
    BY <1>3, <2>1 DEF Overlapped
  <2> QED BY <1>1, <1>2, <2>2 DEF TypeOK
<1>10. ASSUME NEW r \in RoomIds, NEW u \in Users, q = r, <<r, u>> \notin muddled', Decided(c, u)
       PROVE  LET same  == row'[r][u].state = row[r][u].state
                  muted == "muted" \in row'[r][u].flags <=> "muted" \in row[r][u].flags
              IN /\ Decided(c, u)'
                 /\ same \/ Announces(c, u)'
                 /\ (same /\ muted) \/ Subscribes(c, u)'
                 /\ Announces(c, u) => Announces(c, u)'
                 /\ Subscribes(c, u) => Subscribes(c, u)'
                 /\ \/ same /\ muted
                    \/ \A d \in Callers \ {c} :
                         call[d].room = r => call[d].pc = "idle" \/ u \notin Concerned(d)
  <2>1. ~Announces(c, u) /\ ~Subscribes(c, u)
    BY <1>1, <1>3, SMT DEF Announces, Subscribes
  <2>2. /\ LeavesAll(c) /\ row[r][u].state = "active" => u \in x.to
        /\ u \in x.gone /\ row[r][u].state = "active" => u \in x.to
        /\ u \in x.to => u \in x.gone
    BY <1>1, <1>3, <1>10 DEF Decided
  <2>3. Decided(c, u)'
    <3>1. u \in x.to \/ LeavesAll(c) => row'[r][u].state # "active"
      BY <1>4, <1>10, <2>2
    <3> HIDE DEF LeavesAll
    <3> QED BY <1>3, <1>6, <1>7, <1>10, <3>1, SMT DEF Decided
  <2>4. CASE u \notin x.to
    <3>1. row'[r][u].state = row[r][u].state /\ row'[r][u].flags = row[r][u].flags
      BY <1>4, <1>10, <2>2, <2>4
    <3> QED BY <2>1, <2>3, <3>1
  <2>5. CASE u \in x.to
    <3>1. Announces(c, u)' /\ Subscribes(c, u)'
      BY <1>3, <1>6, <2>5, SMT DEF Announces, Subscribes
    <3>2. u \in Concerned(c) /\ <<r, u>> \notin Overlapped(c)
      <4>1. u \in Concerned(c)
        BY <1>3, <2>5, SMT DEF Concerned
      <4> QED BY <1>1, <1>10, <4>1
    <3>3. \A d \in Callers \ {c} : call[d].room = r => call[d].pc = "idle" \/ u \notin Concerned(d)
      BY <1>10, <3>2, OverlapForm
    <3> QED BY <2>1, <2>3, <3>1, <3>3
  <2> QED BY <2>4, <2>5
<1>11. x.pc \notin {"idle", "fill", "inval", "inval2"} /\ x.op \in Ops \ {"create", "send"}
       /\ room' \in [RoomIds -> Room]
  BY <1>1, <1>2, <1>3 DEF Ops, TypeOK
<1> QED BY <1>1, <1>4, <1>5, <1>8, <1>9, <1>10, <1>11, CommitStep,
           SMTT(20), ZenonT(40)

\* DeleteRoom closes the room.
LEMMA CloseRoomKeeps ==
  ASSUME IInv, NEW c \in Callers, CloseRoom(c)
  PROVE  IInv'
<1> DEFINE x == call[c]
           q == x.room
<1>1. /\ x.pc = "close" /\ row' = row /\ CommitAndGo(c, "clear")
      /\ muddled' = muddled
      /\ UNCHANGED <<cache, outside, received, twins, misjoined>>
      /\ room' = IF room[q].type = "p2p" THEN [room EXCEPT ![q].alive = FALSE] ELSE room
  BY DEF CloseRoom, At, history
<1>2. TypeOK /\ Shape(c) /\ "clear" \in Pc /\ Emptied(c)
  BY DEF IInv, CallShape, Pc, PairLeft
<1>3. /\ x.op = "leave" /\ LeavesAll(c) /\ q \in RoomIds /\ room[q] \in Room
      /\ x.view.type = room[q].type
  BY <1>1, <1>2 DEF Shape, TypeOK
<1>4. /\ [room[q] EXCEPT !.alive = FALSE] \in Room
      /\ [room[q] EXCEPT !.alive = FALSE].type = room[q].type
      /\ [room[q] EXCEPT !.alive = FALSE].alive = FALSE
  <2>1. [room[q] EXCEPT !.alive = FALSE] \in Room
    BY <1>3, Zenon DEF Room
  <2>2. /\ [room[q] EXCEPT !.alive = FALSE].type = room[q].type
        /\ [room[q] EXCEPT !.alive = FALSE].alive = FALSE
    BY <1>3, SMT DEF Room
  <2> QED BY <2>1, <2>2
<1>5. \/ room' = room
      \/ room' = [room EXCEPT ![q] = [room[q] EXCEPT !.alive = FALSE]]
  BY <1>1
<1>6. room' \in [RoomIds -> Room]
  BY <1>2, <1>3, <1>4, <1>5 DEF TypeOK
<1>7. \A r \in RoomIds : /\ room'[r].type = room[r].type /\ (room'[r].alive => room[r].alive)
                         /\ r # q => room'[r] = room[r]
  BY <1>2, <1>3, <1>4, <1>5 DEF TypeOK
<1>8. PairsShrink
  BY <1>1, <1>7 DEF PairsShrink
<1>9. room[q].type = "p2p" => \A u \in Users : row[q][u].state # "active"
  BY <1>1, <1>2, <1>3 DEF Emptied, Active
<1>10. ASSUME NEW r \in RoomIds, NEW u \in Users, q = r PROVE ViewOf(r, u)' = ViewOf(r, u)
  <2>1. CASE room[q].type = "p2p"
    BY <1>1, <1>9, <1>10, <2>1 DEF ViewOf, Seen
  <2>2. CASE room[q].type # "p2p"
    BY <1>1, <2>2 DEF ViewOf
  <2> QED BY <2>1, <2>2
<1>11. /\ call'[c].pc = "clear" /\ call'[c].op = x.op /\ call'[c].room = x.room
       /\ call'[c].to = x.to /\ call'[c].what = x.what /\ call'[c].view = x.view
  BY <1>1, <1>2, CommitOwn
<1>12. LeavesAll(c)'
  BY <1>3, <1>11 DEF LeavesAll
<1>13. Emptied(c)'
  BY <1>1, <1>3, <1>9, <1>11 DEF Emptied, Active
<1>14. \A u \in Users : Announces(c, u) => Announces(c, u)'
  BY <1>1, <1>3, <1>11, SMT DEF Announces
<1>15. \A u \in Users : ~Subscribes(c, u)
  BY <1>1, <1>3, SMT DEF Subscribes
<1>16. ASSUME NEW u \in Users, Decided(c, u) PROVE Decided(c, u)'
  <2> HIDE DEF LeavesAll
  <2> QED BY <1>1, <1>3, <1>11, <1>12, <1>16, SMT DEF Decided
<1>17. muddled \subseteq muddled' /\ muddled' \subseteq RoomIds \X Users
       /\ row' \in [RoomIds -> [Users -> Member]]
  BY <1>1, <1>2 DEF TypeOK
<1>18. x.pc \notin {"idle", "fill", "inval", "inval2"} /\ x.op \in Ops \ {"create", "send"}
       /\ \A r \in RoomIds \ {q} : room'[r] = room[r] /\ row'[r] = row[r]
  BY <1>1, <1>3, <1>7, SMTT(20), ZenonT(40) DEF Ops
<1> QED BY <1>1, <1>3, <1>6, <1>8, <1>10, <1>13, <1>14, <1>15, <1>16, <1>17, <1>18, CommitStep,
           SMTT(20), ZenonT(40)

\* DeleteRoom ends the membership of the ones who are left.
LEMMA ClearRoomKeeps ==
  ASSUME IInv, NEW c \in Callers, ClearRoom(c)
  PROVE  IInv'
<1> DEFINE x == call[c]
           q == x.room
<1>1. /\ x.pc = "clear" /\ room' = room /\ CommitAndGo(c, "inval2") /\ row' = Removed(q, Users)
      /\ muddled' = muddled \cup Overlapped(c)
      /\ UNCHANGED <<cache, outside, received, twins, misjoined>>
  BY DEF ClearRoom, At
<1>2. TypeOK /\ Shape(c) /\ "inval2" \in Pc
  BY DEF IInv, CallShape, Pc
<1>3. x.op = "leave" /\ LeavesAll(c) /\ q \in RoomIds
  BY <1>1, <1>2 DEF Shape
<1>4. /\ row' \in [RoomIds -> [Users -> Member]]
      /\ \A r \in RoomIds \ {q} : room'[r] = room[r] /\ row'[r] = row[r]
      /\ \A u \in Users : /\ row'[q][u].flags = row[q][u].flags
                          /\ row'[q][u].state = IF row[q][u].state = "active"
                                                THEN "removed" ELSE row[q][u].state
  <2>1. Users \in SUBSET Users
    OBVIOUS
  <2> QED BY <1>1, <1>2, <1>3, <2>1, RemovedForm
<1>5. PairsShrink
  <2>1. \A r \in RoomIds, u \in Users : row'[r][u].state = "active" => row[r][u].state = "active"
    BY <1>4
  <2> QED BY <1>1, <2>1 DEF PairsShrink
<1>6. /\ call'[c].pc = "inval2" /\ call'[c].op = x.op /\ call'[c].room = x.room
      /\ call'[c].to = x.to /\ call'[c].what = x.what /\ call'[c].view = x.view
  BY <1>1, <1>2, CommitOwn
<1>7. LeavesAll(c)'
  BY <1>3, <1>6 DEF LeavesAll
<1>8. Emptied(c)'
  BY <1>4, <1>6 DEF Emptied, Active
<1>9. muddled \subseteq muddled' /\ muddled' \subseteq RoomIds \X Users
  <2>1. Concerned(c) \subseteq Users
    BY <1>1, <1>2, ConcernedForm DEF IInv
  <2> HIDE DEF Concerned
  <2>2. Overlapped(c) \subseteq RoomIds \X Users
    BY <1>3, <2>1 DEF Overlapped
  <2> QED BY <1>1, <1>2, <2>2 DEF TypeOK
<1>10. ASSUME NEW r \in RoomIds, NEW u \in Users, q = r, <<r, u>> \notin muddled', Decided(c, u)
       PROVE  /\ Decided(c, u)'
              /\ row'[r][u].state = row[r][u].state /\ row'[r][u].flags = row[r][u].flags
              /\ Announces(c, u) => Announces(c, u)'
              /\ ~Subscribes(c, u)
  <2>1. row[r][u].state # "active"
    BY <1>1, <1>3, <1>10 DEF Decided
  <2>2. row'[r][u].state = row[r][u].state /\ row'[r][u].flags = row[r][u].flags
    BY <1>4, <1>10, <2>1
  <2>3. Decided(c, u)'
    <3> HIDE DEF LeavesAll
    <3> QED BY <1>3, <1>6, <1>10, <2>1, <2>2, SMT DEF Decided
  <2>4. (Announces(c, u) => Announces(c, u)') /\ ~Subscribes(c, u)
    BY <1>1, <1>3, <1>6, SMT DEF Announces, Subscribes
  <2> QED BY <2>2, <2>3, <2>4
<1>11. x.pc \notin {"idle", "fill", "inval", "inval2"} /\ x.op \in Ops \ {"create", "send"}
       /\ room' \in [RoomIds -> Room]
  BY <1>1, <1>2, <1>3 DEF Ops, TypeOK
<1> QED BY <1>1, <1>3, <1>4, <1>5, <1>8, <1>9, <1>10, <1>11, CommitStep,
           SMTT(20), ZenonT(40)

------------------------------------------------------------------------------
\* A set of two that is part of a pair is the pair.
LEMMA PairForm ==
  ASSUME NEW a, NEW b, NEW S, Cardinality(S) = 2, S \subseteq {a, b}
  PROVE  S = {a, b}
<1>1. Cardinality({}) = 0 /\ Cardinality({a}) = 1 /\ Cardinality({b}) = 1
  BY FS_EmptySet, FS_Singleton
<1>2. S # {} /\ S # {a} /\ S # {b}
  BY <1>1
<1> QED BY <1>2

\* A new room is a room, open and of its type.
LEMMA NewRoomForm ==
  ASSUME NEW type \in Types, NEW grant \in SUBSET Perms
  PROVE  /\ NewRoom(type, grant) \in Room /\ NewRoom(type, grant).type = type
         /\ NewRoom(type, grant).alive
<1> DEFINE perms == IF type = "p2p" THEN {"send_message"} ELSE grant
<1>1. perms \in SUBSET Perms
  BY DEF Perms
<1>2. NewRoom(type, grant) = [type |-> type, alive |-> TRUE, perms |-> perms]
  BY DEF NewRoom
<1> HIDE DEF perms
<1>3. [type |-> type, alive |-> TRUE, perms |-> perms] \in Room
  BY <1>1, Zenon DEF Room
<1>4. /\ [type |-> type, alive |-> TRUE, perms |-> perms].type = type
      /\ [type |-> type, alive |-> TRUE, perms |-> perms].alive
  OBVIOUS
<1> QED BY <1>2, <1>3, <1>4

\* The rows of a new room: its owner and members are active, and have set no flag.
LEMMA NewRowForm ==
  ASSUME NEW owner \in Users, NEW to \in SUBSET Users
  PROVE  /\ NewRow(owner, to) \in [Users -> Member]
         /\ \A u \in Users : /\ NewRow(owner, to)[u].state = "active" <=> u \in to \cup {owner}
                             /\ NewRow(owner, to)[u].flags = {}
                             /\ u \notin to \cup {owner} => NewRow(owner, to)[u] = NoMember
<1>1. NoMember \in Member /\ NoMember.state = "none" /\ NoMember.flags = {}
  <2>1. NoMember.flags = {}
    BY DEF NoMember
  <2> QED BY <2>1, NoForms
<1>2. /\ Joined("OWNER") \in Member /\ Joined("OWNER").state = "active"
           /\ Joined("OWNER").flags = {}
      /\ Joined("MEMBER") \in Member /\ Joined("MEMBER").state = "active"
           /\ Joined("MEMBER").flags = {}
  BY <1>1, MemberForms DEF Roles
<1> QED BY <1>1, <1>2 DEF NewRow

\* CreateRoom inserts a room and its members, whom the request announces.
LEMMA InsertKeeps ==
  ASSUME IInv, NEW c \in Callers, NEW r \in RoomIds, InsertRoom(c, r)
  PROVE  IInv'
<1> DEFINE x == call[c]
           P == PairOf(c)
<1>1. /\ x.pc = "insert" /\ room[r] = NoSuch /\ x.to \ {x.user} # {}
      /\ room' = [room EXCEPT ![r] = NewRoom(x.what, x.grant)]
      /\ row' = [row EXCEPT ![r] = NewRow(x.user, x.to)]
      /\ twins' = IF x.raced THEN twins \cup {P} ELSE twins
      /\ cache' = cache /\ topic' = topic /\ told' = told /\ received' = received
      /\ muddled' = muddled /\ misjoined' = misjoined
  BY DEF InsertRoom, At, outside
<1>2. /\ TypeOK /\ CallShape /\ RoomShape /\ CallCurrent /\ CacheCurrent /\ PairLeft /\ StillNone
      /\ PairHasOneRoom /\ Shape(c)
  BY DEF IInv, CallShape
<1>3. call \in [Callers -> Call] /\ x \in Call
  BY <1>2 DEF TypeOK
<1>4. /\ x.op = "create" /\ x.what \in Types /\ x.user \in Users /\ x.room = NoRoom
      /\ x.view = NoView /\ x.to \in SUBSET Users /\ x.grant \in SUBSET Perms
      /\ x.what = "p2p" => \E u \in Users : x.to = {u} /\ u # x.user
  <2>1. x.to \in SUBSET Users /\ x.grant \in SUBSET Perms
    BY <1>3, SMT DEF Call
  <2>2. x.op = "create"
    BY <1>1, <1>2 DEF Shape
  <2>3. x.what = "p2p" => \E u \in Users : x.to = {u}
    BY <1>2, <2>2 DEF Shape
  <2> QED BY <1>1, <1>2, <2>1, <2>2, <2>3 DEF Shape
<1>5. P \in SUBSET Users /\ P = x.to \cup {x.user}
  BY <1>4 DEF PairOf
<1>6. /\ \A d \in Callers : call[d].room # r
      /\ \A u \in Users : /\ row[r][u].state = "none" /\ told[r][u] # "joined" /\ u \notin topic[r]
                          /\ \A k \in Keys : cache[r][u][k] = NoEntry
  BY <1>1, <1>2, NoForms DEF RoomShape
<1>7. /\ room' \in [RoomIds -> Room] /\ row' \in [RoomIds -> [Users -> Member]]
      /\ \A s \in RoomIds \ {r} : room'[s] = room[s] /\ row'[s] = row[s]
      /\ room'[r].type = x.what /\ room'[r].alive
      /\ \A u \in Users : /\ row'[r][u].state = "active" <=> u \in P
                          /\ row'[r][u].flags = {}
  <2>1. /\ NewRoom(x.what, x.grant) \in Room /\ NewRoom(x.what, x.grant).type = x.what
        /\ NewRoom(x.what, x.grant).alive
    BY <1>4, NewRoomForm
  <2>2. /\ NewRow(x.user, x.to) \in [Users -> Member]
        /\ \A u \in Users : /\ NewRow(x.user, x.to)[u].state = "active" <=> u \in P
                            /\ NewRow(x.user, x.to)[u].flags = {}
    BY <1>4, <1>5, NewRowForm
  <2> QED BY <1>1, <1>2, <2>1, <2>2 DEF TypeOK
<1> DEFINE y == [[x EXCEPT !.room = r] EXCEPT !.pc = "tell"]
           beaten(d) == /\ call[d].pc = "insert" /\ call[d].what = "p2p" /\ x.what = "p2p"
                        /\ PairOf(d) = P
<1>8. call' = [d \in Callers |-> IF d = c THEN y
                                 ELSE IF beaten(d) THEN [call[d] EXCEPT !.raced = TRUE]
                                   ELSE call[d]]
  <2>1. [x EXCEPT !.room = r, !.pc = "tell"] = y
    BY <1>3, SMT DEF Call
  <2> HIDE DEF y
  <2> QED BY <2>1, Zenon DEF InsertRoom, At
<1>9. /\ y \in Call /\ y.pc = "tell" /\ y.room = r /\ y.op = x.op /\ y.user = x.user /\ y.to = x.to
      /\ y.what = x.what /\ y.view = x.view
  <2>1. [x EXCEPT !.room = r] \in Call
    BY <1>3, FieldForms
  <2>2. y \in Call
    <3> DEFINE z == [x EXCEPT !.room = r]
    <3> HIDE DEF z
    <3>1. [z EXCEPT !.pc = "tell"] \in Call
      BY <2>1, FieldForms DEF Pc, z
    <3> QED BY <3>1 DEF z
  <2>3. /\ y.pc = "tell" /\ y.room = r /\ y.op = x.op /\ y.user = x.user /\ y.to = x.to
        /\ y.what = x.what /\ y.view = x.view
    BY <1>3, SMT DEF Call
  <2> QED BY <2>2, <2>3
<1>10. call'[c] = y
  BY <1>8
<1> HIDE DEF y
<1>11. ASSUME NEW d \in Callers \ {c}
       PROVE  /\ call'[d] \in Call /\ Alike(call[d], call'[d])
              /\ beaten(d) => call'[d].raced
              /\ ~beaten(d) => call'[d] = call[d]
  <2>1. call[d] \in Call
    BY <1>3
  <2>2. CASE beaten(d)
    <3>1. call'[d] = [call[d] EXCEPT !.raced = TRUE]
      BY <1>8, <2>2
    <3> HIDE DEF beaten
    <3> QED BY <2>1, <2>2, <3>1, RacedForm
  <2>3. CASE ~beaten(d)
    <3>1. call'[d] = call[d]
      BY <1>8, <2>3
    <3> HIDE DEF beaten
    <3> QED BY <2>1, <2>3, <3>1 DEF Alike
  <2> QED BY <2>2, <2>3
<1>12. call' \in [Callers -> Call]
  <2>1. \A d \in Callers : call'[d] \in Call
    BY <1>9, <1>10, <1>11
  <2> QED BY <1>8, <2>1, Zenon
<1>13. TypeOK'
  BY <1>1, <1>2, <1>5, <1>7, <1>12 DEF TypeOK
<1>14. \A d \in Callers : call'[d].room = IF d = c THEN r ELSE call[d].room
  BY <1>9, <1>10, <1>11 DEF Alike
<1>15. RoomShape'
  <2>1. ASSUME NEW s \in RoomIds PROVE room'[s].alive => room'[s].type # "none"
    BY <1>2, <1>4, <1>7 DEF RoomShape, Types
  <2>2. ASSUME NEW s \in RoomIds, room'[s].type = "none"
        PROVE  /\ room'[s] = NoSuch
               /\ \A u \in Users : /\ row'[s][u].state = "none" /\ told'[s][u] # "joined"
                                   /\ u \notin topic'[s]
                                   /\ \A k \in Keys : cache'[s][u][k] = NoEntry
               /\ \A d \in Callers : call'[d].room # s
    <3>1. s # r
      BY <1>4, <1>7, <2>2 DEF Types
    <3>2. room'[s] = room[s] /\ row'[s] = row[s]
      BY <1>7, <3>1
    <3> QED BY <1>1, <1>2, <1>14, <2>2, <3>1, <3>2 DEF RoomShape
  <2> QED BY <2>1, <2>2 DEF RoomShape
<1>16. ASSUME NEW d \in Callers \ {c} PROVE Shape(d)' /\ Current(d)' /\ Emptied(d)'
  <2>1. Shape(d) /\ Current(d) /\ Emptied(d) /\ Alike(call[d], call'[d])
    BY <1>2, <1>11 DEF CallShape, CallCurrent, PairLeft
  <2>2. \A s \in RoomIds : call[d].room = s => room'[s] = room[s] /\ row'[s] = row[s]
    BY <1>6, <1>7
  <2>3. call[d].pc # "insert" => call'[d] = call[d]
    BY <1>11
  <2>4. Shape(d)'
    <3>1. May(call'[d], call'[d].view) <=> May(call[d], call[d].view)
      BY <2>1, SMT DEF Alike, May
    <3>2. LeavesAll(d)' <=> LeavesAll(d)
      BY <2>1 DEF Alike, LeavesAll
    <3> HIDE DEF May, LeavesAll
    <3> QED BY <2>1, <2>2, <2>3, <3>1, <3>2, SMT DEF Shape, Alike
  <2>5. Current(d)'
    <3>1. SUFFICES ASSUME call'[d].view # NoView PROVE Current(d)'
      BY DEF Current
    <3>2. call[d].op \notin {"none", "create"} /\ call[d].room \in RoomIds
      <4>1. call[d].view # NoView
        BY <2>1, <3>1 DEF Alike
      <4>2. call[d].op # "none"
        BY <2>1, <4>1, NoForms DEF Shape
      <4> QED BY <2>1, <4>1, <4>2 DEF Shape
    <3>3. call'[d] = call[d]
      BY <2>1, <2>3, <3>2 DEF Shape
    <3>4. room'[call[d].room] = room[call[d].room] /\ row'[call[d].room] = row[call[d].room]
      BY <2>2, <3>2
    <3> QED BY <2>1, <3>3, <3>4, Zenon DEF Current, ViewOf
  <2>6. Emptied(d)'
    <3>1. SUFFICES ASSUME call[d].op = "leave" PROVE Emptied(d)'
      BY <2>1 DEF Emptied, Alike
    <3>2. row'[call[d].room] = row[call[d].room]
      BY <2>1, <2>2, <3>1 DEF Shape
    <3>3. call'[d] = call[d]
      BY <2>1, <2>3, <3>1 DEF Shape
    <3> QED BY <2>1, <3>2, <3>3, Zenon DEF Emptied, Active
  <2> QED BY <2>4, <2>5, <2>6
<1>17. ASSUME NEW d \in Callers \ {c} PROVE Alone(d)'
  <2>1. Alone(d) /\ Shape(d) /\ Alike(call[d], call'[d])
    BY <1>2, <1>11 DEF StillNone, CallShape
  <2>2. CASE call[d].pc # "insert"
    <3>1. call'[d] = call[d]
      BY <1>11, <2>2
    <3> QED BY <2>1, <2>2, <3>1 DEF Alone
  <2>3. CASE call[d].pc = "insert"
    <3>1. SUFFICES ASSUME call[d].what = "p2p", ~call'[d].raced, call[d].to # {call[d].user},
                          NEW s \in Existing(d)'
          PROVE  FALSE
      BY <2>1, <2>3 DEF Alone, Alike
    <3>2. ~beaten(d) /\ call'[d] = call[d]
      BY <1>11, <3>1
    <3>3. PairOf(d)' = PairOf(d) /\ Existing(d) = {}
      BY <2>1, <2>3, <3>1, <3>2 DEF PairOf, Alone
    <3>4. s \in RoomIds /\ LivePair(s, PairOf(d))'
      BY <3>1, Zenon DEF Existing
    <3>5. /\ s \in RoomIds /\ room'[s].type = "p2p" /\ room'[s].alive
          /\ \A u \in PairOf(d) : u \in Users /\ row'[s][u].state = "active"
      BY <3>3, <3>4 DEF LivePair, Active
    <3>6. s = r
      <4>1. SUFFICES ASSUME s # r PROVE FALSE
        OBVIOUS
      <4>2. room'[s] = room[s] /\ row'[s] = row[s]
        BY <1>7, <3>5, <4>1
      <4>3. LivePair(s, PairOf(d))
        BY <3>5, <4>2 DEF LivePair, Active
      <4> QED BY <3>3, <3>5, <4>3 DEF Existing
    <3>7. x.what = "p2p" /\ PairOf(d) \subseteq P
      BY <1>7, <3>5, <3>6
    <3>8. PICK t \in Users : x.to = {t} /\ t # x.user
      BY <1>4, <3>7
    <3>9. PICK s2 \in Users : call[d].to = {s2} /\ s2 # call[d].user
      BY <2>1, <2>3, <3>1 DEF Shape
    <3>10. PairOf(d) = {s2, call[d].user} /\ P = {t, x.user}
      BY <3>8, <3>9 DEF PairOf
    <3>11. PairOf(d) = P
      BY <3>7, <3>9, <3>10
    <3> QED BY <2>3, <3>1, <3>2, <3>7, <3>11
  <2> QED BY <2>2, <2>3
<1>18. Shape(c)' /\ Current(c)' /\ Emptied(c)' /\ Alone(c)'
  BY <1>4, <1>7, <1>9, <1>10, SMT DEF Shape, Current, Emptied, Alone, Types, Flags
<1>19. CallShape' /\ CallCurrent' /\ PairLeft' /\ StillNone'
  <2>1. CallShape'
    BY <1>16, <1>18 DEF CallShape
  <2>2. CallCurrent'
    BY <1>16, <1>18 DEF CallCurrent
  <2>3. PairLeft'
    BY <1>16, <1>18 DEF PairLeft
  <2>4. StillNone'
    BY <1>17, <1>18 DEF StillNone
  <2> QED BY <2>1, <2>2, <2>3, <2>4
<1>20. ASSUME NEW s \in RoomIds, NEW u \in Users, NEW k \in Keys PROVE Kept(s, u, k)'
  <2>1. CASE s = r
    BY <1>1, <1>6, <2>1, Zenon DEF Kept
  <2>2. CASE s # r
    <3>1. Kept(s, u, k)
      BY <1>2 DEF CacheCurrent
    <3>2. room'[s] = room[s] /\ row'[s] = row[s]
      BY <1>7, <2>2
    <3>3. Deleting(s) => Deleting(s)'
      <4>1. SUFFICES ASSUME NEW d \in Callers, At(d, "inval") \/ At(d, "inval2"), call[d].room = s
            PROVE  Deleting(s)'
        BY DEF Deleting
      <4>2. d # c
        BY <1>1, <4>1 DEF At
      <4>3. call'[d].pc = call[d].pc /\ call'[d].room = s
        BY <1>11, <4>1, <4>2 DEF Alike
      <4> QED BY <4>1, <4>3, Zenon DEF Deleting, At
    <3> QED BY <1>1, <3>1, <3>2, <3>3, Zenon DEF Kept, ViewOf
  <2> QED BY <2>1, <2>2
<1>21. CacheCurrent'
  BY <1>20 DEF CacheCurrent
<1>22. PairHasOneRoom'
  <2>1. SUFFICES ASSUME NEW s \in RoomIds, NEW t \in RoomIds, NEW S \in SUBSET Users,
                        Cardinality(S) = 2, LivePair(s, S)', LivePair(t, S)', s # t
        PROVE  S \in twins'
    BY DEF PairHasOneRoom
  <2>2. \A v \in RoomIds : v # r /\ LivePair(v, S)' => LivePair(v, S)
    <3>1. SUFFICES ASSUME NEW v \in RoomIds, v # r, LivePair(v, S)' PROVE LivePair(v, S)
      OBVIOUS
    <3>2. room'[v] = room[v] /\ row'[v] = row[v]
      BY <1>7, <3>1
    <3> QED BY <3>1, <3>2 DEF LivePair, Active
  <2>3. CASE s # r /\ t # r
    <3>1. LivePair(s, S) /\ LivePair(t, S)
      BY <2>1, <2>2, <2>3
    <3>2. S \in twins
      BY <1>2, <2>1, <3>1 DEF PairHasOneRoom
    <3> QED BY <1>1, <3>2
  <2>4. ASSUME NEW v \in RoomIds, v # r, LivePair(v, S)', LivePair(r, S)' PROVE S \in twins'
    <3>1. x.what = "p2p" /\ S \subseteq P
      BY <1>7, <2>4 DEF LivePair, Active
    <3>2. PICK w \in Users : x.to = {w} /\ w # x.user
      BY <1>4, <3>1
    <3>3. P = {w, x.user}
      BY <1>5, <3>2
    <3>4. S = P
      BY <2>1, <3>1, <3>3, PairForm
    <3>5. v \in Existing(c)
      BY <2>2, <2>4, <3>4 DEF Existing
    <3>6. x.raced
      BY <1>1, <1>2, <3>1, <3>2, <3>5 DEF StillNone, Alone
    <3> QED BY <1>1, <3>4, <3>6
  <2> QED BY <2>1, <2>3, <2>4
<1>23. ASSUME NEW s \in RoomIds, NEW u \in Users PROVE Clear(s, u)'
  <2>1. SUFFICES ASSUME <<s, u>> \notin muddled
        PROVE  (\A d \in Callers : call'[d].room = s => Decided(d, u)') /\ Told(s, u)'
                 /\ Follows(s, u)'
    BY <1>1 DEF Clear
  <2>2. CASE s = r
    <3>1. \A d \in Callers : call'[d].room = s => d = c
      BY <1>6, <1>14, <2>2
    <3>2. PairOf(c)' = P
      BY <1>9, <1>10 DEF PairOf
    <3>3. Decided(c, u)'
      BY <1>4, <1>7, <1>9, <1>10, <2>2, <3>2, SMT DEF Decided
    <3>4. u \in P => Announces(c, u)' /\ Subscribes(c, u)'
      BY <1>4, <1>9, <1>10, <3>2, SMT DEF Announces, Subscribes
    <3>5. row'[s][u].state = "active" => u \in P
      BY <1>7, <2>2
    <3>6. call'[c].room = s /\ told'[s][u] # "joined" /\ u \notin topic'[s]
      BY <1>1, <1>6, <1>9, <1>10, <2>2
    <3>7. Told(s, u)'
      BY <3>4, <3>5, <3>6 DEF Told, Active
    <3>8. Follows(s, u)'
      BY <3>4, <3>5, <3>6 DEF Follows, Active
    <3> QED BY <3>1, <3>3, <3>7, <3>8
  <2>3. CASE s # r
    <3>1. (\A d \in Callers : call[d].room = s => Decided(d, u)) /\ Told(s, u) /\ Follows(s, u)
      BY <2>1 DEF Clear, IInv
    <3>2. room'[s] = room[s] /\ row'[s] = row[s] /\ told'[s] = told[s] /\ topic'[s] = topic[s]
      BY <1>1, <1>7, <2>3
    <3>3. call'[c].room # s /\ call[c].room # s
      BY <1>4, <1>9, <1>10, <2>3, RoomsAssumption
    <3>4. ASSUME NEW d \in Callers \ {c}
          PROVE  /\ Announces(d, u)' <=> Announces(d, u)
                 /\ Subscribes(d, u)' <=> Subscribes(d, u)
                 /\ call'[d].room = call[d].room
                 /\ call[d].room = s /\ Decided(d, u) => Decided(d, u)'
      <4>1. Alike(call[d], call'[d])
        BY <1>11
      <4>2. Announces(d, u)' <=> Announces(d, u)
        BY <4>1, SMT DEF Alike, Announces, PairOf
      <4>3. Subscribes(d, u)' <=> Subscribes(d, u)
        BY <4>1, SMT DEF Alike, Subscribes, PairOf
      <4>4. call[d].room = s /\ Decided(d, u) => Decided(d, u)'
        BY <3>2, <4>1, SMT DEF Alike, Decided, PairOf, Toggled, LeavesAll
      <4> QED BY <4>1, <4>2, <4>3, <4>4 DEF Alike
    <3>5. \A d \in Callers : call'[d].room = s => Decided(d, u)'
      BY <3>1, <3>3, <3>4
    <3>6. Told(s, u)'
      <4>1. SUFFICES ASSUME \A d \in Callers : call'[d].room = s => ~Announces(d, u)'
            PROVE  row[s][u].state = "active" <=> told[s][u] = "joined"
        BY <3>2 DEF Told, Active
      <4>2. \A d \in Callers : call[d].room = s => ~Announces(d, u)
        BY <3>3, <3>4, <4>1
      <4> QED BY <3>1, <4>2 DEF Told, Active
    <3>7. Follows(s, u)'
      <4>1. SUFFICES ASSUME room[s].type = "group", <<s, u>> \notin misjoined,
                            \A d \in Callers : call'[d].room = s => ~Subscribes(d, u)'
            PROVE  u \in topic[s] <=> row[s][u].state = "active" /\ "muted" \notin row[s][u].flags
        BY <1>1, <3>2 DEF Follows, Active
      <4>2. \A d \in Callers : call[d].room = s => ~Subscribes(d, u)
        BY <3>3, <3>4, <4>1
      <4> QED BY <3>1, <4>1, <4>2 DEF Follows, Active
    <3> QED BY <3>5, <3>6, <3>7
  <2> QED BY <2>2, <2>3
<1> QED BY <1>13, <1>15, <1>19, <1>21, <1>22, <1>23 DEF IInv

------------------------------------------------------------------------------
\* No request is under way at first, and the room that may exist has told its members.
LEMMA InitInv ==
  ASSUME Init
  PROVE  IInv
<1>0. PICK old \in {{}} \cup {{r} : r \in RoomIds}, type \in Types, grant \in Grants, o \in Users,
           left \in SUBSET Users, warm \in {{}, Users} :
        \E to \in SUBSET (Users \ {o}) \ {{}} : Past(old, type, grant, o, to, left, warm)
  BY Zenon DEF Init
<1>1. PICK to \in SUBSET (Users \ {o}) \ {{}} : Past(old, type, grant, o, to, left, warm)
  BY <1>0, Zenon
<1>2. /\ call = [c \in Callers |-> NoCall] /\ received = 0
      /\ twins = {} /\ muddled = {} /\ misjoined = {}
  BY DEF Init
<1>3. left \subseteq to
  BY <1>1 DEF Past
<1>4. /\ NewRoom(type, grant) \in Room /\ NewRoom(type, grant).type = type
      /\ NewRoom(type, grant).alive /\ NoSuch.alive = FALSE
  <2>1. grant \in SUBSET Perms
    BY <1>1, RoomsAssumption DEF Past, Perms
  <2> QED BY <2>1, NewRoomForm DEF NoSuch
<1>5. /\ NewRow(o, to) \in [Users -> Member]
      /\ \A u \in Users : /\ NewRow(o, to)[u].state = "active" <=> u \in to \cup {o}
                          /\ NewRow(o, to)[u].flags = {}
  BY NewRowForm
<1>6. Departed \in Member /\ Departed.state = "removed"
  BY SMT DEF Departed, Member, Roles, Flags
<1>7. room \in [RoomIds -> Room]
  BY <1>1, <1>4, NoForms DEF Past
<1>8. row \in [RoomIds -> [Users -> Member]]
  BY <1>1, <1>5, <1>6, NoForms DEF Past
<1>9. ASSUME NEW r \in RoomIds, NEW u \in Users
      PROVE  /\ r \in old => /\ room[r].type = type /\ room[r].alive
                             /\ u \in left => row[r][u] = Departed
                             /\ u \notin left => row[r][u] = NewRow(o, to)[u]
             /\ r \notin old => /\ room[r] = NoSuch /\ row[r][u].state = "none"
                                /\ ViewOf(r, u) = NoView
  <2>1. CASE r \in old
    BY <1>1, <1>4, <2>1 DEF Past
  <2>2. CASE r \notin old
    BY <1>1, <1>4, <2>2, NoForms DEF Past, ViewOf, Seen
  <2> QED BY <2>1, <2>2
<1>10. ASSUME NEW r \in RoomIds, NEW u \in Users
       PROVE  /\ Outlived(r, u) \in Entry /\ Outlived(r, u).suspect = TRUE
              /\ r \in old => Outlived(r, u).view.type = type
  <2>1. room[r] \in Room /\ row[r][u] \in Member
    BY <1>7, <1>8
  <2>2. /\ [row[r][u] EXCEPT !.state = "active"] \in Member
        /\ [row[r][u] EXCEPT !.state = "active"].state = "active"
    BY <2>1, MemberForms
  <2> DEFINE v == Seen(room[r], [row[r][u] EXCEPT !.state = "active"])
  <2>3. v \in View
    BY <2>1, <2>2, SeenForm
  <2>4. r \in old => v.type = type
    BY <1>9, <2>2 DEF Seen
  <2>5. Outlived(r, u) = [view |-> v, suspect |-> TRUE]
    BY DEF Outlived
  <2> HIDE DEF v
  <2>6. [view |-> v, suspect |-> TRUE] \in Entry
    BY <2>3, Zenon DEF Entry
  <2> QED BY <2>4, <2>5, <2>6
<1>11. ASSUME NEW r \in RoomIds, NEW u \in Users
       PROVE  /\ [NoEntry EXCEPT !.view = ViewOf(r, u)] \in Entry
              /\ [NoEntry EXCEPT !.view = ViewOf(r, u)].view = ViewOf(r, u)
              /\ ViewOf(r, u) = NoView => [NoEntry EXCEPT !.view = ViewOf(r, u)] = NoEntry
  <2>1. room[r] \in Room /\ row[r][u] \in Member
    BY <1>7, <1>8
  <2>2. ViewOf(r, u) \in View
    BY <2>1, SeenForm DEF ViewOf
  <2>3. NoEntry \in Entry
    BY NoForms
  <2>4. [NoEntry EXCEPT !.view = ViewOf(r, u)] \in Entry
    BY <2>2, <2>3, Zenon DEF Entry
  <2>5. [NoEntry EXCEPT !.view = ViewOf(r, u)].view = ViewOf(r, u)
    BY <2>3, Zenon DEF Entry
  <2>6. ViewOf(r, u) = NoView => [NoEntry EXCEPT !.view = ViewOf(r, u)] = NoEntry
    <3>1. [NoEntry EXCEPT !.view = NoEntry.view] = NoEntry
      BY <2>3, Zenon DEF Entry
    <3> QED BY <3>1, NoForms
  <2> QED BY <2>4, <2>5, <2>6
<1>12. ASSUME NEW r \in RoomIds, NEW u \in Users, NEW k \in Keys
       PROVE  \/ r \in old /\ u \in left /\ cache[r][u][k] = Outlived(r, u)
              \/ cache[r][u][k] = [NoEntry EXCEPT !.view = ViewOf(r, u)]
              \/ cache[r][u][k] = NoEntry
  BY <1>1 DEF Past
<1>13. cache \in [RoomIds -> [Users -> [Keys -> Entry]]]
  BY <1>1, <1>10, <1>11, NoForms DEF Past
<1>14. TypeOK
  <2>1. topic \in [RoomIds -> SUBSET Users]
    BY <1>1 DEF Past
  <2>2. told \in [RoomIds -> [Users -> {"nothing", "joined", "left"}]]
    BY <1>1 DEF Past
  <2>3. call \in [Callers -> Call]
    BY <1>2, NoForms
  <2>4. received \in 0..MaxRequests
    BY <1>2, RoomsAssumption
  <2> QED BY <1>2, <1>7, <1>8, <1>13, <2>1, <2>2, <2>3, <2>4 DEF TypeOK
<1>15. ASSUME NEW c \in Callers
       PROVE  /\ call[c].room \notin RoomIds /\ Shape(c) /\ Current(c) /\ Emptied(c) /\ Alone(c)
  <2>1. call[c] = NoCall
    BY <1>2
  <2>2. NoCall.what = "none" /\ "none" \notin Flags
    BY SMT DEF NoCall, Flags
  <2>3. Shape(c) /\ Current(c) /\ Emptied(c) /\ Alone(c)
    BY <2>1, <2>2, NoForms, SMT DEF Shape, Current, Emptied, Alone
  <2> QED BY <2>1, <2>3, NoForms, RoomsAssumption
<1>16. RoomShape
  <2>1. ASSUME NEW r \in RoomIds PROVE room[r].alive => room[r].type # "none"
    <3>1. CASE r \in old
      BY <1>1, <1>4, <3>1 DEF Past, Types
    <3>2. CASE r \notin old
      BY <1>1, <1>4, <3>2 DEF Past
    <3> QED BY <3>1, <3>2
  <2>2. ASSUME NEW r \in RoomIds, room[r].type = "none"
        PROVE  /\ room[r] = NoSuch
               /\ \A u \in Users : /\ row[r][u].state = "none" /\ told[r][u] # "joined"
                                   /\ u \notin topic[r]
                                   /\ \A k \in Keys : cache[r][u][k] = NoEntry
               /\ \A c \in Callers : call[c].room # r
    <3>1. r \notin old
      BY <1>1, <1>4, <2>2 DEF Past, Types
    <3>2. room[r] = NoSuch /\ \A u \in Users : told[r][u] # "joined" /\ u \notin topic[r]
      BY <1>1, <3>1 DEF Past
    <3>3. \A u \in Users : row[r][u].state = "none"
      BY <1>9, <3>1
    <3>4. ASSUME NEW u \in Users, NEW k \in Keys PROVE cache[r][u][k] = NoEntry
      <4>1. [NoEntry EXCEPT !.view = ViewOf(r, u)] = NoEntry
        BY <1>9, <1>11, <3>1, SMTT(20), ZenonT(40)
      <4> QED BY <1>12, <3>1, <4>1
    <3> QED BY <1>15, <3>2, <3>3, <3>4
  <2> QED BY <2>1, <2>2 DEF RoomShape
<1>17. ASSUME NEW r \in RoomIds, NEW u \in Users, NEW k \in Keys PROVE Kept(r, u, k)
  <2>1. CASE r \in old /\ u \in left /\ cache[r][u][k] = Outlived(r, u)
    <3>1. room[r].type = type
      BY <1>9, <2>1
    <3> QED BY <1>10, <2>1, <3>1, ZenonT(40) DEF Kept
  <2>2. CASE cache[r][u][k] = [NoEntry EXCEPT !.view = ViewOf(r, u)]
    <3>1. SUFFICES ASSUME cache[r][u][k] # NoEntry PROVE Kept(r, u, k)
      BY DEF Kept
    <3>2. ViewOf(r, u) # NoView
      BY <1>11, <2>2, <3>1
    <3>3. ViewOf(r, u).type \in Types /\ ViewOf(r, u).type = room[r].type
      BY <1>14, <1>16, <3>2, ViewForm
    <3> QED BY <1>11, <2>2, <3>3, Zenon DEF Kept
  <2>3. CASE cache[r][u][k] = NoEntry
    BY <2>3 DEF Kept
  <2> QED BY <1>12, <2>1, <2>2, <2>3
<1>18. PairHasOneRoom
  <2>1. SUFFICES ASSUME NEW r \in RoomIds, NEW s \in RoomIds, room[r].alive, room[s].alive
        PROVE  r = s
    BY DEF PairHasOneRoom, LivePair
  <2>2. r \in old /\ s \in old
    BY <1>1, <1>4, <2>1 DEF Past
  <2> QED BY <1>1, <2>2 DEF Past
<1>19. ASSUME NEW r \in RoomIds, NEW u \in Users PROVE Clear(r, u)
  <2>1. u \in Active(r) <=> r \in old /\ u \in (to \cup {o}) \ left
    <3>1. CASE r \in old
      BY <1>3, <1>5, <1>6, <1>9, <3>1 DEF Active
    <3>2. CASE r \notin old
      BY <1>9, <3>2 DEF Active
    <3> QED BY <3>1, <3>2
  <2>2. u \in Active(r) => row[r][u].flags = {}
    BY <1>5, <1>9, <2>1
  <2>3. told[r][u] = "joined" <=> r \in old /\ u \in (to \cup {o}) \ left
    BY <1>1 DEF Past
  <2>4. room[r].type = "group" => r \in old /\ type = "group"
    <3>1. CASE r \in old
      BY <1>9, <3>1
    <3>2. CASE r \notin old
      BY <1>9, <3>2, NoForms
    <3> QED BY <3>1, <3>2
  <2>5. room[r].type = "group" => (u \in topic[r] <=> u \in (to \cup {o}) \ left)
    BY <1>1, <2>4 DEF Past
  <2>6. Told(r, u)
    BY <2>1, <2>3 DEF Told
  <2>7. Follows(r, u)
    BY <2>1, <2>2, <2>4, <2>5 DEF Follows
  <2> QED BY <1>15, <2>6, <2>7 DEF Clear
<1>20. CallShape /\ CallCurrent /\ PairLeft /\ StillNone
  BY <1>15 DEF CallShape, CallCurrent, PairLeft, StillNone
<1>21. CacheCurrent
  BY <1>17 DEF CacheCurrent
<1> QED BY <1>14, <1>16, <1>18, <1>19, <1>20, <1>21 DEF IInv

\* Every step keeps the inductive invariant.
LEMMA StepKeeps ==
  ASSUME IInv, [Next]_vars
  PROVE  IInv'
<1>1. CASE UNCHANGED vars
  <2>1. /\ room' = room /\ row' = row /\ cache' = cache /\ topic' = topic /\ told' = told
        /\ call' = call /\ received' = received /\ twins' = twins /\ muddled' = muddled
        /\ misjoined' = misjoined
    BY <1>1 DEF vars
  <2>2. TypeOK' /\ RoomShape'
    BY <2>1 DEF IInv, TypeOK, RoomShape
  <2>3. ASSUME NEW c \in Callers PROVE Shape(c)'
    <3>1. Shape(c)
      BY DEF IInv, CallShape
    <3> QED BY <2>1, <3>1, SMT DEF Shape, LeavesAll
  <2>4. \A c \in Callers : Current(c)' = Current(c)
    BY <2>1, Zenon DEF Current, ViewOf
  <2>5. \A c \in Callers : Emptied(c)' = Emptied(c)
    BY <2>1, Zenon DEF Emptied, Active
  <2>6. \A c \in Callers : Existing(c)' = Existing(c)
    BY <2>1, Zenon DEF Existing, LivePair, PairOf, Active
  <2>7. \A c \in Callers : Alone(c)' = Alone(c)
    BY <2>1, <2>6, Zenon DEF Alone
  <2>8. CallShape' /\ CallCurrent' /\ PairLeft' /\ StillNone'
    BY <2>3, <2>4, <2>5, <2>7 DEF IInv, CallShape, CallCurrent, PairLeft, StillNone
  <2>9. \A r \in RoomIds, u \in Users, k \in Keys : Kept(r, u, k) => Kept(r, u, k)'
    <3>1. \A r \in RoomIds : Deleting(r) => Deleting(r)'
      BY <2>1, Zenon DEF Deleting, At
    <3>2. \A r \in RoomIds, u \in Users : ViewOf(r, u)' = ViewOf(r, u)
      BY <2>1, Zenon DEF ViewOf
    <3> QED BY <2>1, <3>1, <3>2, ZenonT(40) DEF Kept
  <2>10. CacheCurrent'
    BY <2>9 DEF IInv, CacheCurrent
  <2>11. PairHasOneRoom'
    BY <2>1 DEF IInv, PairHasOneRoom, LivePair, Active
  <2>12. ASSUME NEW r \in RoomIds, NEW u \in Users PROVE Clear(r, u)'
    <3>1. Clear(r, u)
      BY DEF IInv
    <3>2. \A c \in Callers : Decided(c, u) => Decided(c, u)'
      BY <2>1, SMT DEF Decided, PairOf, Toggled, LeavesAll
    <3>3. Told(r, u)' = Told(r, u)
      BY <2>1, Zenon DEF Told, Announces, PairOf, Active
    <3>4. Follows(r, u)' = Follows(r, u)
      BY <2>1, Zenon DEF Follows, Subscribes, PairOf, Active
    <3> QED BY <2>1, <3>1, <3>2, <3>3, <3>4 DEF Clear
  <2> QED BY <2>2, <2>8, <2>10, <2>11, <2>12 DEF IInv
<1>2. ASSUME NEW c \in Callers, NEW q \in Request, Receive(c, q) PROVE IInv'
  BY <1>2, ReceiveKeeps
<1>3. ASSUME NEW c \in Callers, Step(c) \/ Fails(c) PROVE IInv'
  <2>1. CASE Fails(c)
    BY <2>1, FailsKeeps
  <2>2. CASE Fill(c)
    BY <2>2, FillKeeps
  <2>3. CASE Reread(c)
    BY <2>3, RereadKeeps
  <2>4. CASE Refill(c)
    BY <2>4, RefillKeeps
  <2>5. CASE Invalidate(c)
    BY <2>5, InvalidateKeeps
  <2>6. CASE InvalidateFails(c)
    BY <2>6, InvalidateFailsKeeps
  <2>7. CASE LookupPair(c)
    BY <2>7, LookupKeeps
  <2>8. CASE \E r \in RoomIds : InsertRoom(c, r)
    BY <2>8, InsertKeeps
  <2>9. CASE TellCreated(c)
    BY <2>9, TellCreatedKeeps
  <2>10. CASE SendMessage(c)
    BY <2>10, SendKeeps
  <2>11. CASE PinRoom(c) \/ MuteRoom(c) \/ BlockUser(c)
    <3>1. Toggle(c)
      BY <2>11 DEF PinRoom, MuteRoom, BlockUser
    <3> QED BY <3>1, ToggleKeeps
  <2>12. CASE UpdateRoom(c)
    BY <2>12, UpdateRoomKeeps
  <2>13. CASE UpdateRole(c)
    BY <2>13, UpdateRoleKeeps
  <2>14. CASE AddReads(c)
    BY <2>14, AddReadsKeeps
  <2>15. CASE AddWrites(c)
    BY <2>15, AddWritesKeeps
  <2>16. CASE TellAdded(c)
    BY <2>16, TellAddedKeeps
  <2>17. CASE TellSome(c)
    BY <2>17, TellSomeKeeps
  <2>18. CASE TellUpdated(c)
    BY <2>18, TellUpdatedKeeps
  <2>19. CASE Leave(c)
    BY <2>19, LeaveKeeps
  <2>20. CASE ListParticipants(c)
    BY <2>20, ListKeeps
  <2>21. CASE SelectMembers(c)
    BY <2>21, SelectKeeps
  <2>22. CASE RemoveMembers(c)
    BY <2>22, RemoveMembersKeeps
  <2>23. CASE Unsubscribe(c)
    BY <2>23, UnsubscribeKeeps
  <2>24. CASE CloseRoom(c)
    BY <2>24, CloseRoomKeeps
  <2>25. CASE ClearRoom(c)
    BY <2>25, ClearRoomKeeps
  <2>26. CASE TellLeft(c)
    BY <2>26, TellLeftKeeps
  <2> QED BY <1>3, <2>1, <2>2, <2>3, <2>4, <2>5, <2>6, <2>7, <2>8, <2>9, <2>10, <2>11, <2>12,
             <2>13, <2>14, <2>15, <2>16, <2>17, <2>18, <2>19, <2>20, <2>21, <2>22, <2>23,
             <2>24, <2>25, <2>26 DEF Step
<1> QED BY <1>1, <1>2, <1>3 DEF Next

\* The inductive invariant holds in every reachable state of Rooms.
THEOREM Invariance == Spec => []IInv
BY InitInv, StepKeeps, PTL DEF Spec

\* Rooms, members, cached views, subscriptions and requests always have their shape (the tables
\* of the first migration and the handlers of chatHandlerImpl).
THEOREM TypeCorrect == Spec => []TypeOK
<1>1. IInv => TypeOK
  BY DEF IInv
<1> QED BY <1>1, Invariance, PTL

\* Two users never have two open p2p rooms, unless a CreateRoom for them ran while another one was
\* between its lookup and its INSERT.
THEOREM PairsHaveOneRoom == Spec => []PairHasOneRoom
<1>1. IInv => PairHasOneRoom
  BY DEF IInv
<1> QED BY <1>1, Invariance, PTL

\* No request under way announces anything to a user with whom none is busy.
LEMMA QuietForm ==
  ASSUME IInv, NEW r \in RoomIds, NEW u \in Users, ~Busy(r, u), <<r, u>> \notin muddled
  PROVE  /\ Told(r, u) /\ Follows(r, u)
         /\ \A c \in Callers : call[c].room = r => ~Announces(c, u) /\ ~Subscribes(c, u)
<1>1. Told(r, u) /\ Follows(r, u)
  BY DEF IInv, Clear
<1>2. ASSUME NEW c \in Callers, call[c].room = r PROVE ~Announces(c, u) /\ ~Subscribes(c, u)
  <2>1. call[c].pc = "idle" \/ u \notin Concerned(c)
    BY <1>2 DEF Busy, At
  <2> QED BY <2>1, Unconcerned DEF IInv
<1> QED BY <1>1, <1>2

\* The last event a user was sent about a room says that they joined exactly if they are a member,
\* when no handler is busy with them: CreateRoom, AddParticipantToRoom and LeaveRoom tell everybody
\* whose membership they change, apart from those of overlapping or failed requests.
THEOREM MembersAreTold == Spec => []MembersWereTold
<1>1. IInv => MembersWereTold
  BY QuietForm DEF MembersWereTold, Told
<1> QED BY <1>1, Invariance, PTL

\* The subscribers of a group's topic are the members who have not muted it, when no handler is busy
\* with them; apart from overlapping or failed requests, from those who were added again while muted
\* and from those who unmuted on a cached view that outlived their membership.
THEOREM TopicsFollowMutes == Spec => []TopicFollowsMutes
<1>1. IInv => TopicFollowsMutes
  BY QuietForm DEF TopicFollowsMutes, Follows
<1> QED BY <1>1, Invariance, PTL

\* A handler that is about to change a room, or to speak in it, has the membership, the role and the
\* permissions that the checks ask for, unless the row changed after GetRoom read it or the cached
\* view
\* was suspect or about to be deleted.
THEOREM HandlersActWithinRights == Spec => []ActsWithinRights
<1>1. ASSUME IInv PROVE ActsWithinRights
  <2>1. SUFFICES ASSUME NEW c \in Callers, At(c, "act"), ~Outdated(c)
        PROVE  ViewOf(call[c].room, call[c].user) # NoView
               /\ May(call[c], ViewOf(call[c].room, call[c].user))
    BY DEF ActsWithinRights
  <2>2. Shape(c) /\ Current(c) /\ call[c].pc = "act"
    BY <1>1, <2>1 DEF IInv, CallShape, CallCurrent, At
  <2>3. May(call[c], call[c].view) /\ call[c].view.type \in Types
    <3> HIDE DEF May
    <3>1. call[c].op \notin {"none", "create"}
      BY <2>2, SMT DEF Shape
    <3> QED BY <2>2, <3>1, SMT DEF Shape
  <2>4. call[c].view # NoView
    BY <2>3, NoForms, SMT DEF Types
  <2>5. ViewOf(call[c].room, call[c].user) = call[c].view
    BY <2>1, <2>2, <2>4 DEF Current, Outdated
  <2> QED BY <2>3, <2>4, <2>5
<1>2. IInv => ActsWithinRights
  BY <1>1
<1> QED BY <1>2, Invariance, PTL

\* The view of a toggle that is not outdated has the flags of the row, which it then turns.
LEMMA ToggleForm ==
  ASSUME IInv, NEW c \in Callers, Toggle(c), ~Outdated(c)
  PROVE  call[c].what \in row[call[c].room][call[c].user].flags <=>
           call[c].what \notin row'[call[c].room][call[c].user].flags
<1> DEFINE f == call[c].what
           r == call[c].room
           u == call[c].user
           F == (row[r][u].flags \ {f}) \cup Toggled(c)
<1>1. TypeOK /\ Shape(c) /\ Current(c) /\ call[c].pc = "act" /\ call[c].op = "toggle"
  BY DEF IInv, CallShape, CallCurrent, Toggle, At
<1>2. r \in RoomIds /\ u \in Users /\ f \in Flags /\ call[c].view.type \in Types
  BY <1>1, SMT DEF Shape
<1>3. row[r][u] \in Member /\ row[r][u].flags \in SUBSET Flags
  <2>1. row[r][u] \in Member
    BY <1>1, <1>2 DEF TypeOK
  <2> QED BY <2>1, Zenon DEF Member
<1>4. call[c].view # NoView
  BY <1>2, NoForms, SMT DEF Types
<1>5. ViewOf(r, u) = call[c].view
  BY <1>1, <1>4 DEF Current, Outdated
<1>6. call[c].view.flags = row[r][u].flags
  BY <1>4, <1>5 DEF ViewOf, Seen
<1>7. F \in SUBSET Flags /\ (f \in F <=> f \notin row[r][u].flags)
  BY <1>2, <1>3, <1>6 DEF Toggled
<1>8. row' = [row EXCEPT ![r][u] = [row[r][u] EXCEPT !.flags = F]]
  BY <1>1, <1>2 DEF Toggle, TypeOK
<1> HIDE DEF F
<1>9. row'[r][u] = [row[r][u] EXCEPT !.flags = F]
  BY <1>1, <1>2, <1>8 DEF TypeOK
<1>10. row'[r][u].flags = F
  BY <1>3, <1>7, <1>9, MemberForms
<1> QED BY <1>7, <1>10

\* PinRoom, MuteRoom and BlockUser turn the flag that is stored and never set it to what it was,
\* unless the row changed after it was read or the view was suspect or about to be deleted.
THEOREM TogglesAlwaysTurn == Spec => TogglesTurn
<1>1. ASSUME IInv, [Next]_vars
      PROVE  [\A c \in Callers :
                Toggle(c) /\ ~Outdated(c) =>
                  LET f == call[c].what
                      x == row[call[c].room][call[c].user].flags
                  IN f \in x <=> f \notin row'[call[c].room][call[c].user].flags]_vars
  BY <1>1, ToggleForm
<1> QED BY <1>1, Invariance, PTL DEF Spec, TogglesTurn
==============================================================================
