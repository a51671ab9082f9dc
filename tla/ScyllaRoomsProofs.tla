--------------------------- MODULE ScyllaRoomsProofs ---------------------------
(***************************************************************************)
(* The ScyllaDB repository, for every number of users, rooms, messages,     *)
(* callers and requests: its types, that a room is once in the list of each *)
(* of its users, that its tables agree, that what was read stays read and   *)
(* that a pair is led to its room.  IInv is the inductive invariant: what a *)
(* request has yet to write is right for the tables as they are, or the     *)
(* history has marked the membership, the message or the pair.  A lemma for *)
(* each action shows that it keeps IInv.                                    *)
(***************************************************************************)
EXTENDS ScyllaRooms, TLAPS

\* A request: the steps its operation takes, and what it knows by then.
Shape(c) ==
  LET x == call[c]
  IN /\ x.pc = "idle" <=> x.op = "none"
     /\ x.pc \in {"idle", "make"} => x.room = NoRoom
     /\ x.pc \notin {"idle", "make"} => x.room \in Rooms /\ details[x.room] # "fresh"
     /\ x.pc = "make" => /\ x.op = "create" /\ x.user \in Users /\ x.subject \in Users
                         /\ x.user # x.subject /\ x.to = {x.user, x.subject}
     /\ x.op = "create" => x.pc = "make"
     /\ x.pc = "list" => x.op \in {"save", "close"} /\ x.to = {}
     /\ x.pc = "find" => x.op \in {"save", "pin", "mute", "role", "leave", "close"}
     /\ x.pc \in {"copy", "move"} => x.op \in {"save", "pin"} /\ x.key.at \in Time
     /\ x.pc = "set" => x.op \in {"mute", "role"} /\ x.key.at \in Time
     /\ x.pc = "drop" => x.op \in {"leave", "close"} /\ x.subject \in x.to
     /\ x.pc = "status" => x.op = "save"
     /\ x.pc = "add" => x.op = "add"
     /\ x.pc = "edit" => x.op = "edit"
     /\ x.op \in {"add", "edit"} => details[x.room] # "p2p"
     /\ x.op \in {"leave", "close"} => x.todo \subseteq x.to
     /\ x.op = "save" => x.msg \in Messages
     /\ x.pc \in {"copy", "move", "set", "drop"} \/ x.op \in {"pin", "mute", "role"} =>
          x.subject \in Users
CallShape == \A c \in Callers : Shape(c)

\* Whatever a row holds is not half there.
TableShape ==
  /\ \A u \in Users, r \in Rooms : /\ lookup[u][r].at \in Time \/ lookup[u][r] = NoKey
                                   /\ ~part[r][u].in => part[r][u] = NoPart
  /\ \A m \in Messages : msg[m] = NoRoom => receipt[m] = {}

\* Nobody has a room that CreateRoom has not made.
FreshShape ==
  \A r \in Rooms : details[r] = "fresh" =>
    /\ \A u \in Users : lookup[u][r] = NoKey /\ ~part[r][u].in
    /\ \A x \in rows : x.room # r
    /\ \A p \in Users \X Users : pair[p] # r

\* The rows of a member; one who is still a participant and has none is being removed.
Own(u, r)       == {x \in rows : x.user = u /\ x.room = r}
Leaves(c, u, r) == call[c].room = r /\ call[c].op \in {"leave", "close"} /\ u \in call[c].to
Kept(u, r) ==
  <<u, r>> \notin tangled =>
    /\ \A y \in Own(u, r) : /\ y.key = lookup[u][r] /\ y.key # NoKey
                            /\ y.role = part[r][u].role /\ y.muted = part[r][u].muted
    /\ lookup[u][r] # NoKey => Own(u, r) # {} /\ part[r][u].in
    /\ part[r][u].in /\ lookup[u][r] = NoKey => \E c \in Callers : Leaves(c, u, r)

\* SaveMessage writes over no read status unnoticed.
Writes(c, u) == call[c].op = "save" /\ (At(c, "status") => u \in call[c].todo)
ReadsKept ==
  \A c \in Callers, u \in Users :
    Writes(c, u) /\ u \in receipt[call[c].msg] => <<call[c].msg, u>> \in overtaken

\* A p2p room has only ever had two users, who are led to it.
Touches(c, u, r) ==
  call[c].room = r /\ call[c].pc \in {"copy", "move", "set"} /\ call[c].subject = u
Has(u, r) == part[r][u].in \/ lookup[u][r] # NoKey \/ \E c \in Callers : Touches(c, u, r)
IsPair(r, a, b) ==
  /\ a < b /\ \A u \in Users : Has(u, r) => u \in {a, b}
  /\ pair[<<a, b>>] = r \/ {a, b} \in twins
Paired == \A r \in Rooms : details[r] = "p2p" => \E a, b \in Users : IsPair(r, a, b)

\* A CreateRoom that found no room of its pair still finds none, unless it was overtaken.
Alone(c) ==
  At(c, "make") => \/ pair[sortUserIDs(call[c].user, call[c].subject)] = NoRoom
                   \/ call[c].to \in twins
StillNone == \A c \in Callers : Alone(c)

\* The inductive invariant.
IInv ==
  /\ TypeOK /\ CallShape /\ TableShape /\ FreshShape /\ ReadsKept /\ ReadStaysRead
  /\ Paired /\ StillNone
  /\ \A u \in Users, r \in Rooms : Kept(u, r)
------------------------------------------------------------------------------
\* What a field of a request can be set to.
LEMMA FieldForms ==
  ASSUME NEW x \in Call
  PROVE  /\ \A v \in Pc : [x EXCEPT !.pc = v] \in Call
         /\ \A v \in Ops : [x EXCEPT !.op = v] \in Call
         /\ \A v \in Users : [x EXCEPT !.user = v] \in Call
         /\ \A v \in Rooms : [x EXCEPT !.room = v] \in Call
         /\ \A v \in SUBSET Users : [x EXCEPT !.to = v] \in Call /\ [x EXCEPT !.todo = v] \in Call
         /\ \A v \in Users \cup {0} : [x EXCEPT !.subject = v] \in Call
         /\ \A v \in BOOLEAN : [x EXCEPT !.on = v] \in Call /\ [x EXCEPT !.all = v] \in Call
         /\ \A v \in Roles : [x EXCEPT !.role = v] \in Call
         /\ \A v \in Time : [x EXCEPT !.at = v] \in Call
         /\ \A v \in Messages : [x EXCEPT !.msg = v] \in Call
         /\ \A v \in Key : [x EXCEPT !.key = v] \in Call
         /\ \A v \in Copy : [x EXCEPT !.copy = v] \in Call
<1>1. \A v \in Pc : [x EXCEPT !.pc = v] \in Call
  BY Zenon DEF Call
<1>2. \A v \in Ops : [x EXCEPT !.op = v] \in Call
  BY Zenon DEF Call
<1>3. \A v \in Users : [x EXCEPT !.user = v] \in Call
  <2>1. \A v \in Users \cup {0} : [x EXCEPT !.user = v] \in Call
    BY Zenon DEF Call
  <2> QED BY <2>1
<1>4. \A v \in Rooms : [x EXCEPT !.room = v] \in Call
  <2>1. \A v \in Rooms \cup {NoRoom} : [x EXCEPT !.room = v] \in Call
    BY Zenon DEF Call
  <2> QED BY <2>1
<1>5. \A v \in SUBSET Users : [x EXCEPT !.to = v] \in Call
  BY Zenon DEF Call
<1>6. \A v \in SUBSET Users : [x EXCEPT !.todo = v] \in Call
  BY Zenon DEF Call
<1>7. \A v \in Users \cup {0} : [x EXCEPT !.subject = v] \in Call
  BY Zenon DEF Call
<1>8. \A v \in BOOLEAN : [x EXCEPT !.on = v] \in Call
  BY Zenon DEF Call
<1>9. \A v \in BOOLEAN : [x EXCEPT !.all = v] \in Call
  BY Zenon DEF Call
<1>10. \A v \in Roles : [x EXCEPT !.role = v] \in Call
  BY Zenon DEF Call
<1>11. \A v \in Time : [x EXCEPT !.at = v] \in Call
  BY Zenon DEF Call
<1>12. \A v \in Messages : [x EXCEPT !.msg = v] \in Call
  <2>1. \A v \in Messages \cup {NoMessage} : [x EXCEPT !.msg = v] \in Call
    BY Zenon DEF Call
  <2> QED BY <2>1
<1>13. \A v \in Key : [x EXCEPT !.key = v] \in Call
  BY Zenon DEF Call
<1>14. \A v \in Copy : [x EXCEPT !.copy = v] \in Call
  BY Zenon DEF Call
<1> QED BY <1>1, <1>2, <1>3, <1>4, <1>5, <1>6, <1>7, <1>8, <1>9, <1>10, <1>11, <1>12, <1>13,
           <1>14, Zenon

\* What is there when there is nothing.
LEMMA NoForms ==
  /\ NoKey \in Key /\ NoKey.at = -1 /\ NoPart \in Part /\ NoPart.in = FALSE
  /\ NoPart.role = "" /\ NoPart.muted = FALSE /\ NoCopy \in Copy
  /\ NoCall \in Call /\ NoCall.pc = "idle" /\ NoCall.op = "none" /\ NoCall.room = NoRoom
  /\ NoCall.to = {} /\ NoCall.todo = {} /\ NoCall.subject = 0 /\ NoCall.user = 0
<1>1. NoKey \in Key
  <2>1. -1 \in Time \cup {-1}
    OBVIOUS
  <2> QED BY <2>1, Zenon DEF NoKey, Key
<1>2. NoKey.at = -1
  BY SMT DEF NoKey
<1>3. NoPart \in Part
  <2>1. "" \in Roles
    BY DEF Roles
  <2> QED BY <2>1, Zenon DEF NoPart, Part
<1>4. NoPart.in = FALSE /\ NoPart.role = "" /\ NoPart.muted = FALSE
  BY Zenon DEF NoPart
<1>5. NoCopy \in Copy
  <2>1. "" \in Roles
    BY DEF Roles
  <2> QED BY <2>1, Zenon DEF NoCopy, Copy
<1>6. NoCall \in Call
  <2>1. "idle" \in Pc /\ "none" \in Ops /\ "" \in Roles /\ 0 \in Time
    BY ScyllaRoomsAssumption, SMT DEF Pc, Ops, Roles, Time
  <2> QED BY <1>1, <1>5, <2>1, Zenon DEF NoCall, Call
<1>7. NoCall.pc = "idle" /\ NoCall.op = "none" /\ NoCall.room = NoRoom
      /\ NoCall.to = {} /\ NoCall.todo = {} /\ NoCall.subject = 0 /\ NoCall.user = 0
  BY SMT DEF NoCall
<1> QED BY <1>1, <1>2, <1>3, <1>4, <1>5, <1>6, <1>7

\* A room that exists does not become a new one, nor one of two.
Onward ==
  \A r \in Rooms : details[r] # "fresh" =>
    details'[r] # "fresh" /\ (details'[r] = "p2p" => details[r] = "p2p")

\* A step that replaces one request leaves the shape of the others.
LEMMA OthersKeep ==
  ASSUME TypeOK, CallShape, NEW c \in Callers, NEW y \in Call,
         call' = [call EXCEPT ![c] = y], Onward, Shape(c)'
  PROVE  /\ call' \in [Callers -> Call] /\ call'[c] = y
         /\ \A d \in Callers \ {c} : call'[d] = call[d]
         /\ CallShape'
<1>1. call \in [Callers -> Call]
  BY DEF TypeOK
<1>2. call' \in [Callers -> Call] /\ call'[c] = y /\ \A d \in Callers \ {c} : call'[d] = call[d]
  BY <1>1, Zenon
<1>3. ASSUME NEW d \in Callers \ {c} PROVE Shape(d)'
  <2>1. call'[d] = call[d] /\ Shape(d)
    BY <1>2 DEF CallShape
  <2> QED BY <2>1, ScyllaRoomsAssumption, SMT DEF Shape, Onward
<1>4. CallShape'
  BY <1>3 DEF CallShape
<1> QED BY <1>2, <1>4

\* What the tables hold of a member stays right when a step leaves it alone, or when the
\* step marks the membership as tangled.
LEMMA KeptKeeps ==
  ASSUME TypeOK, NEW u \in Users, NEW r \in Rooms, NEW c \in Callers, Kept(u, r),
         tangled \subseteq tangled', \A d \in Callers \ {c} : call'[d] = call[d],
         <<u, r>> \notin tangled' =>
           /\ part'[r][u] = part[r][u] /\ lookup'[u][r] = lookup[u][r]
           /\ Own(u, r)' = Own(u, r)
           /\ part[r][u].in /\ lookup[u][r] = NoKey /\ Leaves(c, u, r) => Leaves(c, u, r)'
  PROVE  Kept(u, r)'
<1>1. SUFFICES ASSUME <<u, r>> \notin tangled' PROVE Kept(u, r)'
  BY DEF Kept
<1>2. /\ \A y \in Own(u, r) : /\ y.key = lookup[u][r] /\ y.key # NoKey
                              /\ y.role = part[r][u].role /\ y.muted = part[r][u].muted
      /\ lookup[u][r] # NoKey => Own(u, r) # {} /\ part[r][u].in
      /\ part[r][u].in /\ lookup[u][r] = NoKey => \E d \in Callers : Leaves(d, u, r)
  BY <1>1 DEF Kept
<1>3. \A d \in Callers \ {c} : Leaves(d, u, r) => Leaves(d, u, r)'
  BY DEF Leaves
<1>4. part[r][u].in /\ lookup[u][r] = NoKey => \E d \in Callers : Leaves(d, u, r)'
  BY <1>1, <1>2, <1>3
<1> QED BY <1>1, <1>2, <1>4, Zenon DEF Kept

\* A step that makes no room, of one request, which reads or writes nothing of a receipt.
LEMMA Steady ==
  ASSUME IInv, TypeOK', NEW c \in Callers, NEW y \in Call,
         call' = [call EXCEPT ![c] = y], Onward, UNCHANGED <<pair, twins, receipt, overtaken>>,
         Shape(c)', Alone(c)', TableShape', FreshShape', ReadStaysRead',
         \A u \in Users : Writes(c, u)' => \/ Writes(c, u) /\ y.msg = call[c].msg
                                           \/ receipt[y.msg] = {},
         \A r \in Rooms : details'[r] = "p2p" => details[r] = "p2p",
         \A u \in Users, r \in Rooms : /\ Kept(u, r)'
                                       /\ details[r] = "p2p" /\ Has(u, r)' => Has(u, r)
  PROVE  IInv'
<1>1. /\ call' \in [Callers -> Call] /\ call'[c] = y
      /\ \A d \in Callers \ {c} : call'[d] = call[d]
      /\ CallShape'
  BY OthersKeep DEF IInv
<1>2. ReadsKept'
  <2>1. ASSUME NEW d \in Callers, NEW u \in Users, Writes(d, u)',
               u \in receipt[call'[d].msg]
        PROVE  <<call'[d].msg, u>> \in overtaken
    <3>1. CASE d = c
      <4>1. Writes(c, u) /\ y.msg = call[c].msg
        BY <1>1, <2>1, <3>1
      <4> QED BY <1>1, <2>1, <3>1, <4>1 DEF IInv, ReadsKept
    <3>2. CASE d # c
      <4>1. call'[d] = call[d]
        BY <1>1, <3>2
      <4>2. Writes(d, u)
        BY <2>1, <4>1 DEF Writes, At
      <4> QED BY <2>1, <4>1, <4>2 DEF IInv, ReadsKept
    <3> QED BY <3>1, <3>2
  <2> QED BY <2>1 DEF ReadsKept
<1>3. Paired'
  <2>1. ASSUME NEW r \in Rooms, details'[r] = "p2p"
        PROVE  \E a, b \in Users : IsPair(r, a, b)'
    <3>1. details[r] = "p2p"
      BY <2>1
    <3>2. PICK a \in Users, b \in Users : IsPair(r, a, b)
      BY <3>1 DEF IInv, Paired
    <3>3. IsPair(r, a, b)'
      BY <3>1, <3>2 DEF IsPair
    <3> QED BY <3>3
  <2> QED BY <2>1 DEF Paired
<1>4. StillNone'
  <2>1. ASSUME NEW d \in Callers \ {c} PROVE Alone(d)'
    BY <1>1, <2>1 DEF IInv, StillNone, Alone, At
  <2> QED BY <2>1 DEF StillNone
<1> QED BY <1>1, <1>2, <1>3, <1>4 DEF IInv

\* A step that changes one request only.
LEMMA Quiet ==
  ASSUME IInv, NEW c \in Callers, NEW y \in Call, clock' \in Time,
         call' = [call EXCEPT ![c] = y], UNCHANGED <<details, lists, pair, mail, history>>,
         Shape(c)', Alone(c)',
         \A u \in Users : Writes(c, u)' => Writes(c, u) /\ y.msg = call[c].msg,
         \A u \in Users, r \in Rooms :
           /\ Leaves(c, u, r) => \/ Leaves(c, u, r)'
                                 \/ part[r][u].in => lookup[u][r] # NoKey
                                 \/ <<u, r>> \in tangled
           /\ Touches(c, u, r)' => Has(u, r)
  PROVE  IInv'
<1>1. /\ details' = details /\ part' = part /\ lookup' = lookup /\ rows' = rows /\ pair' = pair
      /\ msg' = msg /\ status' = status /\ receipt' = receipt /\ tangled' = tangled
      /\ twins' = twins /\ overtaken' = overtaken
  BY DEF lists, mail, history
<1>2. Onward
  BY <1>1 DEF Onward
<1>3. /\ call' \in [Callers -> Call] /\ \A d \in Callers \ {c} : call'[d] = call[d]
  BY <1>2, OthersKeep DEF IInv
<1>4. TypeOK'
  BY <1>1, <1>3 DEF IInv, TypeOK
<1>5. TableShape' /\ FreshShape' /\ ReadStaysRead'
  BY <1>1 DEF IInv, TableShape, FreshShape, ReadStaysRead
<1>6. ASSUME NEW u \in Users, NEW r \in Rooms PROVE Kept(u, r)'
  <2>1. Own(u, r)' = Own(u, r)
    BY <1>1 DEF Own
  <2> QED BY <1>1, <1>3, <2>1, KeptKeeps DEF IInv
<1>7. ASSUME NEW u \in Users, NEW r \in Rooms, Has(u, r)' PROVE Has(u, r)
  <2>1. \A d \in Callers \ {c} : Touches(d, u, r)' => Touches(d, u, r)
    BY <1>3 DEF Touches
  <2> QED BY <1>1, <1>7, <2>1 DEF Has
<1> QED BY <1>1, <1>2, <1>4, <1>5, <1>6, <1>7, Steady

\* A request that has ended writes nothing, touches nobody and removes nobody.
LEMMA NothingAsked ==
  ASSUME NEW c \in Callers, call'[c] = NoCall
  PROVE  /\ Shape(c)' /\ Alone(c)'
         /\ \A u \in Users : /\ ~Writes(c, u)'
                             /\ \A r \in Rooms : ~Leaves(c, u, r)' /\ ~Touches(c, u, r)'
<1>1. Shape(c)'
  <2>1. call'[c].pc = "idle" /\ call'[c].op = "none" /\ call'[c].room = NoRoom
    BY NoForms
  <2> QED BY <2>1, SMT DEF Shape
<1>2. Alone(c)'
  BY NoForms DEF Alone, At
<1>3. \A u \in Users : /\ ~Writes(c, u)'
                       /\ \A r \in Rooms : ~Leaves(c, u, r)' /\ ~Touches(c, u, r)'
  BY NoForms DEF Writes, Leaves, Touches
<1> QED BY <1>1, <1>2, <1>3

\* SaveMessage is done.
LEMMA EndSaveKeeps ==
  ASSUME IInv, NEW c \in Callers, EndSave(c)
  PROVE  IInv'
<1>1. /\ call[c].pc = "status" /\ call' = [call EXCEPT ![c] = NoCall] /\ clock' = clock
      /\ UNCHANGED <<details, lists, pair, mail, history>>
  BY DEF EndSave, End, At
<1>2. call'[c] = NoCall
  BY <1>1 DEF IInv, TypeOK
<1>3. call[c].op = "save" /\ clock \in Time
  BY <1>1 DEF IInv, CallShape, Shape, TypeOK
<1>4. \A u \in Users, r \in Rooms : ~Leaves(c, u, r)
  BY <1>3 DEF Leaves
<1>5. /\ Shape(c)' /\ Alone(c)'
      /\ \A u \in Users : /\ ~Writes(c, u)'
                             /\ \A r \in Rooms : ~Leaves(c, u, r)' /\ ~Touches(c, u, r)'
  BY <1>2, NothingAsked
<1>6. \A u \in Users : Writes(c, u)' => Writes(c, u) /\ NoCall.msg = call[c].msg
  BY <1>5, NothingAsked
<1> QED BY <1>1, <1>3, <1>4, <1>5, <1>6, NoForms, Quiet

\* The next user of the loop: the request is the same but for what it has read.
LEMMA Next1Form ==
  ASSUME NEW c \in Callers, call[c] \in Call
  PROVE  /\ Next1(c) \in Call /\ Next1(c).pc = "find" /\ Next1(c).op = call[c].op
         /\ Next1(c).user = call[c].user /\ Next1(c).room = call[c].room
         /\ Next1(c).to = call[c].to /\ Next1(c).todo = call[c].todo
         /\ Next1(c).msg = call[c].msg /\ Next1(c).subject = 0
<1> DEFINE y1 == [call[c] EXCEPT !.pc = "find"]
           y2 == [y1 EXCEPT !.subject = 0]
           y3 == [y2 EXCEPT !.key = NoKey]
           y4 == [y3 EXCEPT !.copy = NoCopy]
<1>1. y1 \in Call
  BY FieldForms DEF Pc
<1>2. y2 \in Call
  <2>1. 0 \in Users \cup {0}
    OBVIOUS
  <2> QED BY <1>1, <2>1, FieldForms
<1>3. y3 \in Call
  BY <1>2, FieldForms, NoForms
<1>4. y4 \in Call
  BY <1>3, FieldForms, NoForms
<1>5. Next1(c) = y4
  BY DEF Next1
<1>6. /\ y4.pc = "find" /\ y4.op = call[c].op
      /\ y4.user = call[c].user /\ y4.room = call[c].room
      /\ y4.to = call[c].to /\ y4.todo = call[c].todo
      /\ y4.msg = call[c].msg /\ y4.subject = 0
  BY SMT DEF Call
<1> QED BY <1>4, <1>5, <1>6

\* The batch fails and the loop goes on: the member is still among those who leave.
LEMMA DropFailsKeeps ==
  ASSUME IInv, NEW c \in Callers, DropFails(c)
  PROVE  IInv'
<1>1. /\ call[c].pc = "drop" /\ call' = [call EXCEPT ![c] = Next1(c)] /\ clock' = clock
      /\ UNCHANGED <<details, lists, pair, mail, history>>
  BY DEF DropFails, At
<1>2. call'[c] = Next1(c) /\ call[c] \in Call /\ clock \in Time /\ details' = details
  BY <1>1 DEF IInv, TypeOK
<1>3. Shape(c) /\ call[c].op \in {"leave", "close"}
  BY <1>1 DEF IInv, CallShape, Shape
<1> DEFINE y == Next1(c)
<1>4. /\ y \in Call /\ y.pc = "find" /\ y.op = call[c].op
      /\ y.room = call[c].room /\ y.to = call[c].to /\ y.todo = call[c].todo
  BY <1>2, Next1Form
<1> HIDE DEF y
<1>5. Shape(c)' /\ Alone(c)'
  BY <1>1, <1>2, <1>3, <1>4, SMT DEF Shape, Alone, At, y
<1>6. \A u \in Users : ~Writes(c, u)' /\ \A r \in Rooms : ~Touches(c, u, r)'
  BY <1>2, <1>3, <1>4 DEF Writes, Touches, y
<1>7. \A u \in Users, r \in Rooms : Leaves(c, u, r) => Leaves(c, u, r)'
  BY <1>2, <1>4 DEF Leaves, y
<1> QED BY <1>1, <1>2, <1>4, <1>5, <1>6, <1>7, Quiet DEF y

\* SaveMessage goes on with the statuses, of which it has written none.
LEMMA StartStatusKeeps ==
  ASSUME IInv, NEW c \in Callers, StartStatus(c)
  PROVE  IInv'
<1> DEFINE y1 == [call[c] EXCEPT !.todo = call[c].to]
           y == [y1 EXCEPT !.pc = "status"]
<1>1. call \in [Callers -> Call] /\ call[c] \in Call /\ clock \in Time /\ Shape(c)
  BY DEF IInv, TypeOK, CallShape
<1>2. /\ call[c].pc = "find" /\ call[c].op = "save" /\ clock' = clock /\ details' = details
      /\ UNCHANGED <<details, lists, pair, mail, history>>
  BY DEF StartStatus, At
<1>3. call[c].to \in SUBSET Users
  BY <1>1, Zenon DEF Call
<1>4. y1 \in Call
  BY <1>1, <1>3, FieldForms
<1>5. y \in Call
  BY <1>4, FieldForms DEF Pc
<1>6. call' = [call EXCEPT ![c] = y]
  BY <1>1 DEF StartStatus
<1>7. /\ y.pc = "status" /\ y.op = call[c].op /\ y.room = call[c].room /\ y.to = call[c].to
      /\ y.msg = call[c].msg
  BY SMT DEF Call
<1>8. call'[c] = y
  BY <1>1, <1>6
<1> HIDE DEF y
<1>9. Shape(c)' /\ Alone(c)'
  BY <1>1, <1>2, <1>7, <1>8, SMT DEF Shape, Alone, At
<1>10. \A u \in Users : Writes(c, u)
  BY <1>2 DEF Writes, At
<1>11. \A u \in Users, r \in Rooms : ~Touches(c, u, r)' /\ ~Leaves(c, u, r)
  BY <1>2, <1>7, <1>8 DEF Touches, Leaves
<1> QED BY <1>1, <1>2, <1>5, <1>6, <1>7, <1>9, <1>10, <1>11, Quiet

\* SaveMessage and DeleteRoom read the participants.
LEMMA ListParticipantsKeeps ==
  ASSUME IInv, NEW c \in Callers, ListParticipants(c)
  PROVE  IInv'
<1> DEFINE P == GetRoomParticipants(call[c].room)
           y1 == [call[c] EXCEPT !.to = P]
           y2 == [y1 EXCEPT !.todo = P]
           y == [y2 EXCEPT !.pc = "find"]
<1>1. call \in [Callers -> Call] /\ call[c] \in Call /\ clock \in Time /\ Shape(c)
  BY DEF IInv, TypeOK, CallShape
<1>2. /\ call[c].pc = "list" /\ clock' = clock /\ details' = details
      /\ UNCHANGED <<details, lists, pair, mail, history>>
  BY DEF ListParticipants, At
<1>3. call[c].op \in {"save", "close"} /\ call[c].to = {}
  BY <1>1, <1>2 DEF Shape
<1>4. P \in SUBSET Users
  BY DEF GetRoomParticipants
<1>5. y1 \in Call
  BY <1>1, <1>4, FieldForms
<1>6. y2 \in Call
  BY <1>4, <1>5, FieldForms
<1>7. y \in Call
  BY <1>6, FieldForms DEF Pc
<1>8. call' = [call EXCEPT ![c] = y]
  BY <1>1 DEF ListParticipants
<1>9. /\ y.pc = "find" /\ y.op = call[c].op /\ y.room = call[c].room /\ y.to = P /\ y.todo = P
      /\ y.msg = call[c].msg
  BY SMT DEF Call
<1>10. call'[c] = y
  BY <1>1, <1>8
<1> HIDE DEF y, P
<1>11. Shape(c)' /\ Alone(c)'
  BY <1>1, <1>2, <1>3, <1>9, <1>10, SMT DEF Shape, Alone, At
<1>12. \A u \in Users : Writes(c, u)' => Writes(c, u)
  BY <1>2, <1>9, <1>10 DEF Writes, At
<1>13. \A u \in Users, r \in Rooms : ~Touches(c, u, r)' /\ ~Leaves(c, u, r)
  BY <1>3, <1>9, <1>10 DEF Touches, Leaves
<1> QED BY <1>1, <1>2, <1>7, <1>8, <1>9, <1>11, <1>12, <1>13, Quiet

\* The row is read with the key that was found.
LEMMA CopyRowKeeps ==
  ASSUME IInv, NEW c \in Callers, CopyRow(c)
  PROVE  IInv'
<1> DEFINE x == call[c]
<1>1. call \in [Callers -> Call] /\ x \in Call /\ clock \in Time /\ Shape(c)
  BY DEF IInv, TypeOK, CallShape
<1>2. /\ x.pc = "copy" /\ clock' = clock /\ details' = details
      /\ UNCHANGED <<details, lists, pair, mail, history>>
  BY DEF CopyRow, At
<1>3. x.op \in {"save", "pin"} /\ x.key.at \in Time /\ x.subject \in Users
  BY <1>1, <1>2 DEF Shape
<1>4. \A u \in Users, r \in Rooms : ~Leaves(c, u, r)
  BY <1>3 DEF Leaves
<1>5. CASE call' = [call EXCEPT ![c] = NoCall]
  <2>1. call'[c] = NoCall
    BY <1>1, <1>5
  <2>2. /\ Shape(c)' /\ Alone(c)'
        /\ \A u \in Users : /\ ~Writes(c, u)'
                             /\ \A r \in Rooms : ~Leaves(c, u, r)' /\ ~Touches(c, u, r)'
    BY <2>1, NothingAsked
  <2> QED BY <1>1, <1>2, <1>4, <1>5, <2>2, NoForms, Quiet
<1>6. CASE x.op = "save" /\ call' = [call EXCEPT ![c] = Next1(c)]
  <2> DEFINE y == Next1(c)
  <2>1. /\ y \in Call /\ y.pc = "find" /\ y.op = x.op /\ y.msg = x.msg
        /\ y.room = x.room /\ y.to = x.to /\ y.todo = x.todo
    BY <1>1, Next1Form
  <2>2. call'[c] = y
    BY <1>1, <1>6
  <2> HIDE DEF y
  <2>3. Shape(c)' /\ Alone(c)'
    BY <1>1, <1>2, <1>3, <1>6, <2>1, <2>2, SMT DEF Shape, Alone, At
  <2>4. \A u \in Users : Writes(c, u) /\ \A r \in Rooms : ~Touches(c, u, r)'
    BY <1>2, <1>6, <2>1, <2>2 DEF Writes, Touches, At
  <2> QED BY <1>1, <1>2, <1>4, <1>6, <2>1, <2>3, <2>4, Quiet DEF y
<1>7. ASSUME NEW z \in RowAt(x.subject, x.room, x.key),
             call' = [call EXCEPT ![c].copy = [role |-> z.role, muted |-> z.muted],
                                  ![c].pc = "move"]
      PROVE  IInv'
  <2> DEFINE k == [role |-> z.role, muted |-> z.muted]
             y1 == [x EXCEPT !.copy = k]
             y == [y1 EXCEPT !.pc = "move"]
  <2>1. k \in Copy
    <3>1. z \in Row
      BY DEF RowAt, GetRoomList, IInv, TypeOK
    <3>2. z.role \in Roles /\ z.muted \in BOOLEAN
      BY <3>1, Zenon DEF Row
    <3> QED BY <3>2, Zenon DEF Copy
  <2>2. y1 \in Call
    BY <1>1, <2>1, FieldForms
  <2>3. y \in Call
    BY <2>2, FieldForms DEF Pc
  <2>4. call' = [call EXCEPT ![c] = y]
    BY <1>1, <1>7
  <2>5. /\ y.pc = "move" /\ y.op = x.op /\ y.room = x.room /\ y.to = x.to /\ y.todo = x.todo
        /\ y.msg = x.msg /\ y.subject = x.subject /\ y.key = x.key
    BY <1>1, SMT DEF Call
  <2>6. call'[c] = y
    BY <1>1, <2>4
  <2> HIDE DEF y
  <2>7. Shape(c)' /\ Alone(c)'
    BY <1>1, <1>2, <1>3, <2>5, <2>6, SMT DEF Shape, Alone, At
  <2>8. \A u \in Users : Writes(c, u)' => Writes(c, u)
    BY <1>2, <2>5, <2>6 DEF Writes, At
  <2>9. \A u \in Users, r \in Rooms : Touches(c, u, r)' => Has(u, r)
    BY <1>2, <2>5, <2>6 DEF Touches, Has
  <2> QED BY <1>1, <1>2, <1>4, <2>3, <2>4, <2>5, <2>7, <2>8, <2>9, Quiet
<1> QED BY <1>5, <1>6, <1>7 DEF CopyRow

\* The key is read from the lookup table: the five ways to go on are apart.
LEMMA FindKeeps ==
  ASSUME IInv, NEW c \in Callers, NEW u \in Users, Find(c, u)
  PROVE  IInv'
<1> DEFINE x == call[c]
           k == lookup[u][x.room]
           z1 == [x EXCEPT !.subject = u]
           z2 == [z1 EXCEPT !.key = k]
           z == [z2 EXCEPT !.todo = x.todo \ {u}]
           zz == [x EXCEPT !.subject = u, !.key = k, !.todo = @ \ {u}]
           w == [x EXCEPT !.todo = x.todo \ {u}]
<1>1. /\ call \in [Callers -> Call] /\ x \in Call /\ clock \in Time /\ Shape(c)
      /\ lookup \in [Users -> [Rooms -> Key]]
  BY DEF IInv, TypeOK, CallShape
<1>2. /\ x.pc = "find" /\ clock' = clock /\ details' = details
      /\ UNCHANGED <<details, lists, pair, mail, history>>
  BY DEF Find, At
<1>3. /\ x.op \in {"save", "pin", "mute", "role", "leave", "close"} /\ x.room \in Rooms
      /\ details[x.room] # "fresh"
      /\ x.op \in {"leave", "close"} => x.todo \subseteq x.to
      /\ x.op = "save" => x.msg \in Messages
      /\ x.op \in {"pin", "mute", "role"} => x.subject \in Users
  BY <1>1, <1>2 DEF Shape
<1>4. u \in IF x.op \in {"save", "leave", "close"} THEN x.todo ELSE {x.subject}
  BY DEF Find
<1>5. k \in Key /\ (k.at \in Time \/ k = NoKey) /\ x.todo \ {u} \in SUBSET Users
  <2>1. x.todo \in SUBSET Users
    BY <1>1, Zenon DEF Call
  <2> QED BY <1>1, <1>3, <2>1 DEF IInv, TableShape
<1> DEFINE d(v) == [v EXCEPT !.pc = "drop"]
           s(v) == [v EXCEPT !.pc = "set"]
           p(v) == [v EXCEPT !.pc = "copy"]
<1>6. call' = [call EXCEPT ![c] =
          CASE x.op \in {"leave", "close"}                     -> d(zz)
            [] x.op = "save" /\ k = NoKey                      -> w
            [] x.op \in {"pin", "mute", "role"} /\ k = NoKey   -> NoCall
            [] x.op \in {"mute", "role"} /\ k # NoKey          -> s(zz)
            [] x.op \in {"save", "pin"} /\ k # NoKey           -> p(zz)]
  BY DEF Find
<1>7. z \in Call
  <2>1. u \in Users \cup {0}
    OBVIOUS
  <2>2. z1 \in Call
    BY <1>1, <2>1, FieldForms
  <2>3. z2 \in Call
    BY <1>5, <2>2, FieldForms
  <2> QED BY <1>5, <2>3, FieldForms
<1>8. zz = z
  BY <1>1, SMT DEF Call
<1>9. /\ z.subject = u /\ z.key = k /\ z.todo = x.todo \ {u} /\ z.op = x.op /\ z.room = x.room
      /\ z.to = x.to /\ z.msg = x.msg /\ z.pc = x.pc
  BY <1>1, SMT DEF Call
<1>10. /\ w \in Call /\ w.pc = "find" /\ w.op = x.op /\ w.room = x.room /\ w.to = x.to
       /\ w.todo = x.todo \ {u} /\ w.msg = x.msg
  <2>1. w \in Call
    BY <1>1, <1>5, FieldForms
  <2> QED BY <1>1, <1>2, <2>1, SMT DEF Call
<1> HIDE DEF z, zz, w, k, d, s, p
<1>11. ASSUME NEW q \in {"drop", "set", "copy"}, call' = [call EXCEPT ![c] = [z EXCEPT !.pc = q]],
              q = "drop" <=> x.op \in {"leave", "close"}, q = "set" => x.op \in {"mute", "role"},
              q = "copy" => x.op \in {"save", "pin"}, q # "drop" => k # NoKey
       PROVE  IInv'
  <2> DEFINE y == [z EXCEPT !.pc = q]
  <2>1. y \in Call
    <3>1. q \in Pc
      BY <1>11 DEF Pc
    <3> QED BY <1>7, <3>1, FieldForms
  <2>2. /\ y.pc = q /\ y.subject = u /\ y.key = k /\ y.todo = x.todo \ {u} /\ y.op = x.op
        /\ y.room = x.room /\ y.to = x.to /\ y.msg = x.msg
    BY <1>7, <1>9, SMT DEF Call
  <2>3. call'[c] = y
    BY <1>1, <1>11
  <2> HIDE DEF y
  <2>4. q # "drop" => k.at \in Time
    BY <1>5, <1>11
  <2>5. q = "drop" => u \in x.to
    <3>1. ASSUME q = "drop" PROVE u \in x.to
      <4>1. x.op \in {"leave", "close"}
        BY <1>11, <3>1
      <4>2. u \in x.todo /\ x.todo \subseteq x.to
        BY <1>3, <1>4, <4>1
      <4> QED BY <4>2
    <3> QED BY <3>1
  <2>6. Shape(c)' /\ Alone(c)'
    <3>1. x.op \in {"leave", "close"} => x.todo \ {u} \subseteq x.to
      BY <1>3
    <3>2. u \in Users /\ x.room # NoRoom /\ call'[c] = y /\ details' = details
      BY <1>2, <1>3, <2>3, ScyllaRoomsAssumption
    <3>3. /\ q \in {"drop", "set", "copy"}
          /\ y.op \in {"save", "pin", "mute", "role", "leave", "close"}
          /\ q = "drop" <=> y.op \in {"leave", "close"}
          /\ q = "set" => y.op \in {"mute", "role"}
          /\ q = "copy" => y.op \in {"save", "pin"}
          /\ y.op \in {"leave", "close"} => y.todo \subseteq y.to
          /\ y.op = "save" => y.msg \in Messages
          /\ q = "drop" => y.subject \in y.to
          /\ q # "drop" => y.key.at \in Time
      BY <1>3, <1>11, <2>2, <2>4, <2>5, <3>1
    <3>4. y.pc = q /\ y.room \in Rooms /\ details[y.room] # "fresh" /\ y.subject \in Users
      BY <1>3, <2>2
    <3> QED BY <3>2, <3>3, <3>4, ScyllaRoomsAssumption, SMT DEF Shape, Alone, At
  <2>7. \A v \in Users : Writes(c, v)' => Writes(c, v)
    BY <1>2, <2>2, <2>3 DEF Writes, At
  <2>8. \A v \in Users, r \in Rooms : /\ Leaves(c, v, r) => Leaves(c, v, r)'
                                      /\ Touches(c, v, r)' => Has(v, r)
    <3>1. \A v \in Users, r \in Rooms : Touches(c, v, r)' => Has(v, r)
      BY <1>11, <2>2, <2>3, SMT DEF Touches, Has, k
    <3>2. \A v \in Users, r \in Rooms : Leaves(c, v, r) => Leaves(c, v, r)'
      BY <2>2, <2>3 DEF Leaves
    <3> QED BY <3>1, <3>2
  <2> QED BY <1>1, <1>2, <1>11, <2>1, <2>2, <2>6, <2>7, <2>8, Quiet DEF y
<1>12. CASE x.op \in {"leave", "close"}
  <2>1. call' = [call EXCEPT ![c] = [z EXCEPT !.pc = "drop"]]
    <3>1. call' = [call EXCEPT ![c] = d(zz)]
      BY <1>6, <1>12
    <3> QED BY <1>8, <3>1 DEF d
  <2> QED BY <1>11, <1>12, <2>1
<1>13. CASE k = NoKey /\ x.op = "save"
  <2>1. x.op \notin {"leave", "close"}
    BY <1>13
  <2>2. call' = [call EXCEPT ![c] = w]
    BY <1>6, <1>13, <2>1, SMT
  <2>3. call'[c] = w
    BY <1>1, <2>2
  <2>4. Shape(c)' /\ Alone(c)'
    BY <1>2, <1>3, <1>10, <1>13, <2>3, SMT DEF Shape, Alone, At
  <2>5. \A v \in Users : Writes(c, v)' => Writes(c, v)
    BY <1>2, <1>10, <2>3 DEF Writes, At
  <2>6. \A v \in Users, r \in Rooms : ~Leaves(c, v, r) /\ ~Touches(c, v, r)'
    BY <1>10, <1>13, <2>3 DEF Touches, Leaves
  <2> QED BY <1>1, <1>2, <1>10, <2>2, <2>4, <2>5, <2>6, Quiet
<1>14. CASE k = NoKey /\ x.op \in {"pin", "mute", "role"}
  <2>1. call' = [call EXCEPT ![c] = NoCall] /\ call'[c] = NoCall
    BY <1>1, <1>6, <1>14
  <2>2. /\ Shape(c)' /\ Alone(c)'
        /\ \A v \in Users : /\ ~Writes(c, v)'
                             /\ \A r \in Rooms : ~Leaves(c, v, r)' /\ ~Touches(c, v, r)'
    BY <2>1, NothingAsked
  <2>3. \A v \in Users, r \in Rooms : ~Leaves(c, v, r)
    BY <1>14 DEF Leaves
  <2> QED BY <1>1, <1>2, <2>1, <2>2, <2>3, NoForms, Quiet
<1>15. CASE k # NoKey /\ x.op \in {"mute", "role"}
  <2>1. call' = [call EXCEPT ![c] = s(zz)]
    BY <1>6, <1>15
  <2>2. call' = [call EXCEPT ![c] = [z EXCEPT !.pc = "set"]]
    BY <1>8, <2>1 DEF s
  <2> QED BY <1>11, <1>15, <2>2
<1>16. CASE k # NoKey /\ x.op \in {"save", "pin"}
  <2>1. call' = [call EXCEPT ![c] = p(zz)]
    BY <1>6, <1>16
  <2>2. call' = [call EXCEPT ![c] = [z EXCEPT !.pc = "copy"]]
    BY <1>8, <2>1 DEF p
  <2> QED BY <1>11, <1>16, <2>2
<1> QED BY <1>3, <1>12, <1>13, <1>14, <1>15, <1>16

\* A request arrives.
LEMMA AskKeeps ==
  ASSUME IInv, NEW c \in Callers, NEW y \in Call, clock' \in Time, Start(c, y),
         UNCHANGED <<details, lists, pair, mail, history>>,
         y.pc # "idle", y.op # "save", Shape(c)', Alone(c)',
         y.pc \notin {"copy", "move", "set"}
  PROVE  IInv'
<1>1. call \in [Callers -> Call] /\ Shape(c)
  BY DEF IInv, TypeOK, CallShape
<1>2. call[c].pc = "idle" /\ call' = [call EXCEPT ![c] = y]
  BY DEF Start, At
<1>3. call'[c] = y
  BY <1>1, <1>2
<1>4. \A u \in Users, r \in Rooms : ~Leaves(c, u, r)
  BY <1>1, <1>2 DEF Shape, Leaves
<1>5. \A u \in Users : ~Writes(c, u)' /\ \A r \in Rooms : ~Touches(c, u, r)'
  BY <1>3 DEF Writes, Touches
<1> QED BY <1>2, <1>4, <1>5, Quiet

\* A request that changes one user's row arrives.
LEMMA ChangeKeeps ==
  ASSUME IInv, NEW c \in Callers, NEW u \in Users, NEW r \in Rooms, NEW x \in Call,
         x.op \in {"pin", "mute", "role"}, x.subject \in Users, Change(c, u, r, x)
  PROVE  IInv'
<1> DEFINE y1 == [x EXCEPT !.user = u]
           y2 == [y1 EXCEPT !.room = r]
           y == [y2 EXCEPT !.pc = "find"]
<1>1. y1 \in Call
  BY FieldForms
<1>2. y2 \in Call
  BY <1>1, FieldForms
<1>3. y \in Call
  BY <1>2, FieldForms DEF Pc
<1>4. Start(c, y)
  BY DEF Change
<1>5. y.pc = "find" /\ y.op = x.op /\ y.room = r /\ y.subject = x.subject
  BY SMT DEF Call
<1>6. details[r] # "fresh" /\ details' = details /\ clock' \in Time
      /\ UNCHANGED <<details, lists, pair, mail, history>>
  BY DEF Change, Exists, IInv, TypeOK
<1>7. call'[c] = y
  BY <1>4 DEF Start, IInv, TypeOK
<1> HIDE DEF y
<1>8. Shape(c)' /\ Alone(c)'
  BY <1>5, <1>6, <1>7, ScyllaRoomsAssumption, SMT DEF Shape, Alone, At
<1> QED BY <1>3, <1>4, <1>5, <1>6, <1>8, AskKeeps

\* PinRoom is asked for.
LEMMA AskPinKeeps ==
  ASSUME IInv, NEW c \in Callers, NEW u \in Users, NEW r \in Rooms, AskPin(c, u, r)
  PROVE  IInv'
<1> DEFINE b == ~lookup[u][r].pin
           x1 == [NoCall EXCEPT !.op = "pin"]
           x2 == [x1 EXCEPT !.subject = u]
           x == [x2 EXCEPT !.on = b]
<1>1. x1 \in Call
  BY NoForms, FieldForms DEF Ops
<1>2. x2 \in Call
  BY <1>1, FieldForms
<1>3. x \in Call
  BY <1>2, FieldForms
<1>4. x.op = "pin" /\ x.subject = u
  <2>1. NoCall \in Call
    BY NoForms
  <2> QED BY <2>1, SMT DEF Call
<1>5. Change(c, u, r, x)
  BY DEF AskPin
<1> QED BY <1>3, <1>4, <1>5, ChangeKeeps

\* MuteRoom is asked for.
LEMMA AskMuteKeeps ==
  ASSUME IInv, NEW c \in Callers, NEW u \in Users, NEW r \in Rooms, AskMute(c, u, r)
  PROVE  IInv'
<1> DEFINE b == \A y \in RowAt(u, r, lookup[u][r]) : ~y.muted
           x1 == [NoCall EXCEPT !.op = "mute"]
           x2 == [x1 EXCEPT !.subject = u]
           x == [x2 EXCEPT !.on = b]
<1>1. x1 \in Call
  BY NoForms, FieldForms DEF Ops
<1>2. x2 \in Call
  BY <1>1, FieldForms
<1>3. x \in Call
  BY <1>2, FieldForms
<1>4. x.op = "mute" /\ x.subject = u
  <2>1. NoCall \in Call
    BY NoForms
  <2> QED BY <2>1, SMT DEF Call
<1>5. Change(c, u, r, x)
  BY DEF AskMute
<1> QED BY <1>3, <1>4, <1>5, ChangeKeeps

\* UpdateParticipantRoom is asked for.
LEMMA AskRoleKeeps ==
  ASSUME IInv, NEW c \in Callers, NEW u \in Users, NEW r \in Rooms, AskRole(c, u, r)
  PROVE  IInv'
<1>1. PICK p \in Users :
        Change(c, u, r, [NoCall EXCEPT !.op = "role", !.subject = p, !.role = "ADMIN"])
  BY DEF AskRole
<1> DEFINE x1 == [NoCall EXCEPT !.op = "role"]
           x2 == [x1 EXCEPT !.subject = p]
           x == [x2 EXCEPT !.role = "ADMIN"]
<1>2. x1 \in Call
  BY NoForms, FieldForms DEF Ops
<1>3. x2 \in Call
  BY <1>2, FieldForms
<1>4. x \in Call
  BY <1>3, FieldForms DEF Roles
<1>5. x.op = "role" /\ x.subject = p
  <2>1. NoCall \in Call
    BY NoForms
  <2> QED BY <2>1, SMT DEF Call
<1> QED BY <1>1, <1>4, <1>5, ChangeKeeps

\* AddParticipantToRoom is asked for.
LEMMA AskAddKeeps ==
  ASSUME IInv, NEW c \in Callers, NEW u \in Users, NEW r \in Rooms, AskAdd(c, u, r)
  PROVE  IInv'
<1>1. PICK to \in SUBSET Users \ {{}} :
        Start(c, [NoCall EXCEPT !.op = "add", !.user = u, !.room = r, !.to = to, !.pc = "add"])
  BY DEF AskAdd
<1> DEFINE y1 == [NoCall EXCEPT !.op = "add"]
           y2 == [y1 EXCEPT !.user = u]
           y3 == [y2 EXCEPT !.room = r]
           y4 == [y3 EXCEPT !.to = to]
           y == [y4 EXCEPT !.pc = "add"]
<1>2. y1 \in Call
  BY NoForms, FieldForms DEF Ops
<1>3. y2 \in Call
  BY <1>2, FieldForms
<1>4. y3 \in Call
  BY <1>3, FieldForms
<1>5. y4 \in Call
  BY <1>4, FieldForms
<1>6. y \in Call
  BY <1>5, FieldForms DEF Pc
<1>7. y.op = "add" /\ y.pc = "add" /\ y.room = r
  <2>1. NoCall \in Call
    BY NoForms
  <2> QED BY <2>1, SMT DEF Call
<1>8. /\ details[r] = "group" /\ details' = details /\ clock' \in Time
      /\ UNCHANGED <<details, lists, pair, mail, history>>
  BY DEF AskAdd, IInv, TypeOK
<1>9. Start(c, y)
  BY <1>1
<1>10. call'[c] = y
  BY <1>9 DEF Start, IInv, TypeOK
<1> HIDE DEF y
<1>11. Shape(c)' /\ Alone(c)'
  BY <1>7, <1>8, <1>10, ScyllaRoomsAssumption, SMT DEF Shape, Alone, At
<1> QED BY <1>6, <1>7, <1>8, <1>9, <1>11, AskKeeps

\* UpdateRoom is asked for.
LEMMA AskEditKeeps ==
  ASSUME IInv, NEW c \in Callers, NEW u \in Users, NEW r \in Rooms, AskEdit(c, u, r)
  PROVE  IInv'
<1> DEFINE y1 == [NoCall EXCEPT !.op = "edit"]
           y2 == [y1 EXCEPT !.user = u]
           y3 == [y2 EXCEPT !.room = r]
           y == [y3 EXCEPT !.pc = "edit"]
<1>1. y1 \in Call
  BY NoForms, FieldForms DEF Ops
<1>2. y2 \in Call
  BY <1>1, FieldForms
<1>3. y3 \in Call
  BY <1>2, FieldForms
<1>4. y \in Call
  BY <1>3, FieldForms DEF Pc
<1>5. y.op = "edit" /\ y.pc = "edit" /\ y.room = r
  <2>1. NoCall \in Call
    BY NoForms
  <2> QED BY <2>1, SMT DEF Call
<1>6. /\ details[r] = "group" /\ details' = details /\ clock' \in Time
      /\ UNCHANGED <<details, lists, pair, mail, history>>
  BY DEF AskEdit, IInv, TypeOK
<1>7. Start(c, y)
  BY DEF AskEdit
<1>8. call'[c] = y
  BY <1>7 DEF Start, IInv, TypeOK
<1> HIDE DEF y
<1>9. Shape(c)' /\ Alone(c)'
  BY <1>5, <1>6, <1>8, ScyllaRoomsAssumption, SMT DEF Shape, Alone, At
<1> QED BY <1>4, <1>5, <1>6, <1>7, <1>9, AskKeeps

\* LeaveRoom or DeleteRoom is asked for.
LEMMA AskLeaveKeeps ==
  ASSUME IInv, NEW c \in Callers, NEW u \in Users, NEW r \in Rooms, AskLeave(c, u, r)
  PROVE  IInv'
<1>1. PICK to \in SUBSET Users \ {{}}, all \in BOOLEAN :
        Start(c, [NoCall EXCEPT !.op = "leave", !.user = u, !.room = r, !.to = to,
                                !.todo = to, !.all = all, !.pc = "find"])
  BY DEF AskLeave
<1> DEFINE y1 == [NoCall EXCEPT !.op = "leave"]
           y2 == [y1 EXCEPT !.user = u]
           y3 == [y2 EXCEPT !.room = r]
           y4 == [y3 EXCEPT !.to = to]
           y5 == [y4 EXCEPT !.todo = to]
           y6 == [y5 EXCEPT !.all = all]
           y == [y6 EXCEPT !.pc = "find"]
<1>2. y1 \in Call
  BY NoForms, FieldForms DEF Ops
<1>3. y2 \in Call
  BY <1>2, FieldForms
<1>4. y3 \in Call
  BY <1>3, FieldForms
<1>5. y4 \in Call
  BY <1>4, FieldForms
<1>6. y5 \in Call
  BY <1>5, FieldForms
<1>7. y6 \in Call
  BY <1>6, FieldForms
<1>8. y \in Call
  BY <1>7, FieldForms DEF Pc
<1>9. y.op = "leave" /\ y.pc = "find" /\ y.room = r /\ y.to = to /\ y.todo = to
  <2>1. NoCall \in Call
    BY NoForms
  <2> QED BY <2>1, SMT DEF Call
<1>10. /\ details[r] # "fresh" /\ details' = details /\ clock' \in Time
       /\ UNCHANGED <<details, lists, pair, mail, history>>
  BY DEF AskLeave, Exists, IInv, TypeOK
<1>11. Start(c, y)
  BY <1>1
<1>12. call'[c] = y
  BY <1>11 DEF Start, IInv, TypeOK
<1> HIDE DEF y
<1>13. Shape(c)' /\ Alone(c)'
  BY <1>9, <1>10, <1>12, ScyllaRoomsAssumption, SMT DEF Shape, Alone, At
<1> QED BY <1>8, <1>9, <1>10, <1>11, <1>13, AskKeeps

\* CreateRoom looks for the room of a pair: what it found is still so.
LEMMA LookupPairKeeps ==
  ASSUME IInv, NEW c \in Callers, NEW u \in Users, NEW v \in Users, LookupPair(c, u, v)
  PROVE  IInv'
<1> DEFINE y1 == [NoCall EXCEPT !.op = "create"]
           y2 == [y1 EXCEPT !.user = u]
           y3 == [y2 EXCEPT !.to = {u, v}]
           y4 == [y3 EXCEPT !.subject = v]
           y == [y4 EXCEPT !.pc = "make"]
<1>1. y1 \in Call
  BY NoForms, FieldForms DEF Ops
<1>2. y2 \in Call
  BY <1>1, FieldForms
<1>3. y3 \in Call
  <2>1. {u, v} \in SUBSET Users
    OBVIOUS
  <2> QED BY <1>2, <2>1, FieldForms
<1>4. y4 \in Call
  BY <1>3, FieldForms
<1>5. y \in Call
  BY <1>4, FieldForms DEF Pc
<1>6. y.op = "create" /\ y.pc = "make" /\ y.room = NoRoom /\ y.to = {u, v} /\ y.user = u
      /\ y.subject = v
  <2>1. NoCall \in Call /\ NoCall.room = NoRoom
    BY NoForms
  <2> QED BY <2>1, SMT DEF Call
<1>7. /\ u # v /\ pair[sortUserIDs(u, v)] = NoRoom /\ pair' = pair /\ clock' \in Time
      /\ UNCHANGED <<details, lists, pair, mail, history>>
  BY DEF LookupPair, IInv, TypeOK
<1>8. Start(c, y)
  BY DEF LookupPair
<1>9. call'[c] = y
  BY <1>8 DEF Start, IInv, TypeOK
<1> HIDE DEF y
<1>10. Shape(c)'
  BY <1>6, <1>7, <1>9, SMT DEF Shape
<1>11. Alone(c)'
  <2>1. pair'[sortUserIDs(call'[c].user, call'[c].subject)] = NoRoom
    BY <1>6, <1>7, <1>9
  <2> QED BY <2>1 DEF Alone
<1> QED BY <1>5, <1>6, <1>7, <1>8, <1>10, <1>11, AskKeeps

\* SaveMessage stores the message, which nobody can have read yet.
LEMMA StoreMessageKeeps ==
  ASSUME IInv, NEW c \in Callers, NEW u \in Users, NEW r \in Rooms, NEW m \in Messages,
         NEW t \in Time, StoreMessage(c, u, r, m, t)
  PROVE  IInv'
<1> DEFINE y1 == [NoCall EXCEPT !.op = "save"]
           y2 == [y1 EXCEPT !.user = u]
           y3 == [y2 EXCEPT !.room = r]
           y4 == [y3 EXCEPT !.msg = m]
           y5 == [y4 EXCEPT !.at = t]
           y == [y5 EXCEPT !.pc = "list"]
<1>1. y1 \in Call
  BY NoForms, FieldForms DEF Ops
<1>2. y2 \in Call
  BY <1>1, FieldForms
<1>3. y3 \in Call
  BY <1>2, FieldForms
<1>4. y4 \in Call
  BY <1>3, FieldForms
<1>5. y5 \in Call
  BY <1>4, FieldForms
<1>6. y \in Call
  BY <1>5, FieldForms DEF Pc
<1>7. y.op = "save" /\ y.pc = "list" /\ y.room = r /\ y.msg = m /\ y.to = {}
  <2>1. NoCall \in Call /\ NoCall.to = {}
    BY NoForms
  <2> QED BY <2>1, SMT DEF Call
<1>8. Start(c, y)
  BY DEF StoreMessage
<1>9. /\ details[r] # "fresh" /\ msg[m] = NoRoom /\ msg' = [msg EXCEPT ![m] = r] /\ clock' = t
      /\ details' = details /\ part' = part /\ lookup' = lookup /\ rows' = rows /\ pair' = pair
      /\ status' = status /\ receipt' = receipt /\ tangled' = tangled /\ twins' = twins
      /\ overtaken' = overtaken
  BY DEF StoreMessage, Exists, Now, lists, history
<1>10. /\ call' = [call EXCEPT ![c] = y] /\ call[c].pc = "idle" /\ call \in [Callers -> Call]
       /\ Shape(c) /\ TypeOK
  BY <1>8 DEF Start, At, IInv, TypeOK, CallShape
<1>11. call'[c] = y
  BY <1>10
<1> HIDE DEF y
<1>12. Shape(c)' /\ Alone(c)'
  BY <1>7, <1>9, <1>11, ScyllaRoomsAssumption, SMT DEF Shape, Alone, At
<1>13. Onward
  BY <1>9 DEF Onward
<1>14. TypeOK'
  <2>1. call' \in [Callers -> Call]
    BY <1>6, <1>10
  <2> QED BY <1>9, <1>10, <2>1 DEF TypeOK
<1>15. TableShape' /\ FreshShape' /\ ReadStaysRead'
  <2>1. \A n \in Messages : msg'[n] = NoRoom => msg[n] = NoRoom
    BY <1>9, <1>10, ScyllaRoomsAssumption DEF TypeOK
  <2> QED BY <1>9, <2>1 DEF IInv, TableShape, FreshShape, ReadStaysRead
<1>16. receipt[y.msg] = {}
  BY <1>7, <1>9 DEF IInv, TableShape
<1>17. \A d \in Callers \ {c} : call'[d] = call[d]
  BY <1>10
<1>18. ASSUME NEW v \in Users, NEW q \in Rooms PROVE Kept(v, q)'
  <2>1. Own(v, q)' = Own(v, q)
    BY <1>9 DEF Own
  <2>2. ~Leaves(c, v, q)
    BY <1>10 DEF Shape, Leaves
  <2> QED BY <1>9, <1>10, <1>17, <2>1, <2>2, KeptKeeps DEF IInv
<1>19. ASSUME NEW v \in Users, NEW q \in Rooms, Has(v, q)' PROVE Has(v, q)
  <2>1. \A d \in Callers : Touches(d, v, q)' => Touches(d, v, q)
    BY <1>7, <1>11, <1>17 DEF Touches
  <2> QED BY <1>9, <1>19, <2>1 DEF Has
<1> QED BY <1>6, <1>9, <1>10, <1>12, <1>13, <1>14, <1>15, <1>16, <1>18, <1>19, Steady

\* SaveMessage writes the status of a user, whose receipt is in "overtaken" if there is one.
LEMMA SetStatusKeeps ==
  ASSUME IInv, NEW c \in Callers, NEW u \in Users, SetStatus(c, u)
  PROVE  IInv'
<1> DEFINE x == call[c]
           y == [x EXCEPT !.todo = x.todo \ {u}]
<1>1. /\ call \in [Callers -> Call] /\ x \in Call /\ Shape(c) /\ TypeOK
  BY DEF IInv, TypeOK, CallShape
<1>2. /\ x.pc = "status" /\ u \in x.todo /\ clock' = clock
      /\ status' = [status EXCEPT ![x.msg][u] = Delivered(x, u)]
      /\ details' = details /\ part' = part /\ lookup' = lookup /\ rows' = rows /\ pair' = pair
      /\ msg' = msg /\ receipt' = receipt /\ tangled' = tangled /\ twins' = twins
      /\ overtaken' = overtaken
  BY DEF SetStatus, At, lists, history
<1>3. x.op = "save" /\ x.msg \in Messages
  BY <1>1, <1>2 DEF Shape
<1>4. y \in Call
  <2>1. x.todo \in SUBSET Users
    BY <1>1, Zenon DEF Call
  <2> QED BY <1>1, <2>1, FieldForms
<1>5. call' = [call EXCEPT ![c] = y]
  BY <1>1 DEF SetStatus
<1>6. /\ y.pc = "status" /\ y.op = x.op /\ y.room = x.room /\ y.msg = x.msg
      /\ y.todo = x.todo \ {u}
  BY <1>1, <1>2, SMT DEF Call
<1>7. call'[c] = y /\ \A d \in Callers \ {c} : call'[d] = call[d]
  BY <1>1, <1>5
<1> HIDE DEF y
<1>8. Shape(c)' /\ Alone(c)'
  BY <1>1, <1>2, <1>3, <1>6, <1>7, SMT DEF Shape, Alone, At
<1>9. Onward
  BY <1>2 DEF Onward
<1>10. TypeOK'
  <2>1. call' \in [Callers -> Call]
    BY <1>1, <1>4, <1>5
  <2>2. Delivered(x, u) \in {"none", "SENT", "DELIVERED", "READ"}
    BY DEF Delivered
  <2>3. status' \in [Messages -> [Users -> {"none", "SENT", "DELIVERED", "READ"}]]
    BY <1>1, <1>2, <1>3, <2>2 DEF TypeOK
  <2> QED BY <1>1, <1>2, <2>1, <2>3 DEF TypeOK
<1>11. <<x.msg, u>> \in overtaken \/ u \notin receipt[x.msg]
  <2>1. Writes(c, u)
    BY <1>2, <1>3 DEF Writes
  <2> QED BY <2>1 DEF IInv, ReadsKept
<1>12. ReadStaysRead'
  <2>1. \A n \in Messages, v \in Users : <<n, v>> # <<x.msg, u>> => status'[n][v] = status[n][v]
    BY <1>1, <1>2, <1>3 DEF TypeOK
  <2> QED BY <1>2, <1>11, <2>1 DEF IInv, ReadStaysRead
<1>13. TableShape' /\ FreshShape'
  BY <1>2 DEF IInv, TableShape, FreshShape
<1>14. \A v \in Users : Writes(c, v)' => Writes(c, v)
  BY <1>3, <1>6, <1>7 DEF Writes, At
<1>15. ASSUME NEW v \in Users, NEW q \in Rooms PROVE Kept(v, q)'
  <2>1. Own(v, q)' = Own(v, q)
    BY <1>2 DEF Own
  <2>2. ~Leaves(c, v, q)
    BY <1>3 DEF Leaves
  <2> QED BY <1>1, <1>2, <1>7, <2>1, <2>2, KeptKeeps DEF IInv
<1>16. ASSUME NEW v \in Users, NEW q \in Rooms, Has(v, q)' PROVE Has(v, q)
  <2>1. \A d \in Callers : Touches(d, v, q)' => Touches(d, v, q)
    BY <1>6, <1>7 DEF Touches
  <2> QED BY <1>2, <1>16, <2>1 DEF Has
<1> QED BY <1>2, <1>4, <1>5, <1>6, <1>8, <1>9, <1>10, <1>12, <1>13, <1>14, <1>15, <1>16, Steady

\* UpdateRoom writes the details, and makes no p2p room.
LEMMA UpdateRoomKeeps ==
  ASSUME IInv, NEW c \in Callers, UpdateRoom(c)
  PROVE  IInv'
<1> DEFINE r == call[c].room
<1>1. /\ call \in [Callers -> Call] /\ Shape(c) /\ TypeOK
  BY DEF IInv, TypeOK, CallShape
<1>2. /\ call[c].pc = "edit" /\ call' = [call EXCEPT ![c] = NoCall] /\ clock' = clock
      /\ details' = [details EXCEPT ![r] = IF Exists(r) THEN details[r] ELSE "nameless"]
      /\ part' = part /\ lookup' = lookup /\ rows' = rows /\ pair' = pair
      /\ status' = status /\ msg' = msg /\ receipt' = receipt /\ tangled' = tangled
      /\ twins' = twins /\ overtaken' = overtaken
  BY DEF UpdateRoom, End, At, lists, mail, history
<1>3. r \in Rooms /\ details[r] # "fresh" /\ details[r] # "p2p" /\ call[c].op = "edit"
  BY <1>1, <1>2 DEF Shape
<1>4. /\ details' \in [Rooms -> {"fresh", "p2p", "group", "nameless", "gone"}]
      /\ \A q \in Rooms : /\ details[q] = "fresh" <=> details'[q] = "fresh"
                          /\ details'[q] = "p2p" => details[q] = "p2p"
  BY <1>1, <1>2, <1>3 DEF TypeOK, Exists
<1>5. call'[c] = NoCall /\ \A d \in Callers \ {c} : call'[d] = call[d]
  BY <1>1, <1>2
<1>6. /\ Shape(c)' /\ Alone(c)'
      /\ \A u \in Users : /\ ~Writes(c, u)'
                          /\ \A q \in Rooms : ~Leaves(c, u, q)' /\ ~Touches(c, u, q)'
  BY <1>5, NothingAsked
<1>7. Onward
  BY <1>4 DEF Onward
<1>8. TypeOK'
  <2>1. call' \in [Callers -> Call]
    BY <1>1, <1>2, NoForms
  <2> QED BY <1>1, <1>2, <1>4, <2>1 DEF TypeOK
<1>9. TableShape' /\ FreshShape' /\ ReadStaysRead'
  BY <1>2, <1>4 DEF IInv, TableShape, FreshShape, ReadStaysRead
<1>10. ASSUME NEW v \in Users, NEW q \in Rooms PROVE Kept(v, q)'
  <2>1. Own(v, q)' = Own(v, q)
    BY <1>2 DEF Own
  <2>2. ~Leaves(c, v, q)
    BY <1>3 DEF Leaves
  <2> QED BY <1>1, <1>2, <1>5, <2>1, <2>2, KeptKeeps DEF IInv
<1>11. ASSUME NEW v \in Users, NEW q \in Rooms, Has(v, q)' PROVE Has(v, q)
  <2>1. \A d \in Callers : Touches(d, v, q)' => Touches(d, v, q)
    BY <1>5, <1>6 DEF Touches
  <2> QED BY <1>2, <1>11, <2>1 DEF Has
<1> QED BY <1>2, <1>4, <1>6, <1>7, <1>8, <1>9, <1>10, <1>11, NoForms, Steady

\* MarkMessagesAsRead writes receipt and status at once, and whom it overtakes is marked.
LEMMA MarkAsReadKeeps ==
  ASSUME IInv, NEW u \in Users, NEW r \in Rooms, NEW ids \in SUBSET Messages,
         MarkAsRead(u, r, ids)
  PROVE  IInv'
<1>1. TypeOK /\ clock' = clock
  BY DEF IInv, MarkAsRead
<1>2. /\ \A m \in ids : msg[m] = r
      /\ receipt' = [m \in Messages |-> IF m \in ids THEN receipt[m] \cup {u} ELSE receipt[m]]
      /\ status' = ReadStatus(u, ids) /\ call' = call
      /\ details' = details /\ part' = part /\ lookup' = lookup /\ rows' = rows /\ pair' = pair
      /\ msg' = msg /\ tangled' = tangled /\ twins' = twins
  BY DEF MarkAsRead, lists
<1>3. /\ overtaken \subseteq overtaken'
      /\ \A d \in Callers, n \in ids :
           call[d].op = "save" /\ call[d].msg = n /\ (At(d, "status") => u \in call[d].todo)
             => <<n, u>> \in overtaken'
  BY DEF MarkAsRead
<1>4. \A m \in Messages, v \in Users : /\ m \in ids /\ v = u => status'[m][v] = "READ"
                                       /\ m \notin ids \/ v # u => status'[m][v] = status[m][v]
  BY <1>1, <1>2 DEF ReadStatus, TypeOK
<1>5. TypeOK'
  <2>1. status' \in [Messages -> [Users -> {"none", "SENT", "DELIVERED", "READ"}]]
    BY <1>1, <1>2 DEF ReadStatus, TypeOK
  <2>2. receipt' \in [Messages -> SUBSET Users]
    BY <1>1, <1>2 DEF TypeOK
  <2> QED BY <1>1, <1>2, <2>1, <2>2 DEF TypeOK
<1>6. \A m \in Messages, v \in Users : v \in receipt'[m] => v \in receipt[m] \/ (m \in ids /\ v = u)
  <2>1. receipt' = [m \in Messages |-> IF m \in ids THEN receipt[m] \cup {u} ELSE receipt[m]]
    BY <1>2
  <2>2. \A m \in Messages : receipt'[m] = IF m \in ids THEN receipt[m] \cup {u} ELSE receipt[m]
    BY <2>1, Zenon
  <2> QED BY <2>2
<1>7. ReadStaysRead'
  BY <1>3, <1>4, <1>6 DEF IInv, ReadStaysRead
<1>8. ReadsKept'
  <2>1. ASSUME NEW d \in Callers, NEW v \in Users, Writes(d, v)', v \in receipt'[call[d].msg]
        PROVE  <<call[d].msg, v>> \in overtaken'
    <3>1. Writes(d, v)
      BY <1>2, <2>1 DEF Writes, At
    <3>2. call[d].msg \in Messages
      BY <3>1 DEF IInv, CallShape, Shape, Writes
    <3>3. CASE v \in receipt[call[d].msg]
      BY <1>3, <3>1, <3>3 DEF IInv, ReadsKept
    <3>4. CASE call[d].msg \in ids /\ v = u
      BY <1>3, <3>1, <3>4 DEF Writes
    <3> QED BY <1>6, <2>1, <3>2, <3>3, <3>4
  <2> QED BY <1>2, <2>1 DEF ReadsKept
<1>9. TableShape'
  <2>1. \A m \in Messages : msg[m] = NoRoom => receipt'[m] = {}
    BY <1>2, ScyllaRoomsAssumption DEF IInv, TableShape
  <2> QED BY <1>2, <2>1 DEF IInv, TableShape
<1>10. CallShape' /\ FreshShape' /\ StillNone'
  BY <1>2 DEF IInv, CallShape, Shape, FreshShape, StillNone, Alone, At
<1>11. ASSUME NEW v \in Users, NEW q \in Rooms PROVE Kept(v, q)' /\ Has(v, q)' = Has(v, q)
  <2>1. Own(v, q)' = Own(v, q) /\ \A d \in Callers : /\ Leaves(d, v, q)' = Leaves(d, v, q)
                                                     /\ Touches(d, v, q)' = Touches(d, v, q)
    BY <1>2 DEF Own, Leaves, Touches
  <2>2. Has(v, q)' = Has(v, q)
    BY <1>2, <2>1, Zenon DEF Has
  <2> QED BY <1>2, <2>1, <2>2 DEF Kept, IInv
<1>12. Paired'
  BY <1>2, <1>11 DEF IInv, Paired, IsPair
<1> QED BY <1>5, <1>7, <1>8, <1>9, <1>10, <1>11, <1>12 DEF IInv

\* A key with one column set.
LEMMA KeyForms ==
  ASSUME NEW k \in Key
  PROVE  /\ k.pin \in BOOLEAN /\ k.at \in Time \cup {-1}
         /\ \A v \in Time : [k EXCEPT !.at = v] \in Key /\ [k EXCEPT !.at = v].at = v
         /\ \A b \in BOOLEAN : [k EXCEPT !.pin = b] \in Key /\ [k EXCEPT !.pin = b].at = k.at
<1>1. \A v \in Time \cup {-1} : [k EXCEPT !.at = v] \in Key /\ [k EXCEPT !.at = v].at = v
  BY Zenon DEF Key
<1>2. \A b \in BOOLEAN : [k EXCEPT !.pin = b] \in Key /\ [k EXCEPT !.pin = b].at = k.at
  BY Zenon DEF Key
<1>3. k.pin \in BOOLEAN /\ k.at \in Time \cup {-1}
  BY Zenon DEF Key
<1> QED BY <1>1, <1>2, <1>3

\* A new key is a key, and a real one.
LEMMA NewKeyForms ==
  ASSUME NEW b \in BOOLEAN, NEW v \in Time
  PROVE  /\ [pin |-> b, at |-> v] \in Key /\ [pin |-> b, at |-> v].at = v
         /\ [pin |-> b, at |-> v] # NoKey
<1>1. v \in Time \cup {-1}
  OBVIOUS
<1>2. [pin |-> b, at |-> v] \in Key
  BY <1>1, Zenon DEF Key
<1>3. [pin |-> b, at |-> v].at = v
  OBVIOUS
<1>4. v # -1
  BY ScyllaRoomsAssumption, SMT DEF Time
<1> QED BY <1>2, <1>3, <1>4, NoForms

\* The rows a batch writes.
LEMMA RowForms ==
  ASSUME NEW u \in Users, NEW r \in Rooms, NEW k \in Key, NEW o \in Roles, NEW m \in BOOLEAN
  PROVE  /\ [user |-> u, room |-> r, key |-> k, role |-> o, muted |-> m] \in Row
         /\ [user |-> u, room |-> r, key |-> k, role |-> o, muted |-> m].user = u
         /\ [user |-> u, room |-> r, key |-> k, role |-> o, muted |-> m].room = r
         /\ [user |-> u, room |-> r, key |-> k, role |-> o, muted |-> m].key = k
         /\ [user |-> u, room |-> r, key |-> k, role |-> o, muted |-> m].role = o
         /\ [user |-> u, room |-> r, key |-> k, role |-> o, muted |-> m].muted = m
<1> DEFINE n == [user |-> u, room |-> r, key |-> k, role |-> o, muted |-> m]
<1>1. n \in Row
  BY Zenon DEF Row
<1>2. n.user = u /\ n.room = r /\ n.key = k /\ n.role = o /\ n.muted = m
  BY Zenon
<1> QED BY <1>1, <1>2, Zenon

\* The row of a user who is new in the room.
LEMMA ListingForms ==
  ASSUME NEW u \in Users, NEW r \in Rooms, NEW k \in Key, NEW o \in Roles
  PROVE  /\ Listing(u, r, k, o) \in Row /\ Listing(u, r, k, o).user = u
         /\ Listing(u, r, k, o).room = r /\ Listing(u, r, k, o).key = k
         /\ Listing(u, r, k, o).role = o
<1>1. FALSE \in BOOLEAN
  OBVIOUS
<1> QED BY <1>1, RowForms, Zenon DEF Listing

\* Nobody starts muted in rooms_by_user.
LEMMA ListingMuted ==
  ASSUME NEW u, NEW r, NEW k, NEW o
  PROVE  Listing(u, r, k, o).muted = FALSE
BY Zenon DEF Listing

\* A row of participants_by_room with one column set.
WithMute(p, m) == [p EXCEPT !.in = TRUE, !.muted = m]
WithRole(p, o) == [p EXCEPT !.in = TRUE, !.role = o]

\* A row of participants_by_room whose mute is set.
LEMMA MutedPart ==
  ASSUME NEW p \in Part, NEW m \in BOOLEAN
  PROVE  /\ WithMute(p, m) \in Part /\ WithMute(p, m).in
         /\ WithMute(p, m).muted = m /\ WithMute(p, m).role = p.role
<1> DEFINE q == [p EXCEPT !.in = TRUE]
<1>1. q \in Part /\ q.in = TRUE /\ q.role = p.role
  BY Zenon DEF Part
<1> HIDE DEF q
<1>2. /\ [q EXCEPT !.muted = m] \in Part /\ [q EXCEPT !.muted = m].in = q.in
      /\ [q EXCEPT !.muted = m].muted = m /\ [q EXCEPT !.muted = m].role = q.role
  BY <1>1, Zenon DEF Part
<1>3. WithMute(p, m) = [q EXCEPT !.muted = m]
  BY DEF q, WithMute
<1> QED BY <1>1, <1>2, <1>3, Zenon

\* A row of participants_by_room whose role is set.
LEMMA RolePart ==
  ASSUME NEW p \in Part, NEW o \in Roles
  PROVE  /\ WithRole(p, o) \in Part /\ WithRole(p, o).in
         /\ WithRole(p, o).muted = p.muted /\ WithRole(p, o).role = o
<1> DEFINE q == [p EXCEPT !.in = TRUE]
<1>1. q \in Part /\ q.in = TRUE /\ q.muted = p.muted
  BY Zenon DEF Part
<1> HIDE DEF q
<1>2. /\ [q EXCEPT !.role = o] \in Part /\ [q EXCEPT !.role = o].in = q.in
      /\ [q EXCEPT !.role = o].role = o /\ [q EXCEPT !.role = o].muted = q.muted
  BY <1>1, Zenon DEF Part
<1>3. WithRole(p, o) = [q EXCEPT !.role = o]
  BY DEF q, WithRole
<1> QED BY <1>1, <1>2, <1>3, Zenon

\* The row of a new participant.
LEMMA JoinedForms ==
  ASSUME NEW o \in Roles
  PROVE  Joined(o) \in Part /\ Joined(o).in /\ Joined(o).role = o
<1>1. Joined(o) \in Part
  BY Zenon DEF Joined, Part
<1>2. Joined(o).in /\ Joined(o).role = o
  BY Zenon DEF Joined
<1> QED BY <1>1, <1>2

\* A row of rooms_by_user with one column set.
LEMMA SetInListForms ==
  ASSUME NEW x \in Call, NEW y \in Row
  PROVE  /\ SetInList(x, y) \in Row
         /\ SetInList(x, y).user = y.user /\ SetInList(x, y).room = y.room
         /\ SetInList(x, y).key = y.key
         /\ x.op = "mute" => SetInList(x, y).role = y.role /\ SetInList(x, y).muted = x.on
         /\ x.op # "mute" => SetInList(x, y).role = x.role /\ SetInList(x, y).muted = y.muted
<1>1. x.on \in BOOLEAN /\ x.role \in Roles
  BY Zenon DEF Call
<1>2. CASE x.op = "mute"
  <2>1. SetInList(x, y) = [y EXCEPT !.muted = x.on]
    BY <1>2 DEF SetInList
  <2>2. /\ [y EXCEPT !.muted = x.on] \in Row /\ [y EXCEPT !.muted = x.on].user = y.user
        /\ [y EXCEPT !.muted = x.on].room = y.room /\ [y EXCEPT !.muted = x.on].key = y.key
        /\ [y EXCEPT !.muted = x.on].role = y.role /\ [y EXCEPT !.muted = x.on].muted = x.on
    BY <1>1, Zenon DEF Row
  <2> QED BY <1>2, <2>1, <2>2
<1>3. CASE x.op # "mute"
  <2>1. SetInList(x, y) = [y EXCEPT !.role = x.role]
    BY <1>3 DEF SetInList
  <2>2. /\ [y EXCEPT !.role = x.role] \in Row /\ [y EXCEPT !.role = x.role].user = y.user
        /\ [y EXCEPT !.role = x.role].room = y.room /\ [y EXCEPT !.role = x.role].key = y.key
        /\ [y EXCEPT !.role = x.role].role = x.role /\ [y EXCEPT !.role = x.role].muted = y.muted
    BY <1>1, Zenon DEF Row
  <2> QED BY <1>3, <2>1, <2>2
<1> QED BY <1>2, <1>3

\* Nobody starts muted in participants_by_room.
LEMMA JoinedMuted ==
  ASSUME NEW o
  PROVE  Joined(o).muted = FALSE
BY Zenon DEF Joined

\* Of the tables only what they hold of the room r changes.
OneRoom(c, r) ==
  /\ UNCHANGED <<pair, status, receipt, twins, overtaken>> /\ tangled \subseteq tangled'
  /\ clock' \in Time /\ details' \in [Rooms -> {"fresh", "p2p", "group", "nameless", "gone"}]
  /\ \A q \in Rooms : /\ details[q] = "fresh" <=> details'[q] = "fresh"
                      /\ details'[q] = "p2p" => details[q] = "p2p"
  /\ msg' \in [Messages -> Rooms \cup {NoRoom, Gone}]
  /\ \A m \in Messages : msg'[m] = NoRoom => msg[m] = NoRoom
  /\ part' \in [Rooms -> [Users -> Part]] /\ lookup' \in [Users -> [Rooms -> Key]]
  /\ rows' \subseteq Row /\ \A z \in rows' : z.room # r => z \in rows
  /\ \A u \in Users, q \in Rooms \ {r} :
       /\ part'[q][u] = part[q][u] /\ lookup'[u][q] = lookup[u][q] /\ Own(u, q)' = Own(u, q)
       /\ Leaves(c, u, q) => Leaves(c, u, q)'

\* A step of one request that changes the members of one room only.
LEMMA RoomStep ==
  ASSUME IInv, NEW c \in Callers, NEW y \in Call, NEW r \in Rooms,
         call' = [call EXCEPT ![c] = y], details[r] # "fresh", OneRoom(c, r),
         \A u \in Users : /\ Kept(u, r)'
                          /\ lookup'[u][r].at \in Time \/ lookup'[u][r] = NoKey
                          /\ ~part'[r][u].in => part'[r][u] = NoPart
                          /\ details[r] = "p2p" /\ Has(u, r)' => Has(u, r),
         Shape(c)', Alone(c)',
         \A u \in Users : /\ Writes(c, u)' => Writes(c, u) /\ y.msg = call[c].msg
                          /\ \A q \in Rooms : Touches(c, u, q)' => Touches(c, u, q)
  PROVE  IInv'
<1> USE DEF OneRoom
<1>1. call \in [Callers -> Call] /\ TypeOK
  BY DEF IInv, TypeOK
<1>2. Onward
  BY DEF Onward
<1>3. /\ call' \in [Callers -> Call] /\ call'[c] = y
      /\ \A d \in Callers \ {c} : call'[d] = call[d]
  BY <1>1
<1>4. TypeOK'
  BY <1>1, <1>3 DEF TypeOK
<1>5. TableShape'
  <2>1. ASSUME NEW u \in Users, NEW q \in Rooms
        PROVE  /\ lookup'[u][q].at \in Time \/ lookup'[u][q] = NoKey
               /\ ~part'[q][u].in => part'[q][u] = NoPart
    <3>1. CASE q = r
      BY <3>1
    <3>2. CASE q # r
      <4>1. part'[q][u] = part[q][u] /\ lookup'[u][q] = lookup[u][q]
        BY <3>2
      <4> QED BY <4>1 DEF IInv, TableShape
    <3> QED BY <3>1, <3>2
  <2>2. \A m \in Messages : msg'[m] = NoRoom => receipt'[m] = {}
    BY DEF IInv, TableShape
  <2> QED BY <2>1, <2>2 DEF TableShape
<1>6. FreshShape'
  <2>1. ASSUME NEW q \in Rooms, details'[q] = "fresh"
        PROVE  /\ \A u \in Users : lookup'[u][q] = NoKey /\ ~part'[q][u].in
               /\ \A z \in rows' : z.room # q
               /\ \A p \in Users \X Users : pair'[p] # q
    <3>1. details[q] = "fresh" /\ q # r
      BY <2>1
    <3>2. \A u \in Users : part'[q][u] = part[q][u] /\ lookup'[u][q] = lookup[u][q]
      BY <3>1
    <3> QED BY <3>1, <3>2 DEF IInv, FreshShape
  <2> QED BY <2>1 DEF FreshShape
<1>7. ReadStaysRead'
  BY DEF IInv, ReadStaysRead
<1>8. ASSUME NEW u \in Users, NEW q \in Rooms PROVE Kept(u, q)'
  <2>1. CASE q = r
    BY <2>1
  <2>2. CASE q # r
    <3>1. /\ part'[q][u] = part[q][u] /\ lookup'[u][q] = lookup[u][q] /\ Own(u, q)' = Own(u, q)
          /\ Leaves(c, u, q) => Leaves(c, u, q)'
      BY <2>2
    <3>2. Kept(u, q)
      BY DEF IInv
    <3> QED BY <1>1, <1>3, <3>1, <3>2, KeptKeeps
  <2> QED BY <2>1, <2>2
<1>9. ASSUME NEW u \in Users, NEW q \in Rooms, details[q] = "p2p", Has(u, q)' PROVE Has(u, q)
  <2>1. CASE q = r
    BY <1>9, <2>1
  <2>2. CASE q # r
    <3>1. part'[q][u] = part[q][u] /\ lookup'[u][q] = lookup[u][q]
      BY <2>2
    <3>2. \A d \in Callers : Touches(d, u, q)' => Touches(d, u, q)
      BY <1>3 DEF Touches
    <3> QED BY <1>9, <3>1, <3>2 DEF Has
  <2> QED BY <2>1, <2>2
<1> QED BY <1>2, <1>4, <1>5, <1>6, <1>7, <1>8, <1>9, Steady

\* What the tables hold of a member becomes the key k, the row p and the rows R.
Puts(s, r, k, p, R) ==
  /\ lookup' = [lookup EXCEPT ![s] = [lookup[s] EXCEPT ![r] = k]]
  /\ part' = [part EXCEPT ![r] = [part[r] EXCEPT ![s] = p]]
  /\ rows' = (rows \ Own(s, r)) \cup R
  /\ \A z \in R : z.user = s /\ z.room = r

\* They agree with each other, or the member is being removed.
Agree(c, s, r, k, p, R) ==
  /\ \A z \in R : z.key = k /\ k # NoKey /\ z.role = p.role /\ z.muted = p.muted
  /\ k # NoKey => R # {} /\ p.in
  /\ ~(p.in /\ k = NoKey) \/ Leaves(c, s, r)'

\* A step of one request that changes what the tables hold of one member.
LEMMA MemberStep ==
  ASSUME IInv, NEW c \in Callers, NEW y \in Call, NEW r \in Rooms, NEW s \in Users,
         clock' \in Time, call' = [call EXCEPT ![c] = y],
         UNCHANGED <<details, pair, mail, twins, overtaken>>, tangled \subseteq tangled',
         details[r] # "fresh",
         NEW k \in Key, k.at \in Time \/ k = NoKey, NEW p \in Part, ~p.in => p = NoPart,
         NEW R \in SUBSET Row, Puts(s, r, k, p, R),
         <<s, r>> \notin tangled' => Agree(c, s, r, k, p, R),
         \A u \in Users, q \in Rooms : <<u, q>> # <<s, r>> /\ Leaves(c, u, q) => Leaves(c, u, q)',
         details[r] = "p2p" /\ (p.in \/ k # NoKey) => Has(s, r),
         Shape(c)', Alone(c)',
         \A u \in Users : /\ Writes(c, u)' => Writes(c, u) /\ y.msg = call[c].msg
                          /\ \A q \in Rooms : Touches(c, u, q)' => Touches(c, u, q)
  PROVE  IInv'
<1>1. /\ call \in [Callers -> Call] /\ TypeOK /\ rows \subseteq Row
      /\ part \in [Rooms -> [Users -> Part]] /\ lookup \in [Users -> [Rooms -> Key]]
      /\ details' = details /\ msg' = msg /\ status' = status /\ receipt' = receipt
  BY DEF IInv, TypeOK, mail
<1>2. /\ part' \in [Rooms -> [Users -> Part]] /\ lookup' \in [Users -> [Rooms -> Key]]
      /\ part'[r][s] = p /\ lookup'[s][r] = k
      /\ \A u \in Users, q \in Rooms :
           <<u, q>> # <<s, r>> => part'[q][u] = part[q][u] /\ lookup'[u][q] = lookup[u][q]
  <2>1. /\ part' \in [Rooms -> [Users -> Part]] /\ part'[r][s] = p
        /\ \A u \in Users, q \in Rooms : <<u, q>> # <<s, r>> => part'[q][u] = part[q][u]
    <3>1. [part[r] EXCEPT ![s] = p] \in [Users -> Part]
      BY <1>1
    <3> QED BY <1>1, <3>1 DEF Puts
  <2>2. /\ lookup' \in [Users -> [Rooms -> Key]] /\ lookup'[s][r] = k
        /\ \A u \in Users, q \in Rooms : <<u, q>> # <<s, r>> => lookup'[u][q] = lookup[u][q]
    <3>1. [lookup[s] EXCEPT ![r] = k] \in [Rooms -> Key]
      BY <1>1
    <3> QED BY <1>1, <3>1 DEF Puts
  <2> QED BY <2>1, <2>2
<1>3. rows' \subseteq Row /\ \A z \in rows' : z.room # r => z \in rows
  BY <1>1 DEF Puts
<1>4. Own(s, r)' = R
  BY DEF Own, Puts
<1>5. \A u \in Users, q \in Rooms : <<u, q>> # <<s, r>> => Own(u, q)' = Own(u, q)
  BY DEF Own, Puts
<1>6. \A d \in Callers \ {c} : call'[d] = call[d]
  BY <1>1
<1>7. ASSUME NEW u \in Users
      PROVE  /\ Kept(u, r)'
             /\ lookup'[u][r].at \in Time \/ lookup'[u][r] = NoKey
             /\ ~part'[r][u].in => part'[r][u] = NoPart
             /\ details[r] = "p2p" /\ Has(u, r)' => Has(u, r)
  <2>1. \A d \in Callers : Touches(d, u, r)' => Touches(d, u, r)
    BY <1>6 DEF Touches
  <2>2. CASE u = s
    <3>1. Kept(s, r)'
      BY <1>2, <1>4, SMT DEF Kept, Agree
    <3>2. details[r] = "p2p" /\ Has(s, r)' => Has(s, r)
      BY <1>2, <2>1, <2>2 DEF Has
    <3> QED BY <1>2, <2>2, <3>1, <3>2
  <2>3. CASE u # s
    <3>1. /\ part'[r][u] = part[r][u] /\ lookup'[u][r] = lookup[u][r]
          /\ Own(u, r)' = Own(u, r)
          /\ Leaves(c, u, r) => Leaves(c, u, r)'
      <4>1. <<u, r>> # <<s, r>>
        BY <2>3
      <4> QED BY <1>2, <1>5, <4>1
    <3>2. Kept(u, r)
      BY DEF IInv
    <3>3. Kept(u, r)'
      BY <1>1, <1>6, <3>1, <3>2, KeptKeeps
    <3>4. Has(u, r)' => Has(u, r)
      BY <2>1, <3>1 DEF Has
    <3> QED BY <3>1, <3>3, <3>4 DEF IInv, TableShape
  <2> QED BY <2>2, <2>3
<1>8. \A u \in Users, q \in Rooms \ {r} :
        /\ part'[q][u] = part[q][u] /\ lookup'[u][q] = lookup[u][q] /\ Own(u, q)' = Own(u, q)
        /\ Leaves(c, u, q) => Leaves(c, u, q)'
  BY <1>2, <1>5
<1>9. OneRoom(c, r)
  <2>1. details \in [Rooms -> {"fresh", "p2p", "group", "nameless", "gone"}]
        /\ msg \in [Messages -> Rooms \cup {NoRoom, Gone}]
    BY <1>1 DEF TypeOK
  <2> QED BY <1>1, <1>2, <1>3, <1>8, <2>1 DEF OneRoom
<1> QED BY <1>7, <1>9, RoomStep, SMTT(20), ZenonT(60)

\* Writing what is there changes nothing.
LEMMA SamePart ==
  ASSUME TypeOK, NEW r \in Rooms, NEW s \in Users
  PROVE  part = [part EXCEPT ![r] = [part[r] EXCEPT ![s] = part[r][s]]]
<1>1. part[r] \in [Users -> Part] /\ part \in [Rooms -> [Users -> Part]]
  BY DEF TypeOK
<1>2. [part[r] EXCEPT ![s] = part[r][s]] = part[r]
  BY <1>1
<1> QED BY <1>1, <1>2

\* A key with a time is a real one.
LEMMA NotNoKey ==
  ASSUME NEW k, k.at \in Time
  PROVE  k # NoKey
<1>1. -1 \notin Time
  BY ScyllaRoomsAssumption, SMT DEF Time
<1>2. NoKey.at = -1
  BY NoForms
<1> QED BY <1>1, <1>2

\* LeaveRoom and DeleteRoom delete the row under the key they read.
LEMMA DropRowKeeps ==
  ASSUME IInv, NEW c \in Callers, DropRow(c)
  PROVE  IInv'
<1>. SUFFICES ASSUME NEW r, NEW s, r = call[c].room, s = call[c].subject
     PROVE  IInv'
  OBVIOUS
<1> DEFINE x == call[c]
           y == Next1(c)
           R == Own(s, r) \ RowAt(s, r, x.key)
<1>1. /\ call \in [Callers -> Call] /\ x \in Call /\ Shape(c) /\ TypeOK /\ clock' \in Time
      /\ lookup \in [Users -> [Rooms -> Key]] /\ rows \subseteq Row
      /\ part \in [Rooms -> [Users -> Part]]
  BY DEF IInv, TypeOK, CallShape, DropRow
<1>2. /\ x.pc = "drop" /\ call' = [call EXCEPT ![c] = y]
      /\ rows' = rows \ RowAt(s, r, x.key) /\ lookup' = [lookup EXCEPT ![s][r] = NoKey]
      /\ tangled' = (IF Stale(x) THEN tangled \cup {<<s, r>>} ELSE tangled)
      /\ part' = part /\ details' = details
      /\ UNCHANGED <<details, pair, mail, twins, overtaken>>
  BY DEF DropRow, At, Tangle
<1>3. /\ x.op \in {"leave", "close"} /\ s \in Users /\ s \in x.to /\ r \in Rooms
      /\ details[r] # "fresh"
  BY <1>1, <1>2 DEF Shape
<1>4. /\ y \in Call /\ y.pc = "find" /\ y.op = x.op /\ y.msg = x.msg
      /\ y.room = r /\ y.to = x.to /\ y.todo = x.todo
  BY <1>1, Next1Form
<1>5. call'[c] = y
  BY <1>1, <1>2
<1> HIDE DEF y
<1>6. Shape(c)' /\ Alone(c)'
  BY <1>1, <1>2, <1>3, <1>4, <1>5, SMT DEF Shape, Alone, At
<1>7. \A u \in Users : /\ ~Writes(c, u)'
                       /\ \A q \in Rooms : ~Touches(c, u, q)'
  BY <1>3, <1>4, <1>5 DEF Writes, Touches
<1>8. \A u \in Users, q \in Rooms : Leaves(c, u, q) => Leaves(c, u, q)'
  BY <1>4, <1>5 DEF Leaves
<1>9. Puts(s, r, NoKey, part[r][s], R)
  <2>1. rows' = (rows \ Own(s, r)) \cup R
    BY <1>2 DEF Own, RowAt, GetRoomList
  <2>2. lookup' = [lookup EXCEPT ![s] = [lookup[s] EXCEPT ![r] = NoKey]]
    BY <1>2
  <2> QED BY <1>1, <1>2, <1>3, <2>1, <2>2, SamePart DEF Puts, Own
<1>10. R \in SUBSET Row /\ part[r][s] \in Part /\ (~part[r][s].in => part[r][s] = NoPart)
  BY <1>1, <1>3 DEF Own, IInv, TableShape
<1>11. ASSUME <<s, r>> \notin tangled' PROVE Agree(c, s, r, NoKey, part[r][s], R)
  <2>1. lookup[s][r] = x.key /\ <<s, r>> \notin tangled
    BY <1>2, <1>11 DEF Stale
  <2>2. \A z \in Own(s, r) : z.key = lookup[s][r]
    BY <1>3, <2>1 DEF IInv, Kept
  <2>3. R = {}
    BY <2>1, <2>2 DEF Own, RowAt, GetRoomList
  <2>4. Leaves(c, s, r)'
    BY <1>3, <1>4, <1>5 DEF Leaves
  <2> QED BY <2>3, <2>4 DEF Agree
<1>12. details[r] = "p2p" /\ part[r][s].in => Has(s, r)
  BY DEF Has
<1>13. tangled \subseteq tangled'
  BY <1>2
<1> QED BY <1>1, <1>2, <1>3, <1>4, <1>6, <1>7, <1>8, <1>9, <1>10, <1>11, <1>12, <1>13, NoForms,
           MemberStep, SMTT(20), ZenonT(60)

\* The batches of PinRoom and updateRoomForUser: one row, under the new key, or the
\* membership is tangled.
LEMMA MoveRowKeeps ==
  ASSUME IInv, NEW c \in Callers, MoveRow(c)
  PROVE  IInv'
<1>. SUFFICES ASSUME NEW r, NEW s, r = call[c].room, s = call[c].subject
     PROVE  IInv'
  OBVIOUS
<1> DEFINE x == call[c]
           y == IF x.op = "save" THEN Next1(c) ELSE NoCall
           k == MovedKey(x)
           n == [user |-> s, room |-> r, key |-> NewKey(x), role |-> x.copy.role,
                 muted |-> x.copy.muted]
           R == {z \in Own(s, r) : z.key \notin {x.key, NewKey(x)}}
                \cup (IF NewKey(x) = x.key THEN {} ELSE {n})
<1>1. /\ call \in [Callers -> Call] /\ x \in Call /\ Shape(c) /\ TypeOK /\ clock' \in Time
      /\ lookup \in [Users -> [Rooms -> Key]] /\ rows \subseteq Row
      /\ part \in [Rooms -> [Users -> Part]]
  BY DEF IInv, TypeOK, CallShape, MoveRow
<1>2. /\ x.pc = "move" /\ call' = [call EXCEPT ![c] = y]
      /\ rows' = Relist(x) /\ lookup' = [lookup EXCEPT ![s][r] = k]
      /\ tangled' = (IF Stale(x) \/ Outdated(x) \/ NewKey(x) = x.key
                     THEN tangled \cup {<<s, r>>} ELSE tangled)
      /\ part' = part /\ details' = details
      /\ UNCHANGED <<details, pair, mail, twins, overtaken>>
  BY DEF MoveRow, At, Tangle
<1>3. /\ x.op \in {"save", "pin"} /\ s \in Users /\ r \in Rooms
      /\ details[r] # "fresh" /\ x.key.at \in Time
  BY <1>1, <1>2 DEF Shape
<1>4. x.key \in Key /\ x.at \in Time /\ x.on \in BOOLEAN /\ x.copy \in Copy
  BY <1>1, Zenon DEF Call
<1>5. x.copy.role \in Roles /\ x.copy.muted \in BOOLEAN
  BY <1>4, Zenon DEF Copy
<1>6. y \in Call /\ call'[c] = y
  BY <1>1, <1>2, Next1Form, NoForms
<1>7. NewKey(x) \in Key /\ NewKey(x).at \in Time
  BY <1>3, <1>4, KeyForms DEF NewKey
<1>8. k \in Key /\ k.at \in Time
  <2> DEFINE l == lookup[s][r]
             old == IF l = NoKey THEN [pin |-> FALSE, at |-> 0] ELSE l
  <2>1. l \in Key /\ (l # NoKey => l.at \in Time)
    BY <1>1, <1>3 DEF IInv, TableShape
  <2>2. FALSE \in BOOLEAN /\ 0 \in Time
    BY ScyllaRoomsAssumption, SMT DEF Time
  <2>3. old \in Key /\ old.at \in Time
    BY <2>1, <2>2, NewKeyForms
  <2>4. k = IF x.op = "save" THEN [old EXCEPT !.at = x.at] ELSE [old EXCEPT !.pin = x.on]
    BY DEF MovedKey
  <2> HIDE DEF k, old
  <2> QED BY <1>4, <2>3, <2>4, KeyForms
<1>9. /\ n \in Row /\ n.user = s /\ n.room = r /\ n.key = NewKey(x)
      /\ n.role = x.copy.role /\ n.muted = x.copy.muted
  BY <1>3, <1>5, <1>7, RowForms
<1>10. Puts(s, r, k, part[r][s], R)
  <2> HIDE DEF k
  <2>1. rows' = (rows \ Own(s, r)) \cup R
    <3>1. Relist(x) = {z \in rows : ~(z.user = s /\ z.room = r /\ z.key \in {x.key, NewKey(x)})}
                      \cup (IF NewKey(x) = x.key THEN {} ELSE {n})
      BY DEF Relist
    <3> HIDE DEF n
    <3> QED BY <1>2, <3>1 DEF Own
  <2>2. lookup' = [lookup EXCEPT ![s] = [lookup[s] EXCEPT ![r] = k]]
    BY <1>2
  <2> HIDE DEF n
  <2>3. \A z \in R : z.user = s /\ z.room = r
    BY <1>9 DEF Own
  <2> HIDE DEF R
  <2> QED BY <1>1, <1>2, <1>3, <2>1, <2>2, <2>3, SamePart DEF Puts
<1>11. R \in SUBSET Row /\ part[r][s] \in Part /\ (~part[r][s].in => part[r][s] = NoPart)
  <2> HIDE DEF n
  <2> QED BY <1>1, <1>3, <1>9, SMTT(30), ZenonT(20) DEF Own, IInv, TableShape
<1>12. ASSUME <<s, r>> \notin tangled' PROVE Agree(c, s, r, k, part[r][s], R)
  <2>1. /\ lookup[s][r] = x.key /\ <<s, r>> \notin tangled /\ NewKey(x) # x.key
        /\ {[role |-> z.role, muted |-> z.muted] : z \in RowAt(s, r, x.key)} = {x.copy}
    BY <1>2, <1>12 DEF Stale, Outdated
  <2>2. lookup[s][r] # NoKey
    BY <1>3, <2>1, NotNoKey
  <2>3. /\ \A z \in Own(s, r) : /\ z.key = lookup[s][r]
                                /\ z.role = part[r][s].role /\ z.muted = part[r][s].muted
        /\ part[r][s].in
    BY <1>3, <2>1, <2>2 DEF IInv, Kept
  <2>4. n.role = part[r][s].role /\ n.muted = part[r][s].muted
    <3>1. PICK z \in RowAt(s, r, x.key) : x.copy = [role |-> z.role, muted |-> z.muted]
      BY <2>1
    <3>2. z \in Own(s, r)
      BY <3>1 DEF Own, RowAt, GetRoomList
    <3>3. x.copy.role = z.role /\ x.copy.muted = z.muted
      <4> DEFINE e == [role |-> z.role, muted |-> z.muted]
      <4>1. e.role = z.role /\ e.muted = z.muted
        BY Zenon
      <4> HIDE DEF e
      <4> QED BY <3>1, <4>1 DEF e
    <3> QED BY <1>9, <2>3, <3>2, <3>3
  <2> HIDE DEF n
  <2>5. R = {n}
    BY <2>1, <2>3
  <2>6. k = NewKey(x)
    BY <2>1, <2>2 DEF MovedKey, NewKey
  <2>7. k # NoKey
    BY <1>8, NotNoKey
  <2> HIDE DEF k, R
  <2> QED BY <1>9, <2>3, <2>4, <2>5, <2>6, <2>7 DEF Agree
<1> HIDE DEF k, n, R
<1>13. /\ Shape(c)' /\ Alone(c)'
      /\ \A u \in Users : /\ Writes(c, u)' => Writes(c, u) /\ y.msg = x.msg
                          /\ \A q \in Rooms : ~Touches(c, u, q)'
  <2>1. CASE x.op = "save"
    <3>1. /\ y.pc = "find" /\ y.op = x.op /\ y.msg = x.msg
          /\ y.room = r /\ y.to = x.to /\ y.todo = x.todo
      BY <1>1, <2>1, Next1Form
    <3> HIDE DEF y
    <3>2. Shape(c)' /\ Alone(c)'
      BY <1>1, <1>2, <1>3, <1>6, <2>1, <3>1, SMT DEF Shape, Alone, At
    <3>3. \A u \in Users : Writes(c, u) /\ \A q \in Rooms : ~Touches(c, u, q)'
      BY <1>2, <1>6, <2>1, <3>1 DEF Writes, Touches, At
    <3> QED BY <3>1, <3>2, <3>3
  <2>2. CASE x.op # "save"
    <3>1. call'[c] = NoCall
      BY <1>6, <2>2
    <3> QED BY <3>1, NothingAsked
  <2> QED BY <2>1, <2>2
<1>14. \A u \in Users, q \in Rooms : ~Leaves(c, u, q)
  BY <1>3 DEF Leaves
<1>15. Has(s, r)
  BY <1>2 DEF Has, Touches
<1>16. tangled \subseteq tangled'
  BY <1>2
<1> HIDE DEF y
<1>17. k.at \in Time \/ k = NoKey
  BY <1>8
<1>18. UNCHANGED <<details, pair, mail, twins, overtaken>>
  BY <1>2
<1> QED BY <1>1, <1>2, <1>3, <1>6, <1>8, <1>10, <1>11, <1>12, <1>13, <1>14, <1>15, <1>16, <1>17,
           <1>18, MemberStep, SMTT(20), ZenonT(60)

\* The batches of MuteRoom and UpdateParticipantRoom set the column in both tables.
LEMMA SetColumnKeeps ==
  ASSUME IInv, NEW c \in Callers, SetColumn(c)
  PROVE  IInv'
<1>. SUFFICES ASSUME NEW r, NEW s, r = call[c].room, s = call[c].subject
     PROVE  IInv'
  OBVIOUS
<1> DEFINE x == call[c]
           p == SetInPart(x, part[r][s])
           old == RowAt(s, r, x.key)
           base == IF old = {} THEN {Listing(s, r, x.key, "")} ELSE old
           R == (Own(s, r) \ old) \cup {SetInList(x, z) : z \in base}
<1>1. /\ call \in [Callers -> Call] /\ x \in Call /\ Shape(c) /\ TypeOK /\ clock' \in Time
      /\ lookup \in [Users -> [Rooms -> Key]] /\ rows \subseteq Row
      /\ part \in [Rooms -> [Users -> Part]]
  BY DEF IInv, TypeOK, CallShape, SetColumn
<1>2. /\ x.pc = "set" /\ call' = [call EXCEPT ![c] = NoCall]
      /\ rows' = (rows \ old) \cup {SetInList(x, z) : z \in base}
      /\ part' = [part EXCEPT ![r][s] = p]
      /\ tangled' = (IF Stale(x) THEN tangled \cup {<<s, r>>} ELSE tangled)
      /\ lookup' = lookup /\ UNCHANGED <<details, pair, mail, twins, overtaken>>
  BY DEF SetColumn, At, Tangle, End
<1>3. /\ x.op \in {"mute", "role"} /\ s \in Users /\ r \in Rooms
      /\ details[r] # "fresh" /\ x.key.at \in Time
  BY <1>1, <1>2 DEF Shape
<1>4. x.key \in Key /\ x.on \in BOOLEAN /\ x.role \in Roles
  BY <1>1, Zenon DEF Call
<1>5. NoCall \in Call /\ call'[c] = NoCall
  BY <1>1, <1>2, NoForms
<1>6. /\ Shape(c)' /\ Alone(c)' /\ \A u \in Users : /\ ~Writes(c, u)'
                                                    /\ \A q \in Rooms : ~Touches(c, u, q)'
  BY <1>5, NothingAsked
<1>7. /\ p \in Part /\ p.in
      /\ x.op = "mute" => p.muted = x.on /\ p.role = part[r][s].role
      /\ x.op # "mute" => p.role = x.role /\ p.muted = part[r][s].muted
  <2>1. part[r][s] \in Part
    BY <1>1, <1>3
  <2>2. CASE x.op = "mute"
    <3>1. p = WithMute(part[r][s], x.on)
      BY <2>2 DEF SetInPart, WithMute
    <3> HIDE DEF p
    <3> QED BY <1>4, <2>1, <2>2, <3>1, MutedPart
  <2>3. CASE x.op # "mute"
    <3>1. p = WithRole(part[r][s], x.role)
      BY <2>3 DEF SetInPart, WithRole
    <3> HIDE DEF p
    <3> QED BY <1>4, <2>1, <2>3, <3>1, RolePart
  <2> QED BY <2>2, <2>3
<1>8. /\ Listing(s, r, x.key, "") \in Row /\ Listing(s, r, x.key, "").user = s
      /\ Listing(s, r, x.key, "").room = r
  <2>1. "" \in Roles
    BY DEF Roles
  <2>2. \A o \in Roles : /\ Listing(s, r, x.key, o) \in Row
                          /\ Listing(s, r, x.key, o).user = s
                          /\ Listing(s, r, x.key, o).room = r
    BY <1>3, <1>4, ListingForms, SMT
  <2> QED BY <2>1, <2>2, Zenon
<1>9. \A z \in base : z \in Row /\ z.user = s /\ z.room = r
  BY <1>1, <1>8 DEF RowAt, GetRoomList
<1> HIDE DEF base
<1>10. \A z \in R : z \in Row /\ z.user = s /\ z.room = r
  <2>1. \A z \in base : SetInList(x, z) \in Row /\ SetInList(x, z).user = s
                        /\ SetInList(x, z).room = r
    BY <1>1, <1>9, SetInListForms
  <2> QED BY <1>1, <2>1 DEF Own
<1> HIDE DEF p
<1>11. Puts(s, r, lookup[s][r], p, R)
  <2>1. rows' = (rows \ Own(s, r)) \cup R
    <3>1. old = Own(s, r) \cap old /\ Own(s, r) \subseteq rows
      BY DEF Own, RowAt, GetRoomList
    <3> HIDE DEF old
    <3> QED BY <1>2, <3>1
  <2>2. lookup' = [lookup EXCEPT ![s] = [lookup[s] EXCEPT ![r] = lookup[s][r]]]
    <3>1. lookup[s] \in [Rooms -> Key]
      BY <1>1, <1>3
    <3>2. [lookup[s] EXCEPT ![r] = lookup[s][r]] = lookup[s]
      BY <3>1
    <3> QED BY <1>1, <1>2, <3>2
  <2>3. part' = [part EXCEPT ![r] = [part[r] EXCEPT ![s] = p]]
    BY <1>2
  <2> HIDE DEF R
  <2> QED BY <1>10, <2>1, <2>2, <2>3 DEF Puts
<1>12. R \in SUBSET Row /\ lookup[s][r] \in Key
       /\ (lookup[s][r].at \in Time \/ lookup[s][r] = NoKey)
  BY <1>1, <1>3, <1>10 DEF IInv, TableShape
<1>13. ASSUME <<s, r>> \notin tangled' PROVE Agree(c, s, r, lookup[s][r], p, R)
  <2>1. lookup[s][r] = x.key /\ <<s, r>> \notin tangled
    BY <1>2, <1>13 DEF Stale
  <2>2. lookup[s][r] # NoKey
    BY <1>3, <2>1, NotNoKey
  <2>3. /\ \A z \in Own(s, r) : /\ z.key = lookup[s][r]
                                /\ z.role = part[r][s].role /\ z.muted = part[r][s].muted
        /\ Own(s, r) # {}
    BY <1>3, <2>1, <2>2 DEF IInv, Kept
  <2>4. old = Own(s, r) /\ base = old
    BY <2>1, <2>3 DEF Own, RowAt, GetRoomList, base
  <2>5. R = {SetInList(x, z) : z \in Own(s, r)}
    BY <2>4
  <2>6. ASSUME NEW z \in Own(s, r)
        PROVE  /\ SetInList(x, z).key = lookup[s][r]
               /\ SetInList(x, z).role = p.role /\ SetInList(x, z).muted = p.muted
    <3>1. /\ z \in Row /\ z.key = lookup[s][r]
          /\ z.role = part[r][s].role /\ z.muted = part[r][s].muted
      BY <1>1, <2>3 DEF Own
    <3> QED BY <1>1, <1>7, <3>1, SetInListForms
  <2> HIDE DEF R
  <2> QED BY <1>7, <2>2, <2>3, <2>5, <2>6 DEF Agree
<1> HIDE DEF R, old
<1>14. \A u \in Users, q \in Rooms : ~Leaves(c, u, q)
  BY <1>3 DEF Leaves
<1>15. Has(s, r)
  BY <1>2 DEF Has, Touches
<1>16. tangled \subseteq tangled' /\ UNCHANGED <<details, pair, mail, twins, overtaken>>
  BY <1>2
<1>17. ~p.in => p = NoPart
  BY <1>7
<1> QED BY <1>1, <1>2, <1>3, <1>5, <1>6, <1>7, <1>11, <1>12, <1>13, <1>14, <1>15, <1>16, <1>17,
           MemberStep, SMTT(20), ZenonT(60)

\* AddParticipantToRoom writes the three tables.
LEMMA AddParticipantKeeps ==
  ASSUME IInv, NEW c \in Callers, NEW s \in Users, NEW t \in Time, AddParticipant(c, s, t)
  PROVE  IInv'
<1>. SUFFICES ASSUME NEW r, r = call[c].room
     PROVE  IInv'
  OBVIOUS
<1> DEFINE x == call[c]
           k == [pin |-> FALSE, at |-> t]
           p == [part[r][s] EXCEPT !.in = TRUE, !.role = "MEMBER"]
           old == RowAt(s, r, k)
           new == IF old = {} THEN {Listing(s, r, k, "MEMBER")}
                  ELSE {[z EXCEPT !.role = "MEMBER"] : z \in old}
           R == (Own(s, r) \ old) \cup new
<1>1. /\ call \in [Callers -> Call] /\ x \in Call /\ Shape(c) /\ TypeOK
      /\ lookup \in [Users -> [Rooms -> Key]] /\ rows \subseteq Row
      /\ part \in [Rooms -> [Users -> Part]]
  BY DEF IInv, TypeOK, CallShape
<1>2. /\ x.pc = "add" /\ call' = [call EXCEPT ![c] = NoCall] /\ clock' = t
      /\ rows' = (rows \ old) \cup new
      /\ part' = [part EXCEPT ![r][s] = p]
      /\ tangled' = (IF lookup[s][r] # NoKey \/ part[r][s].in
                     THEN tangled \cup {<<[x EXCEPT !.subject = s].subject,
                                          [x EXCEPT !.subject = s].room>>} ELSE tangled)
      /\ lookup' = [lookup EXCEPT ![s][r] = k]
      /\ UNCHANGED <<details, pair, mail, twins, overtaken>>
  BY DEF AddParticipant, At, Tangle, End, Now
<1>3. /\ x.op = "add" /\ r \in Rooms
      /\ details[r] # "fresh" /\ details[r] # "p2p"
  BY <1>1, <1>2 DEF Shape
<1>4. /\ k \in Key /\ k # NoKey /\ k.at \in Time /\ "MEMBER" \in Roles
  BY NewKeyForms DEF Roles
<1>5. NoCall \in Call /\ call'[c] = NoCall
  BY <1>1, <1>2, NoForms
<1>6. /\ Shape(c)' /\ Alone(c)' /\ \A u \in Users : /\ ~Writes(c, u)'
                                                    /\ \A q \in Rooms : ~Touches(c, u, q)'
  BY <1>5, NothingAsked
<1>7. /\ p \in Part /\ p.in /\ p.role = "MEMBER" /\ p.muted = part[r][s].muted
  <2>1. part[r][s] \in Part /\ FALSE \in BOOLEAN
    BY <1>1, <1>3
  <2>2. p = WithRole(part[r][s], "MEMBER")
    BY DEF WithRole
  <2> HIDE DEF p, k
  <2> QED BY <1>4, <2>1, <2>2, RolePart
<1>8. /\ Listing(s, r, k, "MEMBER") \in Row /\ Listing(s, r, k, "MEMBER").user = s
      /\ Listing(s, r, k, "MEMBER").room = r /\ Listing(s, r, k, "MEMBER").key = k
      /\ Listing(s, r, k, "MEMBER").role = "MEMBER"
  BY <1>3, <1>4, ListingForms, SMT
<1>9. /\ [x EXCEPT !.subject = s].subject = s /\ [x EXCEPT !.subject = s].room = r
  BY <1>1, SMT DEF Call
<1>10. tangled' = IF lookup[s][r] # NoKey \/ part[r][s].in THEN tangled \cup {<<s, r>>} ELSE tangled
  BY <1>2, <1>9
<1> HIDE DEF k, p
<1>11. \A z \in R : z \in Row /\ z.user = s /\ z.room = r
  <2>1. \A z \in old : z \in Row /\ z.user = s /\ z.room = r
    BY <1>1 DEF RowAt, GetRoomList
  <2>2. \A z \in Row : /\ [z EXCEPT !.role = "MEMBER"] \in Row
                       /\ [z EXCEPT !.role = "MEMBER"].user = z.user
                       /\ [z EXCEPT !.role = "MEMBER"].room = z.room
    BY <1>4, Zenon DEF Row
  <2> HIDE DEF old
  <2>3. \A z \in new : z \in Row /\ z.user = s /\ z.room = r
    <3>1. CASE old = {}
      BY <1>8, <3>1
    <3>2. CASE old # {}
      <4>1. new = {[z EXCEPT !.role = "MEMBER"] : z \in old}
        BY <3>2
      <4> HIDE DEF new
      <4>2. ASSUME NEW w \in new PROVE w \in Row /\ w.user = s /\ w.room = r
        <5>1. PICK z \in old : w = [z EXCEPT !.role = "MEMBER"]
          BY <4>1
        <5> QED BY <2>1, <2>2, <5>1, Zenon
      <4> QED BY <4>2
    <3> QED BY <3>1, <3>2
  <2> HIDE DEF new
  <2> QED BY <1>1, <2>3 DEF Own
<1>12. Puts(s, r, k, p, R)
  <2>1. rows' = (rows \ Own(s, r)) \cup R
    <3>1. old = Own(s, r) \cap old /\ Own(s, r) \subseteq rows
      BY DEF Own, RowAt, GetRoomList
    <3> HIDE DEF old, new
    <3> QED BY <1>2, <3>1
  <2>2. lookup' = [lookup EXCEPT ![s] = [lookup[s] EXCEPT ![r] = k]]
    BY <1>2
  <2>3. part' = [part EXCEPT ![r] = [part[r] EXCEPT ![s] = p]]
    BY <1>2
  <2> HIDE DEF R
  <2> QED BY <1>11, <2>1, <2>2, <2>3 DEF Puts
<1>13. ASSUME <<s, r>> \notin tangled' PROVE Agree(c, s, r, k, p, R)
  <2>1. lookup[s][r] = NoKey /\ ~part[r][s].in /\ <<s, r>> \notin tangled
    BY <1>10, <1>13
  <2>2. Own(s, r) = {}
    BY <1>3, <2>1 DEF IInv, Kept
  <2>3. old = {}
    BY <2>2 DEF Own, RowAt, GetRoomList
  <2>4. R = {Listing(s, r, k, "MEMBER")}
    BY <2>2, <2>3
  <2>5. p.muted = Listing(s, r, k, "MEMBER").muted
    <3>1. part[r][s] = NoPart
      BY <1>3, <2>1 DEF IInv, TableShape
    <3>2. p.muted = NoPart.muted
      BY <1>7, <3>1
    <3>3. NoPart.muted = FALSE
      BY NoForms
    <3> QED BY <3>2, <3>3, ListingMuted, Zenon
  <2> HIDE DEF R
  <2> QED BY <1>4, <1>7, <1>8, <2>4, <2>5 DEF Agree
<1> HIDE DEF R, old
<1>14. \A u \in Users, q \in Rooms : ~Leaves(c, u, q)
  BY <1>3 DEF Leaves
<1>15. R \in SUBSET Row /\ (k.at \in Time \/ k = NoKey) /\ (~p.in => p = NoPart)
  BY <1>4, <1>7, <1>11
<1>16. tangled \subseteq tangled' /\ UNCHANGED <<details, pair, mail, twins, overtaken>>
       /\ clock' \in Time
  BY <1>2, <1>10
<1> QED BY <1>1, <1>2, <1>3, <1>4, <1>5, <1>6, <1>7, <1>12, <1>13, <1>14, <1>15, <1>16,
           MemberStep, SMTT(20), ZenonT(60)

\* LeaveRoom deletes the participants, whose rows it has deleted.
LEMMA StrikeKeeps ==
  ASSUME IInv, NEW c \in Callers, Strike(c)
  PROVE  IInv'
<1>. SUFFICES ASSUME NEW r, r = call[c].room
     PROVE  IInv'
  OBVIOUS
<1> DEFINE x == call[c]
           new == [u \in Users |-> IF u \in x.to THEN NoPart ELSE part[r][u]]
           y1 == [NoCall EXCEPT !.op = "close"]
           y2 == [y1 EXCEPT !.user = x.user]
           y3 == [y2 EXCEPT !.room = r]
           y4 == [y3 EXCEPT !.pc = "list"]
           y == IF x.all THEN y4 ELSE NoCall
<1>1. /\ call \in [Callers -> Call] /\ x \in Call /\ Shape(c) /\ TypeOK
      /\ lookup \in [Users -> [Rooms -> Key]] /\ rows \subseteq Row
      /\ part \in [Rooms -> [Users -> Part]] /\ clock' \in Time
      /\ msg \in [Messages -> Rooms \cup {NoRoom, Gone}]
      /\ details \in [Rooms -> {"fresh", "p2p", "group", "nameless", "gone"}]
  BY DEF IInv, TypeOK, CallShape, Strike
<1>2. /\ x.pc = "find" /\ x.op = "leave" /\ x.todo = {}
      /\ part' = [part EXCEPT ![r] = new]
      /\ tangled' = tangled \cup {<<u, r>> : u \in {v \in x.to : lookup[v][r] # NoKey}}
      /\ lookup' = lookup /\ rows' = rows /\ details' = details /\ msg' = msg
      /\ UNCHANGED <<pair, status, receipt, twins, overtaken>>
  BY DEF Strike, At, mail
<1>3. r \in Rooms /\ details[r] # "fresh"
  BY <1>1, <1>2 DEF Shape
<1>4. y4 \in Call
  <2>1. x.user \in Users \cup {0} /\ NoCall.user = 0
    <3>1. x.user \in Users \cup {0}
      BY <1>1, Zenon DEF Call
    <3> QED BY <3>1, NoForms
  <2>2. y1 \in Call
    BY NoForms, FieldForms DEF Ops
  <2>3. y2 \in Call
    <3>1. \A v \in Users \cup {0} : [y1 EXCEPT !.user = v] \in Call
      BY <2>2, Zenon DEF Call
    <3> QED BY <2>1, <3>1
  <2>4. y3 \in Call
    BY <1>3, <2>3, FieldForms
  <2> QED BY <2>4, FieldForms DEF Pc
<1>5. y4.pc = "list" /\ y4.op = "close" /\ y4.room = r /\ y4.to = {} /\ y4.todo = {}
  <2>1. NoCall \in Call /\ NoCall.to = {} /\ NoCall.todo = {}
    BY NoForms
  <2> QED BY <2>1, SMT DEF Call
<1>6. call' = [call EXCEPT ![c] = y]
  BY DEF Strike
<1>7. y \in Call /\ call'[c] = y
  BY <1>1, <1>4, <1>6, NoForms
<1>8. /\ Shape(c)' /\ Alone(c)' /\ \A u \in Users : /\ ~Writes(c, u)'
                                                    /\ \A q \in Rooms : ~Touches(c, u, q)'
  <2>1. CASE x.all
    <3>1. call'[c] = y4
      BY <1>7, <2>1
    <3> HIDE DEF y, y4
    <3>2. Shape(c)' /\ Alone(c)'
      BY <1>2, <1>3, <1>5, <3>1, ScyllaRoomsAssumption, SMT DEF Shape, Alone, At
    <3>3. \A u \in Users : ~Writes(c, u)' /\ \A q \in Rooms : ~Touches(c, u, q)'
      BY <1>5, <3>1 DEF Writes, Touches
    <3> QED BY <3>2, <3>3
  <2>2. CASE ~x.all
    <3>1. call'[c] = NoCall
      BY <1>7, <2>2
    <3> QED BY <3>1, NothingAsked
  <2> QED BY <2>1, <2>2
<1> HIDE DEF y, y4
<1>9. new \in [Users -> Part] /\ \A u \in Users : new[u] = IF u \in x.to THEN NoPart ELSE part[r][u]
  <2>1. part[r] \in [Users -> Part]
    BY <1>1, <1>3
  <2>2. \A u \in Users : part[r][u] \in Part
    BY <2>1
  <2>3. NoPart \in Part
    BY NoForms
  <2> QED BY <2>2, <2>3
<1> HIDE DEF new
<1>10. /\ part' \in [Rooms -> [Users -> Part]] /\ part'[r] = new
       /\ \A q \in Rooms \ {r} : part'[q] = part[q]
  BY <1>1, <1>2, <1>3, <1>9
<1>11. \A u \in Users, q \in Rooms \ {r} :
         /\ part'[q][u] = part[q][u] /\ lookup'[u][q] = lookup[u][q] /\ Own(u, q)' = Own(u, q)
         /\ Leaves(c, u, q) => Leaves(c, u, q)'
  BY <1>2, <1>10 DEF Own, Leaves
<1>12. \A d \in Callers \ {c} : call'[d] = call[d]
  BY <1>1, <1>6
<1>13. ASSUME NEW u \in Users
       PROVE  /\ Kept(u, r)'
              /\ lookup'[u][r].at \in Time \/ lookup'[u][r] = NoKey
              /\ ~part'[r][u].in => part'[r][u] = NoPart
              /\ details[r] = "p2p" /\ Has(u, r)' => Has(u, r)
  <2>1. lookup'[u][r].at \in Time \/ lookup'[u][r] = NoKey
    BY <1>2, <1>3 DEF IInv, TableShape
  <2>2. ~part'[r][u].in => part'[r][u] = NoPart
    BY <1>3, <1>9, <1>10 DEF IInv, TableShape
  <2>3. Own(u, r)' = Own(u, r)
    BY <1>2 DEF Own
  <2>4. Kept(u, r)
    BY <1>3 DEF IInv
  <2>5. \A d \in Callers : Touches(d, u, r)' => Touches(d, u, r)
    BY <1>3, <1>8, <1>12 DEF Touches
  <2>6. part'[r][u].in => part[r][u].in
    BY <1>9, <1>10, NoForms
  <2>7. Has(u, r)' => Has(u, r)
    BY <1>2, <2>5, <2>6 DEF Has
  <2>8. CASE u \in x.to
    <3>1. part'[r][u] = NoPart /\ ~NoPart.in
      BY <1>9, <1>10, <2>8, NoForms
    <3>2. SUFFICES ASSUME <<u, r>> \notin tangled' PROVE Kept(u, r)'
      BY <2>1, <2>2, <2>7 DEF Kept
    <3>3. lookup[u][r] = NoKey /\ <<u, r>> \notin tangled
      BY <1>2, <2>8, <3>2
    <3>4. Own(u, r) = {}
      BY <2>4, <3>3 DEF Kept
    <3> QED BY <1>2, <2>3, <3>1, <3>3, <3>4 DEF Kept
  <2>9. CASE u \notin x.to
    <3>1. part'[r][u] = part[r][u]
      BY <1>9, <1>10, <2>9
    <3>2. ~Leaves(c, u, r)
      BY <2>9 DEF Leaves
    <3>3. tangled \subseteq tangled'
      BY <1>2
    <3>4. Kept(u, r)'
      BY <1>1, <1>2, <1>3, <1>12, <2>3, <2>4, <3>1, <3>2, <3>3, KeptKeeps
    <3> QED BY <2>1, <2>2, <2>7, <3>4
  <2> QED BY <2>8, <2>9
<1>14. OneRoom(c, r)
  BY <1>1, <1>2, <1>10, <1>11 DEF OneRoom
<1>15. \A u \in Users : /\ Writes(c, u)' => Writes(c, u) /\ y.msg = call[c].msg
                        /\ \A q \in Rooms : Touches(c, u, q)' => Touches(c, u, q)
  BY <1>8
<1> QED BY <1>3, <1>6, <1>7, <1>8, <1>13, <1>14, <1>15, RoomStep, SMTT(20), ZenonT(60)

\* The end of DeleteRoom: nobody has the room any more.
LEMMA EraseKeeps ==
  ASSUME IInv, NEW c \in Callers, Erase(c)
  PROVE  IInv'
<1>. SUFFICES ASSUME NEW r, r = call[c].room
     PROVE  IInv'
  OBVIOUS
<1>1. /\ call \in [Callers -> Call] /\ Shape(c) /\ TypeOK
      /\ lookup \in [Users -> [Rooms -> Key]] /\ rows \subseteq Row
      /\ part \in [Rooms -> [Users -> Part]] /\ clock' \in Time
      /\ msg \in [Messages -> Rooms \cup {NoRoom, Gone}]
      /\ details \in [Rooms -> {"fresh", "p2p", "group", "nameless", "gone"}]
  BY DEF IInv, TypeOK, CallShape, Erase
<1>2. /\ call[c].pc = "find" /\ call[c].op = "close"
      /\ details' = [details EXCEPT ![r] = "gone"]
      /\ part' = [part EXCEPT ![r] = [u \in Users |-> NoPart]]
      /\ msg' = [m \in Messages |-> IF msg[m] = r THEN Gone ELSE msg[m]]
      /\ tangled' = tangled \cup {<<u, r>> : u \in {v \in Users : lookup[v][r] # NoKey}}
      /\ call' = [call EXCEPT ![c] = NoCall]
      /\ lookup' = lookup /\ rows' = rows
      /\ UNCHANGED <<pair, status, receipt, twins, overtaken>>
  BY DEF Erase, At, End
<1>3. r \in Rooms /\ details[r] # "fresh"
  BY <1>1, <1>2 DEF Shape
<1>4. NoCall \in Call /\ call'[c] = NoCall
  BY <1>1, <1>2, NoForms
<1>5. /\ Shape(c)' /\ Alone(c)' /\ \A u \in Users : /\ ~Writes(c, u)'
                                                    /\ \A q \in Rooms : ~Touches(c, u, q)'
  BY <1>4, NothingAsked
<1>6. /\ part' \in [Rooms -> [Users -> Part]] /\ \A u \in Users : part'[r][u] = NoPart
      /\ \A q \in Rooms \ {r} : part'[q] = part[q]
  BY <1>1, <1>2, <1>3, NoForms
<1>7. /\ details' \in [Rooms -> {"fresh", "p2p", "group", "nameless", "gone"}]
      /\ \A q \in Rooms : /\ details[q] = "fresh" <=> details'[q] = "fresh"
                          /\ details'[q] = "p2p" => details[q] = "p2p"
  BY <1>1, <1>2, <1>3
<1>8. /\ msg' \in [Messages -> Rooms \cup {NoRoom, Gone}]
      /\ \A m \in Messages : msg'[m] = NoRoom => msg[m] = NoRoom
  BY <1>1, <1>2, ScyllaRoomsAssumption
<1>9. \A u \in Users, q \in Rooms \ {r} :
        /\ part'[q][u] = part[q][u] /\ lookup'[u][q] = lookup[u][q] /\ Own(u, q)' = Own(u, q)
        /\ Leaves(c, u, q) => Leaves(c, u, q)'
  BY <1>2, <1>6 DEF Own, Leaves
<1>10. \A d \in Callers \ {c} : call'[d] = call[d]
  BY <1>1, <1>2
<1>11. ASSUME NEW u \in Users
       PROVE  /\ Kept(u, r)'
              /\ lookup'[u][r].at \in Time \/ lookup'[u][r] = NoKey
              /\ ~part'[r][u].in => part'[r][u] = NoPart
              /\ details[r] = "p2p" /\ Has(u, r)' => Has(u, r)
  <2>1. lookup'[u][r].at \in Time \/ lookup'[u][r] = NoKey
    BY <1>2, <1>3 DEF IInv, TableShape
  <2>2. part'[r][u] = NoPart /\ ~NoPart.in
    BY <1>6, NoForms
  <2>3. \A d \in Callers : Touches(d, u, r)' => Touches(d, u, r)
    BY <1>3, <1>5, <1>10 DEF Touches
  <2>4. Has(u, r)' => Has(u, r)
    BY <1>2, <2>2, <2>3 DEF Has
  <2>5. Kept(u, r)'
    <3>1. SUFFICES ASSUME <<u, r>> \notin tangled' PROVE Kept(u, r)'
      BY DEF Kept
    <3>2. lookup[u][r] = NoKey /\ <<u, r>> \notin tangled
      BY <1>2, <3>1
    <3>3. Own(u, r) = {}
      BY <1>3, <3>2 DEF IInv, Kept
    <3>4. Own(u, r)' = Own(u, r)
      BY <1>2 DEF Own
    <3> QED BY <1>2, <2>2, <3>2, <3>3, <3>4 DEF Kept
  <2> QED BY <2>1, <2>2, <2>4, <2>5
<1>12. OneRoom(c, r)
  BY <1>1, <1>2, <1>6, <1>7, <1>8, <1>9 DEF OneRoom
<1>13. \A u \in Users : /\ Writes(c, u)' => Writes(c, u) /\ NoCall.msg = call[c].msg
                        /\ \A q \in Rooms : Touches(c, u, q)' => Touches(c, u, q)
  BY <1>5
<1> QED BY <1>2, <1>3, <1>4, <1>5, <1>11, <1>12, <1>13, RoomStep, SMTT(20), ZenonT(60)

\* A request ends half way: who is in one table only is tangled.
LEMMA FailsKeeps ==
  ASSUME IInv, NEW c \in Callers, Fails(c)
  PROVE  IInv'
<1>1. /\ call \in [Callers -> Call] /\ Shape(c) /\ TypeOK
  BY DEF IInv, TypeOK, CallShape
<1>2. /\ call[c].op \in {"save", "leave", "close"}
      /\ tangled' = (IF call[c].op \in {"leave", "close"}
                     THEN tangled \cup Torn(call[c].room, call[c].to) ELSE tangled)
      /\ call' = [call EXCEPT ![c] = NoCall] /\ clock' = clock
      /\ details' = details /\ part' = part /\ lookup' = lookup /\ rows' = rows /\ pair' = pair
      /\ msg' = msg /\ status' = status /\ receipt' = receipt /\ twins' = twins
      /\ overtaken' = overtaken
  BY DEF Fails, End, lists, mail
<1>3. call'[c] = NoCall /\ \A d \in Callers \ {c} : call'[d] = call[d]
  BY <1>1, <1>2
<1>4. /\ Shape(c)' /\ Alone(c)'
      /\ \A u \in Users : /\ ~Writes(c, u)'
                          /\ \A q \in Rooms : ~Leaves(c, u, q)' /\ ~Touches(c, u, q)'
  BY <1>3, NothingAsked
<1>5. Onward
  BY <1>2 DEF Onward
<1>6. TypeOK'
  <2>1. call' \in [Callers -> Call]
    BY <1>1, <1>2, NoForms
  <2> QED BY <1>1, <1>2, <2>1 DEF TypeOK
<1>7. TableShape' /\ FreshShape' /\ ReadStaysRead'
  BY <1>2 DEF IInv, TableShape, FreshShape, ReadStaysRead
<1>8. ASSUME NEW u \in Users, NEW q \in Rooms PROVE Kept(u, q)'
  <2>1. Own(u, q)' = Own(u, q)
    BY <1>2 DEF Own
  <2>2. Kept(u, q) /\ tangled \subseteq tangled'
    BY <1>2 DEF IInv
  <2>3. part[q][u].in /\ lookup[u][q] = NoKey /\ Leaves(c, u, q) => <<u, q>> \in tangled'
    <3>1. ASSUME part[q][u].in, lookup[u][q] = NoKey, Leaves(c, u, q)
          PROVE  <<u, q>> \in tangled'
      <4>1. /\ call[c].op \in {"leave", "close"} /\ q = call[c].room /\ u \in call[c].to
        BY <3>1 DEF Leaves
      <4>2. <<u, q>> \in Torn(call[c].room, call[c].to)
        BY <3>1, <4>1 DEF Torn
      <4> QED BY <1>2, <4>1, <4>2
    <3> QED BY <3>1
  <2> QED BY <1>1, <1>2, <1>3, <2>1, <2>2, <2>3, KeptKeeps
<1>9. ASSUME NEW u \in Users, NEW q \in Rooms, Has(u, q)' PROVE Has(u, q)
  <2>1. \A d \in Callers : Touches(d, u, q)' => Touches(d, u, q)
    BY <1>3, <1>4 DEF Touches
  <2> QED BY <1>2, <1>9, <2>1 DEF Has
<1> QED BY <1>2, <1>4, <1>5, <1>6, <1>7, <1>8, <1>9, NoForms, Steady

\* The room r, which nobody had, is in the tables of the users named and of nobody else.
Filled(to, r, type) ==
  /\ clock' \in Time /\ details[r] = "fresh" /\ details' = [details EXCEPT ![r] = type]
  /\ details' \in [Rooms -> {"fresh", "p2p", "group", "nameless", "gone"}]
  /\ part' \in [Rooms -> [Users -> Part]] /\ lookup' \in [Users -> [Rooms -> Key]]
  /\ rows' \subseteq Row /\ \A z \in rows' : z.room # r => z \in rows
  /\ \A u \in Users, q \in Rooms \ {r} :
       /\ part'[q][u] = part[q][u] /\ lookup'[u][q] = lookup[u][q]
       /\ Own(u, q)' = Own(u, q)
  /\ \A u \in Users :
       /\ lookup'[u][r].at \in Time \/ lookup'[u][r] = NoKey
       /\ ~part'[r][u].in => part'[r][u] = NoPart
       /\ part'[r][u].in <=> u \in to
       /\ part'[r][u].in <=> lookup'[u][r] # NoKey
       /\ Own(u, r)' # {} <=> u \in to
       /\ \A z \in Own(u, r)' : /\ z.key = lookup'[u][r] /\ z.key # NoKey
                                /\ z.role = part'[r][u].role
                                /\ z.muted = part'[r][u].muted

\* What CreateRoom writes.
LEMMA Created ==
  ASSUME IInv, NEW o \in Users, NEW to \in SUBSET Users, NEW r \in Rooms, NEW t \in Time,
         NEW type \in {"p2p", "group"}, Create(o, to, r, type, t)
  PROVE  Filled(to, r, type)
<1> DEFINE key == [pin |-> FALSE, at |-> t]
           role(v) == IF v = o THEN "OWNER" ELSE "MEMBER"
           row(v) == Listing(v, r, key, role(v))
           new == [v \in Users |-> IF v \in to THEN Joined(role(v)) ELSE NoPart]
<1>1. /\ TypeOK /\ rows \subseteq Row
      /\ details \in [Rooms -> {"fresh", "p2p", "group", "nameless", "gone"}]
      /\ part \in [Rooms -> [Users -> Part]] /\ lookup \in [Users -> [Rooms -> Key]]
  BY DEF IInv, TypeOK
<1>2. /\ details[r] = "fresh" /\ clock' = t /\ details' = [details EXCEPT ![r] = type]
      /\ part' = [part EXCEPT ![r] = new]
      /\ lookup' = [v \in Users |-> IF v \in to THEN [lookup[v] EXCEPT ![r] = key] ELSE lookup[v]]
      /\ rows' = rows \cup {row(v) : v \in to}
  BY DEF Create, Now
<1>3. /\ \A u \in Users : lookup[u][r] = NoKey /\ ~part[r][u].in
      /\ \A z \in rows : z.room # r
  BY <1>2 DEF IInv, FreshShape
<1>4. key \in Key /\ key.at \in Time /\ key # NoKey
  <2>1. FALSE \in BOOLEAN
    OBVIOUS
  <2> QED BY <2>1, NewKeyForms
<1>5. \A v \in Users : role(v) \in Roles
  BY DEF Roles
<1> HIDE DEF key, role
<1>6. \A v \in Users : /\ Joined(role(v)) \in Part /\ Joined(role(v)).in
                       /\ Joined(role(v)).role = role(v) /\ Joined(role(v)).muted = FALSE
  BY <1>5, JoinedForms, JoinedMuted, Zenon
<1>7. \A v \in Users : /\ row(v) \in Row /\ row(v).user = v /\ row(v).room = r
                       /\ row(v).key = key /\ row(v).role = role(v)
                       /\ row(v).muted = Joined(role(v)).muted
  <2>1. \A v \in Users : /\ row(v) \in Row /\ row(v).user = v /\ row(v).room = r
                         /\ row(v).key = key /\ row(v).role = role(v)
    <3>1. TAKE v \in Users
    <3>2. role(v) \in Roles /\ key \in Key
      BY <1>4, <1>5
    <3> HIDE DEF role
    <3> QED BY <3>2, ListingForms
  <2>2. \A v \in Users : row(v).muted = Joined(role(v)).muted
    BY ListingMuted, JoinedMuted, Zenon
  <2> QED BY <2>1, <2>2
<1> HIDE DEF row
<1>8. /\ new \in [Users -> Part]
      /\ \A u \in Users : new[u] = IF u \in to THEN Joined(role(u)) ELSE NoPart
  <2>1. \A v \in Users : Joined(role(v)) \in Part
    BY <1>6
  <2>2. NoPart \in Part
    BY NoForms
  <2> QED BY <2>1, <2>2
<1> HIDE DEF new
<1>9. /\ part' \in [Rooms -> [Users -> Part]] /\ part'[r] = new
      /\ \A q \in Rooms \ {r} : part'[q] = part[q]
  BY <1>1, <1>2, <1>8
<1>10. /\ lookup' \in [Users -> [Rooms -> Key]]
       /\ \A u \in Users : /\ lookup'[u][r] = IF u \in to THEN key ELSE lookup[u][r]
                           /\ \A q \in Rooms \ {r} : lookup'[u][q] = lookup[u][q]
  <2>1. \A u \in Users : /\ [lookup[u] EXCEPT ![r] = key] \in [Rooms -> Key]
                         /\ [lookup[u] EXCEPT ![r] = key][r] = key
                         /\ \A q \in Rooms \ {r} : [lookup[u] EXCEPT ![r] = key][q] = lookup[u][q]
    BY <1>1, <1>4
  <2> QED BY <1>1, <1>2, <2>1
<1>11. rows' \subseteq Row /\ \A z \in rows' : z.room # r => z \in rows
  BY <1>1, <1>2, <1>7
<1>12. \A u \in Users, q \in Rooms \ {r} : Own(u, q)' = Own(u, q)
  BY <1>2, <1>7 DEF Own
<1>13. \A u \in Users : Own(u, r)' = IF u \in to THEN {row(u)} ELSE {}
  BY <1>2, <1>3, <1>7 DEF Own
<1>14. ASSUME NEW u \in Users
       PROVE  /\ lookup'[u][r].at \in Time \/ lookup'[u][r] = NoKey
              /\ ~part'[r][u].in => part'[r][u] = NoPart
              /\ part'[r][u].in <=> u \in to
              /\ part'[r][u].in <=> lookup'[u][r] # NoKey
              /\ Own(u, r)' # {} <=> u \in to
              /\ \A z \in Own(u, r)' : /\ z.key = lookup'[u][r] /\ z.key # NoKey
                                       /\ z.role = part'[r][u].role
                                       /\ z.muted = part'[r][u].muted
  <2>1. CASE u \in to
    <3>1. part'[r][u] = Joined(role(u)) /\ lookup'[u][r] = key /\ Own(u, r)' = {row(u)}
      BY <1>8, <1>9, <1>10, <1>13, <2>1
    <3>2. part'[r][u].in
      BY <1>6, <3>1
    <3>3. /\ row(u).key = lookup'[u][r] /\ row(u).role = part'[r][u].role
          /\ row(u).muted = part'[r][u].muted
      <4>1. row(u).key = lookup'[u][r] /\ row(u).role = part'[r][u].role
        BY <1>6, <1>7, <3>1
      <4>2. row(u).muted = Joined(role(u)).muted
        BY <1>7
      <4> QED BY <3>1, <4>1, <4>2
    <3> QED BY <1>4, <2>1, <3>1, <3>2, <3>3
  <2>2. CASE u \notin to
    <3>1. part'[r][u] = NoPart /\ lookup'[u][r] = NoKey /\ Own(u, r)' = {}
      BY <1>3, <1>8, <1>9, <1>10, <1>13, <2>2
    <3> QED BY <2>2, <3>1, NoForms
  <2> QED BY <2>1, <2>2
<1>15. details' \in [Rooms -> {"fresh", "p2p", "group", "nameless", "gone"}]
  BY <1>1, <1>2
<1> QED BY <1>2, <1>9, <1>10, <1>11, <1>12, <1>14, <1>15 DEF Filled

\* A step that creates a room keeps all that is not about pairs.
LEMMA NewRoom ==
  ASSUME IInv, NEW o \in Users, NEW to \in SUBSET Users, NEW r \in Rooms, NEW t \in Time,
         NEW type \in {"p2p", "group"}, Create(o, to, r, type, t),
         \A d \in Callers : \/ call'[d] = call[d]
                            \/ call'[d] = NoCall /\ call[d].pc = "make",
         call' \in [Callers -> Call], UNCHANGED <<mail, tangled, overtaken>>,
         pair' \in [Users \X Users -> Rooms \cup {NoRoom}],
         \A p \in Users \X Users : pair'[p] = pair[p] \/ pair'[p] = r
  PROVE  /\ TypeOK' /\ CallShape' /\ TableShape' /\ FreshShape' /\ ReadsKept' /\ ReadStaysRead'
         /\ \A u \in Users, q \in Rooms : Kept(u, q)'
         /\ \A u \in Users, q \in Rooms \ {r} : Has(u, q)' => Has(u, q)
         /\ \A u \in Users : Has(u, r)' => u \in to
         /\ details'[r] = type /\ \A q \in Rooms \ {r} : details'[q] = details[q]
<1>1. /\ clock' \in Time /\ details[r] = "fresh" /\ details' = [details EXCEPT ![r] = type]
      /\ details' \in [Rooms -> {"fresh", "p2p", "group", "nameless", "gone"}]
      /\ part' \in [Rooms -> [Users -> Part]] /\ lookup' \in [Users -> [Rooms -> Key]]
      /\ rows' \subseteq Row /\ \A z \in rows' : z.room # r => z \in rows
      /\ \A u \in Users, q \in Rooms \ {r} :
           /\ part'[q][u] = part[q][u] /\ lookup'[u][q] = lookup[u][q]
           /\ Own(u, q)' = Own(u, q)
      /\ \A u \in Users :
           /\ lookup'[u][r].at \in Time \/ lookup'[u][r] = NoKey
           /\ ~part'[r][u].in => part'[r][u] = NoPart
           /\ part'[r][u].in <=> u \in to
           /\ part'[r][u].in <=> lookup'[u][r] # NoKey
           /\ Own(u, r)' # {} <=> u \in to
           /\ \A z \in Own(u, r)' : /\ z.key = lookup'[u][r] /\ z.key # NoKey
                                    /\ z.role = part'[r][u].role
                                    /\ z.muted = part'[r][u].muted
  <2>1. Filled(to, r, type)
    BY Created
  <2> QED BY <2>1 DEF Filled
<1>2. TypeOK /\ CallShape /\ msg' = msg /\ status' = status /\ receipt' = receipt
      /\ tangled' = tangled /\ overtaken' = overtaken
      /\ details \in [Rooms -> {"fresh", "p2p", "group", "nameless", "gone"}]
  BY DEF IInv, TypeOK, mail
<1>3. details'[r] = type /\ \A q \in Rooms \ {r} : details'[q] = details[q]
  BY <1>1, <1>2
<1>4. TypeOK'
  BY <1>1, <1>2 DEF TypeOK
<1>5. CallShape'
  <2>1. ASSUME NEW d \in Callers PROVE Shape(d)'
    <3>1. CASE call'[d] = NoCall
      BY <3>1, NothingAsked
    <3>2. CASE call'[d] = call[d]
      <4>1. Shape(d) /\ Onward
        BY <1>1, <1>2, <1>3 DEF CallShape, Onward
      <4> QED BY <3>2, <4>1, SMT DEF Shape, Onward
    <3> QED BY <3>1, <3>2
  <2> QED BY <2>1 DEF CallShape
<1>6. TableShape'
  <2>1. ASSUME NEW u \in Users, NEW q \in Rooms
        PROVE  /\ lookup'[u][q].at \in Time \/ lookup'[u][q] = NoKey
               /\ ~part'[q][u].in => part'[q][u] = NoPart
    <3>1. CASE q = r
      BY <1>1, <3>1
    <3>2. CASE q # r
      <4>1. part'[q][u] = part[q][u] /\ lookup'[u][q] = lookup[u][q]
        BY <1>1, <3>2
      <4> QED BY <4>1 DEF IInv, TableShape
    <3> QED BY <3>1, <3>2
  <2>2. \A m \in Messages : msg'[m] = NoRoom => receipt'[m] = {}
    BY <1>2 DEF IInv, TableShape
  <2> QED BY <2>1, <2>2 DEF TableShape
<1>7. FreshShape'
  <2>1. ASSUME NEW q \in Rooms, details'[q] = "fresh"
        PROVE  /\ \A u \in Users : lookup'[u][q] = NoKey /\ ~part'[q][u].in
               /\ \A z \in rows' : z.room # q
               /\ \A p \in Users \X Users : pair'[p] # q
    <3>1. details[q] = "fresh" /\ q # r
      BY <1>3, <2>1
    <3>2. \A u \in Users : part'[q][u] = part[q][u] /\ lookup'[u][q] = lookup[u][q]
      BY <1>1, <3>1
    <3>3. /\ \A u \in Users : lookup[u][q] = NoKey /\ ~part[q][u].in
          /\ \A z \in rows : z.room # q
          /\ \A p \in Users \X Users : pair[p] # q
      BY <3>1 DEF IInv, FreshShape
    <3>4. \A z \in rows' : z.room # q
      BY <1>1, <3>1, <3>3
    <3>5. \A p \in Users \X Users : pair'[p] # q
      BY <3>1, <3>3
    <3> QED BY <3>2, <3>3, <3>4, <3>5
  <2> QED BY <2>1 DEF FreshShape
<1>8. ReadStaysRead'
  BY <1>2 DEF IInv, ReadStaysRead
<1>9. ReadsKept'
  <2>1. ASSUME NEW d \in Callers, NEW u \in Users, Writes(d, u)', u \in receipt[call'[d].msg]
        PROVE  <<call'[d].msg, u>> \in overtaken
    <3>1. call'[d] = call[d]
      BY <2>1, NoForms DEF Writes
    <3>2. Writes(d, u)
      BY <2>1, <3>1 DEF Writes, At
    <3> QED BY <2>1, <3>1, <3>2 DEF IInv, ReadsKept
  <2> QED BY <1>2, <2>1 DEF ReadsKept
<1>10. ASSUME NEW d \in Callers, NEW u \in Users, NEW q \in Rooms
       PROVE  /\ Leaves(d, u, q) => Leaves(d, u, q)'
              /\ Touches(d, u, q)' => Touches(d, u, q) /\ q # r
  <2>1. Shape(d)
    BY <1>2 DEF CallShape
  <2>2. Leaves(d, u, q) => Leaves(d, u, q)'
    <3>1. CASE call'[d] = call[d]
      BY <3>1 DEF Leaves
    <3>2. CASE call[d].pc = "make"
      BY <2>1, <3>2, ScyllaRoomsAssumption DEF Leaves, Shape
    <3> QED BY <3>1, <3>2
  <2>3. Touches(d, u, q)' => Touches(d, u, q) /\ q # r
    <3>1. CASE call'[d] = call[d]
      <4>1. Touches(d, u, q)' => Touches(d, u, q)
        BY <3>1 DEF Touches
      <4>2. Touches(d, u, q) => details[q] # "fresh"
        BY <2>1 DEF Touches, Shape
      <4> QED BY <1>1, <4>1, <4>2
    <3>2. CASE call'[d] = NoCall
      BY <3>2, NoForms DEF Touches
    <3> QED BY <3>1, <3>2
  <2> QED BY <2>2, <2>3
<1>11. ASSUME NEW u \in Users, NEW q \in Rooms PROVE Kept(u, q)'
  <2>1. CASE q = r
    <3>1. /\ \A z \in Own(u, r)' : /\ z.key = lookup'[u][r] /\ z.key # NoKey
                                   /\ z.role = part'[r][u].role /\ z.muted = part'[r][u].muted
          /\ lookup'[u][r] # NoKey => Own(u, r)' # {} /\ part'[r][u].in
          /\ ~(part'[r][u].in /\ lookup'[u][r] = NoKey)
      BY <1>1
    <3> QED BY <2>1, <3>1 DEF Kept
  <2>2. CASE q # r
    <3>1. part'[q][u] = part[q][u] /\ lookup'[u][q] = lookup[u][q] /\ Own(u, q)' = Own(u, q)
      BY <1>1, <2>2
    <3>2. Kept(u, q)
      BY DEF IInv
    <3>3. (\E d \in Callers : Leaves(d, u, q)) => \E d \in Callers : Leaves(d, u, q)'
      BY <1>10
    <3> QED BY <1>2, <3>1, <3>2, <3>3 DEF Kept
  <2> QED BY <2>1, <2>2
<1>12. ASSUME NEW u \in Users, NEW q \in Rooms \ {r}, Has(u, q)' PROVE Has(u, q)
  <2>1. part'[q][u] = part[q][u] /\ lookup'[u][q] = lookup[u][q]
    BY <1>1
  <2> QED BY <1>10, <1>12, <2>1 DEF Has
<1>13. ASSUME NEW u \in Users, Has(u, r)' PROVE u \in to
  <2>1. \A d \in Callers : ~Touches(d, u, r)'
    BY <1>10
  <2> QED BY <1>1, <1>13, <2>1 DEF Has
<1> QED BY <1>3, <1>4, <1>5, <1>6, <1>7, <1>8, <1>9, <1>11, <1>12, <1>13

\* CreateRoom makes a group.
LEMMA CreateGroupKeeps ==
  ASSUME IInv, NEW o \in Users, NEW to \in SUBSET Users, NEW r \in Rooms, NEW t \in Time,
         CreateGroup(o, to, r, t)
  PROVE  IInv'
<1>1. /\ Create(o, to \cup {o}, r, "group", t) /\ call' = call /\ pair' = pair /\ twins' = twins
      /\ UNCHANGED <<mail, tangled, overtaken>>
  BY DEF CreateGroup, history
<1>2. /\ call \in [Callers -> Call] /\ pair \in [Users \X Users -> Rooms \cup {NoRoom}]
      /\ to \cup {o} \in SUBSET Users /\ "group" \in {"p2p", "group"}
  BY DEF IInv, TypeOK
<1>3. /\ TypeOK' /\ CallShape' /\ TableShape' /\ FreshShape' /\ ReadsKept' /\ ReadStaysRead'
      /\ \A u \in Users, q \in Rooms : Kept(u, q)'
      /\ \A u \in Users, q \in Rooms \ {r} : Has(u, q)' => Has(u, q)
      /\ details'[r] = "group" /\ \A q \in Rooms \ {r} : details'[q] = details[q]
  BY <1>1, <1>2, NewRoom
<1>4. StillNone'
  BY <1>1 DEF IInv, StillNone, Alone, At
<1>5. Paired'
  <2>1. ASSUME NEW q \in Rooms, details'[q] = "p2p"
        PROVE  \E a, b \in Users : IsPair(q, a, b)'
    <3>1. q # r /\ details[q] = "p2p"
      BY <1>3, <2>1
    <3>2. PICK a \in Users, b \in Users : IsPair(q, a, b)
      BY <3>1 DEF IInv, Paired
    <3>3. IsPair(q, a, b)'
      BY <1>1, <1>3, <3>1, <3>2 DEF IsPair
    <3> QED BY <3>3
  <2> QED BY <2>1 DEF Paired
<1> QED BY <1>3, <1>4, <1>5 DEF IInv

\* sortUserIDs gives the two users in order.
LEMMA Sorted ==
  ASSUME NEW u \in Users, NEW v \in Users, u # v
  PROVE  \E a, b \in Users : sortUserIDs(u, v) = <<a, b>> /\ a < b /\ {a, b} = {u, v}
<1>1. CASE u < v
  BY <1>1 DEF sortUserIDs
<1>2. CASE ~(u < v)
  BY <1>2, ScyllaRoomsAssumption DEF sortUserIDs
<1> QED BY <1>1, <1>2

\* CreateRoom makes a p2p room, to which p2p_room_by_users leads from now on.
LEMMA CreatePairKeeps ==
  ASSUME IInv, NEW c \in Callers, NEW r \in Rooms, NEW t \in Time, CreatePair(c, r, t)
  PROVE  IInv'
<1>. SUFFICES ASSUME NEW x, x = call[c]
     PROVE  IInv'
  OBVIOUS
<1>1. /\ x.pc = "make" /\ Create(x.user, x.to, r, "p2p", t)
      /\ pair' = [pair EXCEPT ![sortUserIDs(x.user, x.subject)] = r]
      /\ twins' = (IF \E d \in Callers \ {c} : At(d, "make") /\ call[d].to = x.to
                   THEN twins \cup {x.to} ELSE twins)
      /\ call' = [call EXCEPT ![c] = NoCall]
      /\ UNCHANGED <<mail, tangled, overtaken>>
  BY DEF CreatePair, At, End
<1>2. /\ call \in [Callers -> Call] /\ pair \in [Users \X Users -> Rooms \cup {NoRoom}]
      /\ Shape(c)
  BY DEF IInv, TypeOK, CallShape
<1>3. /\ x.user \in Users /\ x.subject \in Users /\ x.user # x.subject
      /\ x.to = {x.user, x.subject} /\ x.room = NoRoom
  BY <1>1, <1>2 DEF Shape
<1>4. PICK a \in Users, b \in Users :
        sortUserIDs(x.user, x.subject) = <<a, b>> /\ a < b /\ {a, b} = x.to
  BY <1>3, Sorted, SMTT(30), ZenonT(20)
<1>5. /\ pair' \in [Users \X Users -> Rooms \cup {NoRoom}] /\ pair'[<<a, b>>] = r
      /\ \A p \in Users \X Users : p # <<a, b>> => pair'[p] = pair[p]
  BY <1>1, <1>2, <1>4
<1>6. /\ call'[c] = NoCall /\ \A d \in Callers \ {c} : call'[d] = call[d]
      /\ call' \in [Callers -> Call]
  BY <1>1, <1>2, NoForms
<1>7. \A d \in Callers : \/ call'[d] = call[d]
                         \/ call'[d] = NoCall /\ call[d].pc = "make"
  BY <1>1, <1>6
<1>8. /\ TypeOK' /\ CallShape' /\ TableShape' /\ FreshShape' /\ ReadsKept' /\ ReadStaysRead'
      /\ \A u \in Users, q \in Rooms : Kept(u, q)'
      /\ \A u \in Users, q \in Rooms \ {r} : Has(u, q)' => Has(u, q)
      /\ \A u \in Users : Has(u, r)' => u \in x.to
      /\ details'[r] = "p2p" /\ \A q \in Rooms \ {r} : details'[q] = details[q]
  <2>1. \A p \in Users \X Users : pair'[p] = pair[p] \/ pair'[p] = r
    BY <1>5
  <2>2. x.to \in SUBSET Users /\ "p2p" \in {"p2p", "group"}
    BY <1>3
  <2> QED BY <1>1, <1>3, <1>5, <1>6, <1>7, <2>1, <2>2, NewRoom
<1>9. pair[<<a, b>>] = NoRoom \/ x.to \in twins
  BY <1>1, <1>4 DEF IInv, StillNone, Alone, At
<1>10. twins \subseteq twins'
  BY <1>1
<1>11. Paired'
  <2>1. ASSUME NEW q \in Rooms, details'[q] = "p2p"
        PROVE  \E e, f \in Users : IsPair(q, e, f)'
    <3>1. CASE q = r
      <4>1. IsPair(r, a, b)'
        BY <1>4, <1>5, <1>8 DEF IsPair
      <4> QED BY <3>1, <4>1
    <3>2. CASE q # r
      <4>1. details[q] = "p2p"
        BY <1>8, <2>1, <3>2
      <4>2. PICK e \in Users, f \in Users : IsPair(q, e, f)
        BY <4>1 DEF IInv, Paired
      <4>3. pair'[<<e, f>>] = q \/ {e, f} \in twins'
        <5>1. CASE <<e, f>> = <<a, b>>
          BY <1>4, <1>9, <1>10, <4>2, <5>1, ScyllaRoomsAssumption DEF IsPair
        <5>2. CASE <<e, f>> # <<a, b>>
          BY <1>5, <1>10, <4>2, <5>2 DEF IsPair
        <5> QED BY <5>1, <5>2
      <4>4. IsPair(q, e, f)'
        BY <1>8, <3>2, <4>2, <4>3 DEF IsPair
      <4> QED BY <4>4
    <3> QED BY <3>1, <3>2
  <2> QED BY <2>1 DEF Paired
<1>12. StillNone'
  <2>1. ASSUME NEW d \in Callers PROVE Alone(d)'
    <3>1. CASE d = c
      BY <1>6, <3>1, NothingAsked
    <3>2. CASE d # c
      <4>1. call'[d] = call[d]
        BY <1>6, <3>2
      <4>2. SUFFICES ASSUME At(d, "make") PROVE Alone(d)'
        BY <4>1 DEF Alone, At
      <4>3. /\ call[d].user \in Users /\ call[d].subject \in Users
            /\ call[d].user # call[d].subject /\ call[d].to = {call[d].user, call[d].subject}
        BY <4>2 DEF IInv, CallShape, Shape, At
      <4>4. PICK e \in Users, f \in Users :
              sortUserIDs(call[d].user, call[d].subject) = <<e, f>> /\ {e, f} = call[d].to
        <5>1. PICK u \in Users, v \in Users :
                u = call[d].user /\ v = call[d].subject /\ u # v /\ call[d].to = {u, v}
          BY <4>3
        <5>2. PICK e \in Users, f \in Users : sortUserIDs(u, v) = <<e, f>> /\ {e, f} = {u, v}
          BY <5>1, Sorted
        <5> QED BY <5>1, <5>2
      <4>5. pair[<<e, f>>] = NoRoom \/ call[d].to \in twins
        BY <4>2, <4>4 DEF IInv, StillNone, Alone
      <4>6. CASE <<e, f>> = <<a, b>>
        <5>1. call[d].to = x.to
          BY <1>4, <4>4, <4>6
        <5>2. call[d].to \in twins'
          BY <1>1, <3>2, <4>2, <5>1
        <5> QED BY <4>1, <5>2 DEF Alone
      <4>7. CASE <<e, f>> # <<a, b>>
        <5>1. pair'[<<e, f>>] = pair[<<e, f>>]
          BY <1>5, <4>7
        <5> QED BY <1>10, <4>1, <4>4, <4>5, <5>1 DEF Alone
      <4> QED BY <4>6, <4>7
    <3> QED BY <3>1, <3>2
  <2> QED BY <2>1 DEF StillNone
<1> QED BY <1>8, <1>11, <1>12 DEF IInv

\* The first states have the invariant: the rooms that CreateRoom made before are complete.
LEMMA InitInv ==
  ASSUME Init
  PROVE  IInv
<1>1. /\ clock = 1 /\ msg = [m \in Messages |-> NoRoom]
      /\ status = [m \in Messages |-> [u \in Users |-> "none"]]
      /\ receipt = [m \in Messages |-> {}] /\ call = [c \in Callers |-> NoCall]
  BY DEF Init
<1>0. \E o \in Users, type \in {"p2p", "group"}, old \in {{}} \cup {{r} : r \in Rooms},
         pin \in BOOLEAN, to \in SUBSET Users : Begun(o, type, old, pin, to)
  BY DEF Init
<1>2. PICK o \in Users, type \in {"p2p", "group"}, old \in {{}} \cup {{r} : r \in Rooms},
           pin \in BOOLEAN, to \in SUBSET Users : Begun(o, type, old, pin, to)
  BY <1>0
<1> DEFINE role(u) == IF u = o THEN "OWNER" ELSE "MEMBER"
           key     == [pin |-> pin, at |-> 1]
           first   == CHOOSE r \in Rooms : r \in old
<1>3. /\ o \in to /\ (type = "p2p" => \E u \in Users \ {o} : to = {o, u})
      /\ details = [r \in Rooms |-> IF r \in old THEN type ELSE "fresh"]
      /\ part = [r \in Rooms |-> [u \in Users |->
                   IF r \in old /\ u \in to THEN Joined(role(u)) ELSE NoPart]]
      /\ lookup = [u \in Users |-> [r \in Rooms |->
                     IF r \in old /\ u \in to THEN key ELSE NoKey]]
      /\ rows = {Listing(u, r, key, role(u)) : u \in to, r \in old}
      /\ pair = [p \in Users \X Users |->
                   IF type = "p2p" /\ old # {} /\ {p[1], p[2]} = to /\ p[1] < p[2]
                   THEN first ELSE NoRoom]
  BY <1>2 DEF Begun
<1>4. key \in Key /\ key.at \in Time /\ key # NoKey /\ 1 \in Time /\ NoKey \in Key
  <2>1. 1 \in Time
    BY ScyllaRoomsAssumption, SMT DEF Time
  <2> QED BY <2>1, NewKeyForms, NoForms
<1>5. \A u \in Users : role(u) \in Roles
  BY DEF Roles
<1>6. old \subseteq Rooms /\ \A r \in old : first = r
  <2>1. old \subseteq Rooms /\ \A r \in old : old = {r}
    OBVIOUS
  <2>2. ASSUME NEW r \in old PROVE first \in old
    <3>1. \E q \in Rooms : q \in old
      BY <2>1
    <3> QED BY <3>1
  <2> QED BY <2>1, <2>2
<1> HIDE DEF key, role, first
<1>7. \A u \in Users : /\ Joined(role(u)) \in Part /\ Joined(role(u)).in
                       /\ Joined(role(u)).role = role(u)
  BY <1>5, JoinedForms
<1>8. /\ \A r \in Rooms : details[r] = IF r \in old THEN type ELSE "fresh"
      /\ \A r \in Rooms, u \in Users :
           /\ part[r][u] = IF r \in old /\ u \in to THEN Joined(role(u)) ELSE NoPart
           /\ lookup[u][r] = IF r \in old /\ u \in to THEN key ELSE NoKey
  BY <1>3
<1>9. \A u \in to, r \in old :
        /\ Listing(u, r, key, role(u)) \in Row /\ Listing(u, r, key, role(u)).user = u
        /\ Listing(u, r, key, role(u)).room = r /\ Listing(u, r, key, role(u)).key = key
        /\ Listing(u, r, key, role(u)).role = role(u)
  BY <1>4, <1>5, <1>6, ListingForms
<1>10. TypeOK
  <2>1. details \in [Rooms -> {"fresh", "p2p", "group", "nameless", "gone"}]
    BY <1>3
  <2>2. part \in [Rooms -> [Users -> Part]]
    BY <1>3, <1>7, NoForms
  <2>3. lookup \in [Users -> [Rooms -> Key]]
    BY <1>3, <1>4
  <2>4. rows \subseteq Row
    BY <1>3, <1>9
  <2>5. pair \in [Users \X Users -> Rooms \cup {NoRoom}]
    BY <1>3, <1>6
  <2>6. call \in [Callers -> Call]
    BY <1>1, NoForms
  <2> QED BY <1>1, <1>4, <2>1, <2>2, <2>3, <2>4, <2>5, <2>6 DEF TypeOK
<1>11. \A c \in Callers : call[c].pc = "idle" /\ call[c].op = "none" /\ call[c].room = NoRoom
  BY <1>1, NoForms
<1>12. CallShape /\ ReadsKept /\ StillNone
  <2>1. ReadsKept
    BY <1>11 DEF ReadsKept, Writes
  <2>2. StillNone
    BY <1>11 DEF StillNone, Alone, At
  <2>3. CallShape
    BY <1>11, SMT DEF CallShape, Shape
  <2> QED BY <2>1, <2>2, <2>3
<1>13. TableShape /\ ReadStaysRead
  <2>1. \A u \in Users, r \in Rooms : /\ lookup[u][r].at \in Time \/ lookup[u][r] = NoKey
                                      /\ ~part[r][u].in => part[r][u] = NoPart
    BY <1>4, <1>7, <1>8
  <2> QED BY <1>1, <2>1 DEF TableShape, ReadStaysRead
<1>14. FreshShape
  <2>1. ASSUME NEW r \in Rooms, details[r] = "fresh"
        PROVE  /\ \A u \in Users : lookup[u][r] = NoKey /\ ~part[r][u].in
               /\ \A z \in rows : z.room # r
               /\ \A p \in Users \X Users : pair[p] # r
    <3>1. r \notin old
      BY <1>8, <2>1
    <3>2. \A u \in Users : lookup[u][r] = NoKey /\ ~part[r][u].in
      BY <1>8, <3>1, NoForms
    <3>3. \A z \in rows : z.room # r
      BY <1>3, <1>9, <3>1
    <3>4. \A p \in Users \X Users : pair[p] # r
      BY <1>3, <1>6, <3>1, ScyllaRoomsAssumption
    <3> QED BY <3>2, <3>3, <3>4
  <2> QED BY <2>1 DEF FreshShape
<1>15. ASSUME NEW u \in Users, NEW r \in Rooms PROVE Kept(u, r)
  <2>1. CASE r \in old /\ u \in to
    <3>1. part[r][u] = Joined(role(u)) /\ lookup[u][r] = key
      BY <1>8, <2>1
    <3>2. Own(u, r) = {Listing(u, r, key, role(u))}
      BY <1>3, <1>9, <2>1 DEF Own
    <3>3. Listing(u, r, key, role(u)).muted = part[r][u].muted
      BY <3>1, ListingMuted, JoinedMuted, Zenon
    <3>4. /\ Listing(u, r, key, role(u)).key = lookup[u][r]
          /\ Listing(u, r, key, role(u)).role = part[r][u].role /\ part[r][u].in
      BY <1>7, <1>9, <2>1, <3>1
    <3> QED BY <1>4, <3>1, <3>2, <3>3, <3>4 DEF Kept
  <2>2. CASE ~(r \in old /\ u \in to)
    <3>1. part[r][u] = NoPart /\ lookup[u][r] = NoKey
      BY <1>8, <2>2
    <3>2. Own(u, r) = {}
      BY <1>3, <1>9, <2>2 DEF Own
    <3> QED BY <3>1, <3>2, NoForms DEF Kept
  <2> QED BY <2>1, <2>2
<1>16. Paired
  <2>1. ASSUME NEW r \in Rooms, details[r] = "p2p" PROVE \E a, b \in Users : IsPair(r, a, b)
    <3>1. r \in old /\ type = "p2p"
      BY <1>8, <2>1
    <3>2. PICK v \in Users \ {o} : to = {o, v}
      BY <1>3, <3>1
    <3>3. PICK a \in Users, b \in Users : a < b /\ {a, b} = to
      BY <3>2, Sorted
    <3>4. pair[<<a, b>>] = r
      BY <1>3, <1>6, <3>1, <3>3
    <3>5. \A u \in Users : Has(u, r) => u \in to
      <4>1. \A u \in Users, c \in Callers : ~Touches(c, u, r)
        BY <1>11, ScyllaRoomsAssumption DEF Touches
      <4> QED BY <1>8, <4>1, NoForms DEF Has
    <3> QED BY <3>3, <3>4, <3>5 DEF IsPair
  <2> QED BY <2>1 DEF Paired
<1> QED BY <1>10, <1>12, <1>13, <1>14, <1>15, <1>16 DEF IInv

\* The arrival of a request keeps the invariant.
LEMMA AskStep ==
  ASSUME IInv, NEW c \in Callers, NEW u \in Users, NEW r \in Rooms,
         \/ AskPin(c, u, r) \/ AskMute(c, u, r) \/ AskRole(c, u, r)
         \/ AskAdd(c, u, r) \/ AskEdit(c, u, r) \/ AskLeave(c, u, r)
  PROVE  IInv'
BY AskPinKeeps, AskMuteKeeps, AskRoleKeeps, AskAddKeeps, AskEditKeeps, AskLeaveKeeps, Zenon

\* A step that takes nothing but the request keeps the invariant.
LEMMA OwnStep ==
  ASSUME IInv, NEW c \in Callers,
         \/ ListParticipants(c) \/ CopyRow(c) \/ MoveRow(c) \/ StartStatus(c) \/ EndSave(c)
         \/ SetColumn(c) \/ UpdateRoom(c) \/ DropRow(c) \/ DropFails(c) \/ Strike(c) \/ Erase(c)
         \/ Fails(c)
  PROVE  IInv'
BY ListParticipantsKeeps, CopyRowKeeps, MoveRowKeeps, StartStatusKeeps, EndSaveKeeps,
   SetColumnKeeps, UpdateRoomKeeps, DropRowKeeps, DropFailsKeeps, StrikeKeeps, EraseKeeps,
   FailsKeeps, Zenon

\* A step of a request keeps the invariant.
LEMMA StepInv ==
  ASSUME IInv, NEW c \in Callers, Step(c)
  PROVE  IInv'
<1>1. CASE \E u \in Users, r \in Rooms :
             \/ AskPin(c, u, r) \/ AskMute(c, u, r) \/ AskRole(c, u, r)
             \/ AskAdd(c, u, r) \/ AskEdit(c, u, r) \/ AskLeave(c, u, r)
  BY <1>1, AskStep, Zenon
<1>2. CASE \E u \in Users, r \in Rooms, m \in Messages, t \in Time : StoreMessage(c, u, r, m, t)
  BY <1>2, StoreMessageKeeps
<1>3. CASE \E u, v \in Users : LookupPair(c, u, v)
  BY <1>3, LookupPairKeeps
<1>4. CASE \E r \in Rooms, t \in Time : CreatePair(c, r, t)
  BY <1>4, CreatePairKeeps
<1>5. CASE \E u \in Users : Find(c, u) \/ SetStatus(c, u)
  BY <1>5, FindKeeps, SetStatusKeeps
<1>6. CASE \E u \in Users, t \in Time : AddParticipant(c, u, t)
  BY <1>6, AddParticipantKeeps
<1>7. CASE \/ ListParticipants(c) \/ CopyRow(c) \/ MoveRow(c) \/ StartStatus(c) \/ EndSave(c)
           \/ SetColumn(c) \/ UpdateRoom(c) \/ DropRow(c) \/ DropFails(c) \/ Strike(c)
           \/ Erase(c) \/ Fails(c)
  BY <1>7, OwnStep, Zenon
<1> QED BY <1>1, <1>2, <1>3, <1>4, <1>5, <1>6, <1>7, Zenon DEF Step

\* Every step keeps the invariant.
LEMMA StepKeeps ==
  ASSUME IInv, [Next]_vars
  PROVE  IInv'
<1>1. CASE \E c \in Callers : Step(c)
  BY <1>1, StepInv
<1>2. CASE \E u \in Users, to \in SUBSET Users, r \in Rooms, t \in Time : CreateGroup(u, to, r, t)
  BY <1>2, CreateGroupKeeps
<1>3. CASE \E u \in Users, r \in Rooms, ids \in SUBSET Messages : MarkAsRead(u, r, ids)
  BY <1>3, MarkAsReadKeeps
<1>4. CASE UNCHANGED vars
  <2>1. /\ clock' = clock /\ details' = details /\ part' = part /\ lookup' = lookup
        /\ rows' = rows /\ pair' = pair /\ msg' = msg /\ status' = status
        /\ receipt' = receipt /\ call' = call /\ tangled' = tangled /\ twins' = twins
        /\ overtaken' = overtaken
    BY <1>4 DEF vars, lists, mail, history
  <2>2. TypeOK' /\ TableShape' /\ FreshShape' /\ ReadStaysRead'
    BY <2>1 DEF IInv, TypeOK, TableShape, FreshShape, ReadStaysRead
  <2>3. CallShape'
    BY <2>1 DEF IInv, CallShape, Shape
  <2>4. ReadsKept' /\ StillNone'
    BY <2>1 DEF IInv, ReadsKept, Writes, StillNone, Alone, At
  <2>5. Paired'
    <3>1. \A r \in Rooms, u \in Users : Has(u, r)' <=> Has(u, r)
      BY <2>1 DEF Has, Touches
    <3>2. \A r \in Rooms : \A a, b \in Users : IsPair(r, a, b) => IsPair(r, a, b)'
      BY <2>1, <3>1 DEF IsPair
    <3> QED BY <2>1, <3>2 DEF IInv, Paired
  <2>6. \A u \in Users, r \in Rooms : Kept(u, r)'
    BY <2>1 DEF IInv, Kept, Own, Leaves
  <2> QED BY <2>2, <2>3, <2>4, <2>5, <2>6 DEF IInv
<1> QED BY <1>1, <1>2, <1>3, <1>4, Zenon DEF Next

\* IInv is an inductive invariant of the ScyllaDB repository.
THEOREM Invariance == Spec => []IInv
BY InitInv, StepKeeps, PTL DEF Spec

\* The tables hold what their columns can hold.
THEOREM TypeCorrect == Spec => []TypeOK
<1>1. IInv => TypeOK
  BY DEF IInv
<1> QED BY <1>1, Invariance, PTL

\* A room is once in the list of each of its users, under the key of the lookup table,
\* and not in anybody else's, whatever messages, pins, mutes, joins and departures come.
THEOREM OnceInTheList == Spec => []ListedOnce
<1>1. IInv => ListedOnce
  <2>1. SUFFICES ASSUME IInv, NEW u \in Users, NEW r \in Rooms, <<u, r>> \notin tangled
                 PROVE  {x.key : x \in {y \in GetRoomList(u) : y.room = r}} =
                          (IF lookup[u][r] = NoKey THEN {} ELSE {lookup[u][r]})
    BY DEF ListedOnce
  <2>2. {y \in GetRoomList(u) : y.room = r} = Own(u, r)
    BY DEF GetRoomList, Own
  <2>3. /\ \A y \in Own(u, r) : y.key = lookup[u][r] /\ y.key # NoKey
        /\ lookup[u][r] # NoKey => Own(u, r) # {}
    BY <2>1 DEF IInv, Kept
  <2> QED BY <2>2, <2>3
<1> QED BY <1>1, Invariance, PTL

\* Who is a participant has the room in their list with the same role and mute, and who
\* has left is in neither table, when nobody is leaving.
THEOREM BothTablesAgree == Spec => []TablesAgree
<1>1. IInv => TablesAgree
  <2>1. SUFFICES ASSUME IInv, NEW u \in Users, NEW r \in Rooms, <<u, r>> \notin tangled, ~Leaving(r)
                 PROVE  /\ part[r][u].in <=> lookup[u][r] # NoKey
                        /\ \A y \in RowAt(u, r, lookup[u][r]) :
                             y.role = part[r][u].role /\ y.muted = part[r][u].muted
    BY DEF TablesAgree
  <2>2. /\ \A y \in Own(u, r) : y.role = part[r][u].role /\ y.muted = part[r][u].muted
        /\ lookup[u][r] # NoKey => part[r][u].in
        /\ part[r][u].in /\ lookup[u][r] = NoKey => \E c \in Callers : Leaves(c, u, r)
    BY <2>1, Zenon DEF IInv, Kept
  <2>3. \A c \in Callers : ~Leaves(c, u, r)
    BY <2>1 DEF Leaving, Leaves
  <2>4. RowAt(u, r, lookup[u][r]) \subseteq Own(u, r)
    BY DEF RowAt, GetRoomList, Own
  <2> QED BY <2>2, <2>3, <2>4, Zenon
<1> QED BY <1>1, Invariance, PTL

\* The DELIVERED of SaveMessage does not go over the READ of MarkMessagesAsRead.
THEOREM ReadIsKept == Spec => []ReadStaysRead
<1>1. IInv => ReadStaysRead
  BY DEF IInv
<1> QED BY <1>1, Invariance, PTL

\* CreateRoom leads two users who share a p2p room to that room.
THEOREM PairFinds == Spec => []PairIsFound
<1>1. IInv => PairIsFound
  <2>1. SUFFICES ASSUME IInv, NEW r \in Rooms, details[r] = "p2p",
                        GetRoomParticipants(r) \notin twins,
                        NEW u \in GetRoomParticipants(r), NEW v \in GetRoomParticipants(r), u < v
                 PROVE  pair[<<u, v>>] = r
    BY DEF PairIsFound
  <2>2. PICK a \in Users, b \in Users : IsPair(r, a, b)
    BY <2>1 DEF IInv, Paired
  <2>3. a < b /\ a \in Nat /\ b \in Nat /\ u \in Nat /\ v \in Nat
    BY <2>2, ScyllaRoomsAssumption DEF IsPair, GetRoomParticipants
  <2>4. GetRoomParticipants(r) \subseteq {a, b}
    BY <2>2 DEF IsPair, Has, GetRoomParticipants
  <2>5. u = a /\ v = b
    BY <2>1, <2>3, <2>4
  <2>6. GetRoomParticipants(r) = {a, b}
    BY <2>4, <2>5
  <2> QED BY <2>1, <2>2, <2>5, <2>6 DEF IsPair
<1> QED BY <1>1, Invariance, PTL
==============================================================================
