----------------------------- MODULE EventStream -----------------------------
(***************************************************************************)
(* StreamMessages: how one client of one user follows the events of the     *)
(* user's rooms.  Handlers dispatch an event for every change; the          *)
(* dispatcher's workers publish it to the JetStream stream under the        *)
(* subject of its room, or of the user who joins for a RoomJoin.  A session *)
(* of the client consumes a durable consumer per room and one for the       *)
(* user's own subject.  Each ConsumeContext calls handleJetStreamMessage    *)
(* for one event at a time, in a goroutine of its own, and acknowledges     *)
(* what it returns from.  The callbacks and StreamMessages itself share the *)
(* map roomsConsumers without a lock; a client has one session at a time.   *)
(*                                                                          *)
(* An event that a context has fetched and not begun to handle counts as    *)
(* not delivered: it differs only in the time until it can be.              *)
(***************************************************************************)
EXTENDS Naturals, Sequences, FiniteSets

CONSTANTS Rooms,        \* the rooms the user may be a member of
          MaxEvents,    \* bound on the events dispatched
          MaxContexts,  \* bound on the ConsumeContexts that run at once
          MaxSessions,  \* bound on the sessions the client opens
          PerSubject,   \* events the stream retains per subject (1000)
          Direct,       \* the subject of the user
          Nothing       \* no room, no subject, no context, no event

ASSUME StreamAssumption ==
  /\ MaxEvents \in Nat /\ MaxContexts \in Nat /\ MaxSessions \in Nat
  /\ PerSubject \in Nat \ {0}
  /\ Direct \notin Rooms /\ Nothing \notin Rooms \cup {Direct}
  /\ Nothing \notin Nat

VARIABLES
  members,  \* the rooms the user is a member of
  event,    \* what each event says
  outbox,   \* events the dispatcher has not published yet
  log,      \* the stream: the published events, in order
  durable,  \* the client's durable consumer of each subject
  session,  \* the StreamMessages call
  ctx,      \* the ConsumeContexts and the callback each is running
  mapped,   \* roomsConsumers of each session
  sent,     \* the events the client was sent
  unsent,   \* history: events acknowledged or dropped without being sent
  astray    \* history: rooms the running session has a reason not to follow

stream == <<event, outbox, log>>
vars   == <<members, event, outbox, log, durable, session, ctx, mapped, sent,
            unsent, astray>>
------------------------------------------------------------------------------
Events   == 1..MaxEvents
Contexts == 1..MaxContexts
Sessions == 1..MaxSessions
Subjects == Rooms \cup {Direct}

\* A RoomJoin or RoomLeave of the user, an IsRoomUpdated, a StatusUpdate SENT of
\* somebody else's message, and any other event of the room.
Kind    == {"join", "leave", "update", "foreign", "message"}
Event   == [kind : Kind \cup {"none"}, room : Rooms \cup {Nothing}]
NoEvent == [kind |-> "none", room |-> Nothing]

\* ChatEvent.Subject.
Subject(e) == IF event[e].kind = "join" THEN Direct ELSE event[e].room

\* A durable consumer: the events it still has to deliver, and those it has
\* delivered and that are not acknowledged.
Durable   == [exists : BOOLEAN, ready : SUBSET Events, out : SUBSET Events]
NoDurable == [exists |-> FALSE, ready |-> {}, out |-> {}]
Pending(e) == \E s \in Subjects : e \in durable[s].ready \cup durable[s].out

\* "id" is the number of the session, or of the last one; "todo" is the rooms of
\* GetRoomList still to be subscribed, "up" whether the client is connected.
SessionPc == {"off", "direct", "loop", "active"}
Session   == [id : Sessions \cup {0}, pc : SessionPc, up : BOOLEAN,
              todo : SUBSET Rooms]
\* Mutant: the number moves on when a session ends.
NoSessionCounted(n) ==
  [id |-> n + 1, pc |-> "off", up |-> FALSE, todo |-> {}]
NoSession(n) == [id |-> n, pc |-> "off", up |-> FALSE, todo |-> {}]
Current == session.id
NoMap   == [s \in Subjects |-> Nothing]

\* Whether the map of the running session holds a context for the event's subject.
Followed(e) == /\ session.pc # "off"
               /\ \E s \in Subjects : s = Subject(e) /\ mapped[Current][s] # Nothing

\* "live" until Stop; "orphan" (history) when no map of a running session has it.
ContextPc == {"idle", "got", "consume", "send", "ack"}
Context   == [live : BOOLEAN, subject : Subjects \cup {Nothing}, of : Sessions \cup {0},
              orphan : BOOLEAN, pc : ContextPc, event : Events \cup {Nothing}]
Free      == [live |-> FALSE, subject |-> Nothing, of |-> 0, orphan |-> FALSE,
              pc |-> "idle", event |-> Nothing]
Started(s, n) == [Free EXCEPT !.live = TRUE, !.subject = s, !.of = n]
Orphaned(x)   == [x EXCEPT !.orphan = TRUE]
Stale(c)      == session.pc = "off" \/ ctx[c].of # Current

\* Stop: the callback that is running goes on.
Stopped(x) == IF x.pc = "idle" THEN Free ELSE [x EXCEPT !.live = FALSE]

\* The next free context.
Fresh(d) == /\ d \in Contexts /\ ctx[d] = Free
            /\ \A x \in 1..(d - 1) : ctx[x] # Free

Init ==
  /\ members \in SUBSET Rooms
  /\ event = [e \in Events |-> NoEvent]
  /\ outbox = {}
  /\ log = <<>>
  /\ durable = [s \in Subjects |-> NoDurable]
  /\ session = NoSession(0)
  /\ ctx = [c \in Contexts |-> Free]
  /\ mapped = [n \in Sessions |-> NoMap]
  /\ sent = {} /\ unsent = {} /\ astray = {}
------------------------------------------------------------------------------
(* Publishing.                                                              *)

\* publishChatEvent hands the event to the dispatcher.
Dispatch(e, kind, r) ==
  /\ event[e] = NoEvent
  /\ \A x \in 1..(e - 1) : event[x] # NoEvent
  /\ event' = [event EXCEPT ![e] = [kind |-> kind, room |-> r]]
  /\ outbox' = outbox \cup {e}

\* AddParticipantToRoom and CreateRoom; LeaveRoom.  A handler that fails before it
\* publishes is one whose event is dispatched and lost, see PublishFails.
JoinRoom(e, r) ==
  /\ r \notin members
  /\ members' = members \cup {r}
  /\ Dispatch(e, "join", r)
  /\ UNCHANGED <<log, durable, session, ctx, mapped, sent, unsent, astray>>

LeaveRoom(e, r) ==
  /\ r \in members
  /\ members' = members \ {r}
  /\ Dispatch(e, "leave", r)
  /\ UNCHANGED <<log, durable, session, ctx, mapped, sent, unsent, astray>>

\* An event of the room that no membership goes with.
RoomEvent(e, kind, r) ==
  /\ Dispatch(e, kind, r)
  /\ UNCHANGED <<members, log, durable, session, ctx, mapped, sent, unsent, astray>>

\* The fan-out publishes the message and, for its sender, the status SENT; an
\* IsRoomUpdated comes from UpdateRoom, MuteRoom and UpdateParticipantRoom.
SendMessage(e, r) == RoomEvent(e, "message", r)
UpdateRoom(e, r)  == RoomEvent(e, "update", r)
FanoutEnded(e, r) == RoomEvent(e, "foreign", r)

OfSubject(s) == {i \in 1..Len(log) : Subject(log[i]) = s}

\* The event that is dropped when s has one more than the stream retains.
Oldest(s) ==
  {log[i] : i \in {j \in OfSubject(s) :
     Cardinality({k \in OfSubject(s) : k >= j}) = PerSubject}}

\* Any of the dispatcher's workers may be the first to publish.  The consumers of
\* the subject get the event; the oldest one leaves the stream at the limit.
Publish(e) ==
  LET s    == Subject(e)
      old  == Oldest(s)
      lost == {d \in old : Pending(d) /\ d \notin sent}
  IN /\ e \in outbox
     /\ outbox' = outbox \ {e}
     /\ log' = Append(log, e)
     /\ durable' = [durable EXCEPT
          ![s].ready = (@ \ old) \cup (IF durable[s].exists THEN {e} ELSE {}),
          ![s].out = @ \ old]
     /\ unsent' = unsent \cup lost
     /\ astray' = IF event[e].kind = "join" /\ session.pc = "direct" /\ ~durable[s].exists
                  THEN astray \cup {event[e].room} ELSE astray
     /\ UNCHANGED <<members, event, session, ctx, mapped, sent>>

\* MaxAge: what is older than seven days leaves the stream, oldest first.  An event
\* that a context holds at that time counts as given out again and expired.
Expire(e) ==
  /\ Pending(e) /\ e \in durable[Subject(e)].ready
  /\ \A i, j \in 1..Len(log) : log[j] = e /\ i < j => ~Pending(log[i])
  /\ durable' = [durable EXCEPT ![Subject(e)].ready = @ \ {e}]
  /\ unsent' = IF e \in sent THEN unsent ELSE unsent \cup {e}
  /\ UNCHANGED <<members, stream, session, ctx, mapped, sent, astray>>

PublishFails(e) ==
  /\ e \in outbox
  /\ outbox' = outbox \ {e}
  /\ UNCHANGED <<members, event, log, durable, session, ctx, mapped, sent,
                 unsent, astray>>
------------------------------------------------------------------------------
(* StreamMessages.                                                          *)

\* The session begins and asks for the user's rooms (GetRoomList).  A room the client
\* asks for and is not a member of is ignored.
Open(only) ==
  /\ session.pc = "off"
  /\ Current < MaxSessions
  /\ session' = [NoSession(Current + 1) EXCEPT
       !.pc = "direct", !.up = TRUE,
       !.todo = IF only \in members THEN {only} ELSE members]
  /\ astray' = IF only \in members THEN Rooms \ {only} ELSE {}
  /\ UNCHANGED <<members, stream, durable, ctx, mapped, sent, unsent>>

\* Mutant: the consumer is created anew.
EnsureDurableNew(s) == [durable EXCEPT ![s] = [NoDurable EXCEPT !.exists = TRUE]]

\* Mutant: a new consumer starts with what the stream holds.
EnsureDurableAll(s) ==
  IF durable[s].exists THEN durable
  ELSE [durable EXCEPT ![s] = [@ EXCEPT !.exists = TRUE, !.ready = {log[i] : i \in OfSubject(s)}]]

\* CreateOrUpdateConsumer: one that exists keeps its place, a new one starts
\* with what is published from now on.
EnsureDurable(s) == [durable EXCEPT ![s].exists = TRUE]

SubscribeDirect(d) ==
  /\ session.pc = "direct" /\ session.up
  /\ Fresh(d)
  /\ durable' = EnsureDurable(Direct)
  /\ ctx' = [ctx EXCEPT ![d] = Started(Direct, Current)]
  /\ mapped' = [mapped EXCEPT ![Current][Direct] = d]
  /\ session' = [session EXCEPT !.pc = "loop"]
  /\ UNCHANGED <<members, stream, sent, unsent, astray>>

\* roomsConsumers[r] = d in the map of session n, whatever it held.
PutContexts(n, r, d) ==
  [c \in Contexts |->
     IF c = d THEN [Started(r, n) EXCEPT !.orphan = session.pc = "off" \/ n # Current]
     ELSE IF c = mapped[n][r] THEN Orphaned(ctx[c]) ELSE ctx[c]]

\* One turn of the loop.  It does not look whether the callback of a RoomJoin
\* has put the room into the map already.
SubscribeRoom(r, d) ==
  /\ session.pc = "loop" /\ session.up
  /\ r \in session.todo
  /\ Fresh(d)
  /\ durable' = EnsureDurable(r)
  /\ ctx' = PutContexts(Current, r, d)
  /\ mapped' = [mapped EXCEPT ![Current][r] = d]
  /\ session' = [session EXCEPT !.todo = @ \ {r}]
  /\ UNCHANGED <<members, stream, sent, unsent, astray>>

Activate ==
  /\ session.pc = "loop"
  /\ session.todo = {}
  /\ session' = [session EXCEPT !.pc = "active"]
  /\ UNCHANGED <<members, stream, durable, ctx, mapped, sent, unsent, astray>>

Disconnect ==
  /\ session.up
  /\ session' = [session EXCEPT !.up = FALSE]
  /\ UNCHANGED <<members, stream, durable, ctx, mapped, sent, unsent, astray>>

\* ctx.Done, or an error while subscribing: the deferred calls stop what is in
\* the map and unregister the client.
Close ==
  /\ session.pc # "off"
  /\ session.pc = "active" => ~session.up
  /\ session' = NoSession(Current)
  /\ ctx' = [c \in Contexts |->
       IF \E s \in Subjects : mapped[Current][s] = c THEN Stopped(ctx[c]) ELSE ctx[c]]
  /\ astray' = {}
  /\ mapped' = [mapped EXCEPT ![Current] = NoMap]
  /\ UNCHANGED <<members, stream, durable, sent, unsent>>

\* The process stops (the runtime also stops it when it notices two goroutines
\* in the map at once); what the stream has given out is not acknowledged.
Crash ==
  /\ session' = NoSession(Current)
  /\ ctx' = [c \in Contexts |-> Free]
  /\ mapped' = [n \in Sessions |-> NoMap]
  /\ astray' = {}
  /\ outbox' = {}
  /\ UNCHANGED <<members, event, log, durable, sent, unsent>>
------------------------------------------------------------------------------
(* Delivery.                                                                *)

\* The first event in the stream's order that the consumer has to deliver.
First(s, e) ==
  /\ e \in durable[s].ready
  /\ \E i \in OfSubject(s) : /\ log[i] = e
                             /\ \A j \in OfSubject(s) :
                                  j < i => log[j] \notin durable[s].ready

Take(c, e) ==
  /\ ctx[c].live /\ ctx[c].pc = "idle"
  /\ First(ctx[c].subject, e)
  /\ ctx' = [ctx EXCEPT ![c].pc = "got", ![c].event = e]
  /\ durable' = [durable EXCEPT ![ctx[c].subject].ready = @ \ {e},
                                ![ctx[c].subject].out = @ \cup {e}]
  /\ UNCHANGED <<members, stream, session, mapped, sent, unsent, astray>>

\* The server gets no acknowledgement in time: a context that has been stopped,
\* a process that has crashed, or a callback that is slow.  Where the only context of
\* the subject is running the callback of e, it makes no difference before it stops:
\* Ack takes back what was given out again.
AckWait(s, e) ==
  /\ e \in durable[s].out
  /\ \A c \in Contexts : ctx[c].live /\ ctx[c].event = e =>
        \E d \in Contexts \ {c} : ctx[d].live /\ ctx[d].subject = s
  /\ durable' = [durable EXCEPT ![s].out = @ \ {e}, ![s].ready = @ \cup {e}]
  /\ UNCHANGED <<members, stream, session, ctx, mapped, sent, unsent, astray>>
------------------------------------------------------------------------------
(* handleJetStreamMessage, for the event the context c has taken.           *)

Of(c)   == event[ctx[c].event]
At(c,p) == ctx[c].pc = p

\* sm.Send: the result is not looked at.
Delivered(e) ==
  IF session.pc # "off" /\ session.up
  THEN sent' = sent \cup {e} /\ unsent' = unsent
  ELSE unsent' = unsent \cup {e} /\ sent' = sent

\* Somebody else's SENT is not for this client.
SkipForeign(c) ==
  /\ At(c, "got") /\ Of(c).kind = "foreign"
  /\ ctx' = [ctx EXCEPT ![c].pc = "ack"]
  /\ UNCHANGED <<members, stream, durable, session, mapped, sent, unsent, astray>>

\* GetRoom of a RoomJoin or an IsRoomUpdated fails: logged, then acknowledged.
LookupFails(c) ==
  /\ At(c, "got") /\ Of(c).kind \in {"join", "update"}
  /\ ctx' = [ctx EXCEPT ![c].pc = "ack"]
  /\ unsent' = unsent \cup {ctx[c].event}
  /\ UNCHANGED <<members, stream, durable, session, mapped, sent, astray>>

\* Mutant: the loop is left to subscribe what is joined while it runs.
HandleJoinLater(c) ==
  /\ At(c, "got") /\ Of(c).kind = "join"
  /\ \/ /\ mapped[ctx[c].of][Of(c).room] # Nothing \/ session.pc = "loop"
        /\ ctx' = [ctx EXCEPT ![c].pc = "send"]
        /\ durable' = durable
     \/ /\ mapped[ctx[c].of][Of(c).room] = Nothing
        /\ ~Stale(c) /\ session.up
        /\ ctx' = [ctx EXCEPT ![c].pc = "consume"]
        /\ durable' = EnsureDurable(Of(c).room)
  /\ UNCHANGED <<members, stream, session, mapped, sent, unsent, astray>>

\* RoomJoin: subscribe unless the room is in the map.  CreateOrUpdateConsumer fails
\* once the context of its session is done.
HandleJoin(c) ==
  /\ At(c, "got") /\ Of(c).kind = "join"
  /\ \/ /\ mapped[ctx[c].of][Of(c).room] # Nothing
        /\ ctx' = [ctx EXCEPT ![c].pc = "send"]
        /\ durable' = durable
     \/ /\ mapped[ctx[c].of][Of(c).room] = Nothing
        /\ ~Stale(c) /\ session.up
        /\ ctx' = [ctx EXCEPT ![c].pc = "consume"]
        /\ durable' = EnsureDurable(Of(c).room)
  /\ UNCHANGED <<members, stream, session, mapped, sent, unsent, astray>>

\* Consume takes no context: it starts although the session may have ended
\* since, and replaces what the loop may have put into the map since.
ConsumeForJoin(c, d) ==
  /\ At(c, "consume")
  /\ Fresh(d)
  /\ ctx' = [PutContexts(ctx[c].of, Of(c).room, d) EXCEPT ![c].pc = "send"]
  /\ mapped' = [mapped EXCEPT ![ctx[c].of][Of(c).room] = d]
  /\ UNCHANGED <<members, stream, durable, session, sent, unsent, astray>>

\* Neither call is tried again.
SubscribeFails(c) ==
  /\ \/ /\ At(c, "got") /\ Of(c).kind = "join"
        /\ mapped[ctx[c].of][Of(c).room] = Nothing
     \/ At(c, "consume")
  /\ ctx' = [ctx EXCEPT ![c].pc = "send"]
  /\ astray' = IF Stale(c) THEN astray ELSE astray \cup {Of(c).room}
  /\ UNCHANGED <<members, stream, durable, session, mapped, sent, unsent>>

\* Everything that is sent as it is.
Send(c) ==
  /\ \/ At(c, "send")
     \/ At(c, "got") /\ Of(c).kind \in {"update", "message"}
  /\ Delivered(ctx[c].event)
  /\ ctx' = [ctx EXCEPT ![c].pc = "ack"]
  /\ UNCHANGED <<members, stream, durable, session, mapped, astray>>

\* Mutant: the entry is deleted without stopping its context.
StopRoomForgets(c, n, r) ==
  /\ mapped' = [mapped EXCEPT ![n][r] = Nothing]
  /\ ctx' = [ctx EXCEPT ![c].pc = "ack"]

\* Stop the context that the map of session n has for r, which may be c itself,
\* and delete its entry.
StopRoom(c, n, r) ==
  /\ mapped' = [mapped EXCEPT ![n][r] = Nothing]
  /\ ctx' = [x \in Contexts |->
               LET y == IF x = c THEN [ctx[c] EXCEPT !.pc = "ack"] ELSE ctx[x]
               IN IF x = mapped[n][r] THEN Stopped(y) ELSE y]

HandleLeave(c) ==
  /\ At(c, "got") /\ Of(c).kind = "leave"
  /\ Delivered(ctx[c].event)
  /\ StopRoom(c, ctx[c].of, Of(c).room)
  /\ UNCHANGED <<members, stream, durable, session, astray>>

\* Mutant: only what was sent is acknowledged, the rest is left to AckWait.
AckSent(c) ==
  /\ At(c, "ack")
  /\ durable' = IF ctx[c].event \in sent
                THEN [durable EXCEPT ![ctx[c].subject].ready = @ \ {ctx[c].event},
                                     ![ctx[c].subject].out = @ \ {ctx[c].event}]
                ELSE durable
  /\ ctx' = [ctx EXCEPT ![c] = IF ctx[c].live
                               THEN [ctx[c] EXCEPT !.pc = "idle", !.event = Nothing]
                               ELSE Free]
  /\ UNCHANGED <<members, stream, session, mapped, sent, unsent, astray>>

\* msg.Ack; it counts also when the event has been given out again meanwhile.
Ack(c) ==
  /\ At(c, "ack")
  /\ durable' = [durable EXCEPT ![ctx[c].subject].ready = @ \ {ctx[c].event},
                                ![ctx[c].subject].out = @ \ {ctx[c].event}]
  /\ ctx' = [ctx EXCEPT ![c] = IF ctx[c].live
                               THEN [ctx[c] EXCEPT !.pc = "idle", !.event = Nothing]
                               ELSE Free]
  /\ UNCHANGED <<members, stream, session, mapped, sent, unsent, astray>>

CallbackStep(c) ==
  \/ SkipForeign(c) \/ LookupFails(c) \/ HandleJoin(c)
  \/ \E d \in Contexts : ConsumeForJoin(c, d)
  \/ SubscribeFails(c) \/ Send(c) \/ HandleLeave(c) \/ Ack(c)
------------------------------------------------------------------------------
Next ==
  \/ \E e \in Events, r \in Rooms : JoinRoom(e, r) \/ LeaveRoom(e, r)
  \/ \E e \in Events, r \in Rooms :
        SendMessage(e, r) \/ UpdateRoom(e, r) \/ FanoutEnded(e, r)
  \/ \E e \in Events : Publish(e) \/ PublishFails(e) \/ Expire(e)
  \/ \E only \in Rooms \cup {Nothing} : Open(only)
  \/ Activate \/ Disconnect \/ Close \/ Crash
  \/ \E d \in Contexts : SubscribeDirect(d)
  \/ \E r \in Rooms, d \in Contexts : SubscribeRoom(r, d)
  \/ \E c \in Contexts, e \in Events : Take(c, e)
  \/ \E s \in Subjects, e \in Events : AckWait(s, e)
  \/ \E c \in Contexts : CallbackStep(c)

Spec == Init /\ [][Next]_vars

\* A context that runs takes the next event, a callback goes on to its end, and
\* the server gives an unacknowledged event out again.
DeliveryFair ==
  /\ \A c \in Contexts : WF_vars(\E e \in Events : Take(c, e))
  /\ \A c \in Contexts : WF_vars(CallbackStep(c))
  /\ \A s \in Subjects, e \in Events : WF_vars(AckWait(s, e))
FairSpec == Spec /\ DeliveryFair
------------------------------------------------------------------------------
(* Properties.                                                              *)

\* Every variable has the shape of the stream, consumers and calls it stands for.
TypeOK ==
  /\ members \subseteq Rooms
  /\ event \in [Events -> Event]
  /\ outbox \subseteq Events
  /\ log \in Seq(Events)
  /\ durable \in [Subjects -> Durable]
  /\ session \in Session
  /\ ctx \in [Contexts -> Context]
  /\ mapped \in [Sessions -> [Subjects -> Contexts \cup {Nothing}]]
  /\ sent \subseteq Events /\ unsent \subseteq Events
  /\ astray \subseteq Rooms

\* An event that the stream holds for the client is given up only after it has
\* been sent, or for a reason: its room could not be looked up, the client was
\* gone, the stream's limits were reached, or it is not for this client.
GivenUpForAReason ==
  [][\A e \in Events : Pending(e) /\ ~Pending(e)' =>
        e \in sent' \cup unsent' \/ event[e].kind = "foreign"]_vars

\* Whatever the callbacks have done to the map, a context outlives its session
\* only when it was replaced in the map or started too late for it; and a context
\* that is not in the map of a running session is one of these as well.
OnlyOrphansOutlive ==
  \A c \in Contexts : ctx[c].live =>
    \/ ctx[c].orphan
    \/ ~Stale(c) /\ mapped[Current][ctx[c].subject] = c

\* An event of a subject the session consumes does not wait for ever, whatever
\* contexts were stopped or processes crashed with it before.
EventsGetThrough ==
  \A e \in Events :
    Pending(e) /\ Followed(e) ~> ~Pending(e) \/ ~Followed(e)

\* The stream keeps what the abstract mailbox promises: an event waits until it is sent
\* or given up for a reason, and one that does not wait any more, or was published
\* before the client had a consumer, never comes back.
Waiting   == {e \in Events : Pending(e)}
Published == {log[i] : i \in DOMAIN log}
Inbox == INSTANCE Mailbox WITH
           Mail <- Events, published <- Published, waiting <- Waiting,
           foreign <- {e \in Published : event[e].kind = "foreign"}
IsMailbox == Inbox!Spec

\* A session that has come to rest consumes every room the user is a member of, those
\* joined while it was subscribing included, unless the RoomJoin was lost, was
\* published when the rooms had been listed and the user's own consumer did not
\* exist, or could not be acted upon, or the user has left the room before.
AtRest == /\ session.pc = "active" /\ session.up /\ outbox = {}
          /\ \A c \in Contexts : ctx[c].pc = "idle"
          /\ \A s \in Subjects : mapped[Current][s] # Nothing =>
               durable[s].ready = {} /\ durable[s].out = {}
Lost(e) == e \notin Published \/ e \in unsent
FollowsItsRooms ==
  AtRest => \A r \in members :
    \/ mapped[Current][r] # Nothing
    \/ r \in astray
    \/ \E e \in Events :
          /\ event[e].room = r
          /\ event[e].kind = "leave" \/ (event[e].kind = "join" /\ Lost(e))
=============================================================================
