--------------------------- MODULE EventStreamProofs ---------------------------
(***************************************************************************)
(* EventStream, for every number of rooms, events, contexts and sessions:   *)
(* its types, that it implements the Mailbox, that an event is given up     *)
(* only for a reason, that no context outlives its session unnoticed, and   *)
(* that a session at rest follows its rooms.  IInv is the inductive         *)
(* invariant of the mailbox, MInv adds the maps and FInv the rooms; a lemma *)
(* per group of actions shows that they keep it.                            *)
(***************************************************************************)
EXTENDS EventStream, TLAPS

\* What the other steps add to TypeOK: an event that was dispatched is about a room;
\* an event is published once; a durable consumer holds published events of its own
\* subject, each once; a callback runs for a published event of its context's subject,
\* and gets to the acknowledgement only when the event was sent, given up or foreign.
Dispatched(e) == event[e].kind # "none"
EventShape ==
  /\ \A e \in Events : Dispatched(e) => event[e].room \in Rooms
  /\ \A e \in outbox \cup Published : Dispatched(e)
  /\ outbox \cap Published = {}
DurableShape ==
  \A s \in Subjects :
    /\ durable[s].ready \cap durable[s].out = {}
    /\ \A e \in durable[s].ready \cup durable[s].out : e \in Published /\ Subject(e) = s
Settled(e) == e \in sent \/ e \in unsent \/ event[e].kind = "foreign"
ContextShape ==
  \A c \in Contexts : ctx[c].pc # "idle" =>
    /\ ctx[c].event \in Published
    /\ ctx[c].subject = Subject(ctx[c].event)
    /\ ctx[c].pc = "ack" => Settled(ctx[c].event)
IInv == TypeOK /\ EventShape /\ DurableShape /\ ContextShape

\* What the stream has in its log are events.
LEMMA PublishedEvents ==
  ASSUME log \in Seq(Events)
  PROVE  Published \subseteq Events
BY SMT DEF Published

\* The invariant holds before anything was dispatched, published or consumed.
LEMMA InitInv == Init => IInv
<1> SUFFICES ASSUME Init PROVE IInv
  OBVIOUS
<1> USE StreamAssumption
<1>1. Published = {}
  BY SMT DEF Init, Published
<1>2. TypeOK
  BY SMT DEF Init, TypeOK, Event, NoEvent, Durable, NoDurable, Session, NoSession, SessionPc,
     Context, ContextPc, Free, NoMap, Kind
<1>3. EventShape
  BY <1>1, SMT DEF Init, EventShape, Dispatched, NoEvent
<1>4. DurableShape
  BY <1>1, SMT DEF Init, DurableShape, NoDurable
<1>5. ContextShape
  BY SMT DEF Init, ContextShape, Free
<1> QED BY <1>2, <1>3, <1>4, <1>5 DEF IInv

\* Nothing was published, so the mailbox is empty.
LEMMA InitMailbox == Init => Inbox!Init
<1> SUFFICES ASSUME Init PROVE Inbox!Init
  OBVIOUS
<1>1. Published = {}
  BY SMT DEF Init, Published
<1>2. Waiting = {}
  BY SMT DEF Init, Waiting, Pending, NoDurable
<1> QED BY <1>1, <1>2, SMT DEF Init, Inbox!Init
------------------------------------------------------------------------------
\* The values that the steps make of a context, a session, a consumer and a map.
LEMMA ContextForms ==
  /\ Free \in Context
  /\ \A s \in Subjects, n \in Sessions \cup {0} : Started(s, n) \in Context
  /\ \A x \in Context : Orphaned(x) \in Context /\ Stopped(x) \in Context
  /\ \A x \in Context, p \in ContextPc : [x EXCEPT !.pc = p] \in Context
<1>1. Free \in Context
  BY SMT DEF Free, Context, ContextPc
<1>2. \A s \in Subjects, n \in Sessions \cup {0} : Started(s, n) \in Context
  BY <1>1, Zenon DEF Context, Started
<1>3. \A x \in Context : Orphaned(x) \in Context
  BY Zenon DEF Context, Orphaned
<1>4. \A x \in Context : Stopped(x) \in Context
  BY <1>1, Zenon DEF Context, Stopped
<1>5. \A x \in Context, p \in ContextPc : [x EXCEPT !.pc = p] \in Context
  BY SMT DEF Context
<1> QED BY <1>1, <1>2, <1>3, <1>4, <1>5

\* The values that the steps make of a session.
LEMMA SessionForms ==
  ASSUME NEW x \in Session
  PROVE  /\ x.id \in Sessions \cup {0} /\ x.todo \subseteq Rooms
         /\ NoSession(x.id) \in Session
         /\ \A p \in SessionPc : [x EXCEPT !.pc = p] \in Session
         /\ \A b \in BOOLEAN : [x EXCEPT !.up = b] \in Session
         /\ \A A \in SUBSET Rooms : [x EXCEPT !.todo = A] \in Session
<1>1. x.id \in Sessions \cup {0} /\ x.todo \subseteq Rooms
  BY Zenon DEF Session
<1>2. NoSession(x.id) \in Session
  BY <1>1, Zenon DEF Session, NoSession, SessionPc
<1>3. \A p \in SessionPc : [x EXCEPT !.pc = p] \in Session
  BY Zenon DEF Session
<1>4. \A b \in BOOLEAN : [x EXCEPT !.up = b] \in Session
  BY Zenon DEF Session
<1>5. \A A \in SUBSET Rooms : [x EXCEPT !.todo = A] \in Session
  BY Zenon DEF Session
<1> QED BY <1>1, <1>2, <1>3, <1>4, <1>5

\* The session that Open begins.
LEMMA SessionOpened ==
  ASSUME NEW n \in Sessions, NEW A \in SUBSET Rooms
  PROVE  [NoSession(n) EXCEPT !.pc = "direct", !.up = TRUE, !.todo = A] \in Session
<1> DEFINE x == NoSession(n)
<1>1. x \in Session /\ "direct" \in SessionPc
  BY Zenon DEF Session, SessionPc, NoSession
<1>2. [x EXCEPT !.pc = "direct", !.up = TRUE, !.todo = A]
        = [[[x EXCEPT !.pc = "direct"] EXCEPT !.up = TRUE] EXCEPT !.todo = A]
  BY SMT
<1> HIDE DEF x
<1>3. [x EXCEPT !.pc = "direct"] \in Session
  BY <1>1, SessionForms, Zenon
<1>4. [[x EXCEPT !.pc = "direct"] EXCEPT !.up = TRUE] \in Session
  BY <1>3, SessionForms, Zenon
<1>5. [[[x EXCEPT !.pc = "direct"] EXCEPT !.up = TRUE] EXCEPT !.todo = A] \in Session
  BY <1>4, SessionForms, Zenon
<1> QED BY <1>2, <1>5 DEF x

Map == [Sessions -> [Subjects -> Contexts \cup {Nothing}]]

\* roomsConsumers with an entry set, or emptied by the deferred calls.
LEMMA MapForms ==
  ASSUME NEW f \in Map, NEW n, NEW r, NEW d \in Contexts \cup {Nothing}
  PROVE  /\ [f EXCEPT ![n][r] = d] \in Map
         /\ [f EXCEPT ![n] = NoMap] \in Map
<1>1. [f EXCEPT ![n][r] = d] \in Map
  BY Zenon DEF Map
<1>2. NoMap \in [Subjects -> Contexts \cup {Nothing}]
  BY SMT DEF NoMap
<1>3. [f EXCEPT ![n] = NoMap] \in Map
  BY <1>2, Zenon DEF Map
<1> QED BY <1>1, <1>3

\* The durable consumers after CreateOrUpdateConsumer, and after an event is taken,
\* acknowledged or given back.
LEMMA DurableForms ==
  ASSUME durable \in [Subjects -> Durable], NEW s, NEW e \in Events
  PROVE  /\ EnsureDurable(s) \in [Subjects -> Durable]
         /\ [durable EXCEPT ![s].ready = @ \ {e}] \in [Subjects -> Durable]
         /\ [durable EXCEPT ![s].ready = @ \ {e}, ![s].out = @ \ {e}] \in [Subjects -> Durable]
         /\ [durable EXCEPT ![s].ready = @ \ {e}, ![s].out = @ \cup {e}] \in [Subjects -> Durable]
         /\ [durable EXCEPT ![s].out = @ \ {e}, ![s].ready = @ \cup {e}] \in [Subjects -> Durable]
<1>0. CASE s \notin Subjects
  BY <1>0, Zenon DEF EnsureDurable
<1>s. SUFFICES ASSUME s \in Subjects PROVE /\ EnsureDurable(s) \in [Subjects -> Durable]
         /\ [durable EXCEPT ![s].ready = @ \ {e}] \in [Subjects -> Durable]
         /\ [durable EXCEPT ![s].ready = @ \ {e}, ![s].out = @ \ {e}] \in [Subjects -> Durable]
         /\ [durable EXCEPT ![s].ready = @ \ {e}, ![s].out = @ \cup {e}] \in [Subjects -> Durable]
         /\ [durable EXCEPT ![s].out = @ \ {e}, ![s].ready = @ \cup {e}] \in [Subjects -> Durable]
  BY <1>0
<1>1. EnsureDurable(s) \in [Subjects -> Durable]
  BY Zenon DEF Durable, EnsureDurable
<1>2. durable[s] \in Durable
  BY <1>s, Zenon
<1>3. [durable EXCEPT ![s].ready = @ \ {e}] \in [Subjects -> Durable]
  BY <1>2, Zenon DEF Durable
<1>4. [durable EXCEPT ![s].ready = @ \ {e}, ![s].out = @ \ {e}] \in [Subjects -> Durable]
  BY <1>2, Zenon DEF Durable
<1>5. [durable EXCEPT ![s].ready = @ \ {e}, ![s].out = @ \cup {e}] \in [Subjects -> Durable]
  BY <1>2, Zenon DEF Durable
<1>6. [durable EXCEPT ![s].out = @ \ {e}, ![s].ready = @ \cup {e}] \in [Subjects -> Durable]
  BY <1>2, Zenon DEF Durable
<1> QED BY <1>1, <1>3, <1>4, <1>5, <1>6

\* What SubscribeRoom and ConsumeForJoin make of the contexts are contexts.
LEMMA PutType ==
  ASSUME ctx \in [Contexts -> Context], NEW n \in Sessions \cup {0}, NEW r \in Rooms, NEW d
  PROVE  PutContexts(n, r, d) \in [Contexts -> Context]
<1>1. Started(r, n) \in Context
  BY ContextForms, Zenon DEF Subjects
<1>2. [Started(r, n) EXCEPT !.orphan = session.pc = "off" \/ n # Current] \in Context
  BY <1>1, Zenon DEF Context
<1>3. \A c \in Contexts : ctx[c] \in Context /\ Orphaned(ctx[c]) \in Context
  BY ContextForms, Zenon
<1> QED BY <1>2, <1>3, Zenon DEF PutContexts

\* What publishChatEvent dispatches is an event.
LEMMA DispatchType ==
  ASSUME TypeOK, NEW e \in Events, NEW kind \in Kind, NEW r \in Rooms, Dispatch(e, kind, r)
  PROVE  event' \in [Events -> Event] /\ outbox' \subseteq Events
BY SMT DEF TypeOK, Dispatch, Event, Kind

\* A callback that goes to another place leaves contexts.
LEMMA PcType ==
  ASSUME ctx \in [Contexts -> Context], NEW c \in Contexts, NEW p \in ContextPc
  PROVE  [ctx EXCEPT ![c].pc = p] \in [Contexts -> Context]
BY Zenon DEF Context

\* Every step keeps the types; a callback runs for an event that has a room.
LEMMA TypeStep == TypeOK /\ EventShape /\ ContextShape /\ [Next]_vars => TypeOK'
<1> SUFFICES ASSUME TypeOK, EventShape, ContextShape, [Next]_vars PROVE TypeOK'
  OBVIOUS
<1>p. Published \subseteq Events
  BY PublishedEvents DEF TypeOK
<1>s. Current \in Sessions \cup {0} /\ session.todo \subseteq Rooms
      /\ NoSession(Current) \in Session
  <2>1. session \in Session
    BY DEF TypeOK
  <2> QED BY <2>1, SessionForms, Zenon DEF Current
<1>m. mapped \in Map
  BY DEF TypeOK, Map
<1>1. CASE UNCHANGED vars
  BY <1>1, SMT DEF TypeOK, vars, stream
<1>2. ASSUME NEW e \in Events, NEW r \in Rooms, JoinRoom(e, r) \/ LeaveRoom(e, r)
      PROVE  TypeOK'
  <2>1. \E kind \in Kind : Dispatch(e, kind, r)
    BY <1>2, SMT DEF JoinRoom, LeaveRoom, Kind
  <2>2. event' \in [Events -> Event] /\ outbox' \subseteq Events
    BY <2>1, DispatchType
  <2>3. members' \subseteq Rooms
    BY <1>2, SMT DEF JoinRoom, LeaveRoom, TypeOK
  <2>4. UNCHANGED <<log, durable, session, ctx, mapped, sent, unsent, astray>>
    BY <1>2, Zenon DEF JoinRoom, LeaveRoom
  <2> QED BY <2>2, <2>3, <2>4, SMT DEF TypeOK
<1>3. ASSUME NEW e \in Events, NEW r \in Rooms,
             SendMessage(e, r) \/ UpdateRoom(e, r) \/ FanoutEnded(e, r)
      PROVE  TypeOK'
  <2>1. \E kind \in Kind : Dispatch(e, kind, r)
    BY <1>3, SMT DEF SendMessage, UpdateRoom, FanoutEnded, RoomEvent, Kind
  <2>2. event' \in [Events -> Event] /\ outbox' \subseteq Events
    BY <2>1, DispatchType
  <2>3. UNCHANGED <<members, log, durable, session, ctx, mapped, sent, unsent, astray>>
    BY <1>3, Zenon DEF SendMessage, UpdateRoom, FanoutEnded, RoomEvent
  <2> QED BY <2>2, <2>3, SMT DEF TypeOK
<1>4. ASSUME NEW e \in Events, Publish(e) PROVE TypeOK'
  <2> DEFINE old == Oldest(Subject(e))
             new == IF durable[Subject(e)].exists THEN {e} ELSE {}
  <2>1. old \subseteq Events /\ new \subseteq Events
    <3>1. \A i \in 1..Len(log) : log[i] \in Events
      BY SMT DEF TypeOK
    <3> QED BY <3>1, Zenon DEF Oldest, OfSubject
  <2>2. log' \in Seq(Events)
    BY <1>4, SMT DEF TypeOK, Publish
  <2>3. durable' = [durable EXCEPT ![Subject(e)].ready = (@ \ old) \cup new,
                                   ![Subject(e)].out = @ \ old]
    BY <1>4, Zenon DEF Publish
  <2>4. unsent' \subseteq Events
    BY <1>4, <2>1, SMT DEF TypeOK, Publish
  <2> HIDE DEF old, new
  <2>5. durable' \in [Subjects -> Durable]
    <3>1. CASE Subject(e) \in Subjects
      <4>1. durable[Subject(e)] \in Durable
        BY <3>1, SMT DEF TypeOK
      <4> QED BY <2>1, <2>3, <3>1, <4>1, Zenon DEF TypeOK, Durable
    <3>2. CASE Subject(e) \notin Subjects
      BY <2>3, <3>2, Zenon DEF TypeOK
    <3> QED BY <3>1, <3>2
  <2>6. astray' \subseteq Rooms
    BY <1>4, SMT DEF TypeOK, Publish, EventShape, Dispatched
  <2>7. outbox' \subseteq Events /\ UNCHANGED <<members, event, session, ctx, mapped, sent>>
    BY <1>4, Zenon DEF Publish, TypeOK
  <2> QED BY <2>2, <2>4, <2>5, <2>6, <2>7, SMT DEF TypeOK
<1>5. ASSUME NEW e \in Events, PublishFails(e) \/ Expire(e) PROVE TypeOK'
  <2>1. outbox' \subseteq Events /\ unsent' \subseteq Events
    BY <1>5, SMT DEF TypeOK, PublishFails, Expire, stream
  <2>2. durable' = durable \/ durable' = [durable EXCEPT ![Subject(e)].ready = @ \ {e}]
    BY <1>5, Zenon DEF PublishFails, Expire
  <2>3. durable' \in [Subjects -> Durable]
    <3>1. durable \in [Subjects -> Durable]
      BY DEF TypeOK
    <3>2. [durable EXCEPT ![Subject(e)].ready = @ \ {e}] \in [Subjects -> Durable]
      BY <3>1, DurableForms
    <3> QED BY <2>2, <3>1, <3>2, Zenon
  <2>4. UNCHANGED <<members, event, log, session, ctx, mapped, sent, astray>>
    BY <1>5, Zenon DEF PublishFails, Expire, stream
  <2> QED BY <2>1, <2>3, <2>4, SMT DEF TypeOK
<1>6. ASSUME NEW only \in Rooms \cup {Nothing}, Open(only) PROVE TypeOK'
  <2> DEFINE todo == IF only \in members THEN {only} ELSE members
  <2>1. todo \subseteq Rooms
    BY SMT DEF TypeOK
  <2>2. Current + 1 \in Sessions
    BY <1>6, <1>s, StreamAssumption, SMT DEF Open, Sessions
  <2>3. session' = [NoSession(Current + 1) EXCEPT !.pc = "direct", !.up = TRUE, !.todo = todo]
    BY <1>6, Zenon DEF Open
  <2> HIDE DEF todo
  <2>4. session' \in Session
    BY <2>1, <2>2, <2>3, SessionOpened, Zenon
  <2>5. astray' \subseteq Rooms
    BY <1>6, SMT DEF Open
  <2>6. UNCHANGED <<members, event, outbox, log, durable, ctx, mapped, sent, unsent>>
    BY <1>6, Zenon DEF Open, stream
  <2> QED BY <2>4, <2>5, <2>6, SMT DEF TypeOK
<1>7. ASSUME Activate \/ Disconnect PROVE TypeOK'
  <2>1. session' = [session EXCEPT !.pc = "active"] \/ session' = [session EXCEPT !.up = FALSE]
    BY <1>7, Zenon DEF Activate, Disconnect
  <2>2. session' \in Session
    BY <2>1, SessionForms, Zenon DEF TypeOK, SessionPc
  <2>3. UNCHANGED <<members, event, outbox, log, durable, ctx, mapped, sent, unsent, astray>>
    BY <1>7, Zenon DEF Activate, Disconnect, stream
  <2> QED BY <2>2, <2>3, SMT DEF TypeOK
<1>8. ASSUME Close PROVE TypeOK'
  <2>1. \A c \in Contexts : ctx[c] \in Context /\ Stopped(ctx[c]) \in Context
    BY ContextForms, Zenon DEF TypeOK
  <2>2. ctx' = [c \in Contexts |->
          IF \E s \in Subjects : mapped[Current][s] = c THEN Stopped(ctx[c]) ELSE ctx[c]]
    BY <1>8, Zenon DEF Close
  <2>3. ctx' \in [Contexts -> Context]
    BY <2>1, <2>2, Zenon
  <2>4. session' = NoSession(Current) /\ mapped' = [mapped EXCEPT ![Current] = NoMap]
    BY <1>8, Zenon DEF Close
  <2>5. mapped' \in Map
    BY <1>m, <2>4, MapForms, Zenon
  <2>6. /\ astray' = {}
        /\ UNCHANGED <<members, event, outbox, log, durable, sent, unsent>>
    BY <1>8, Zenon DEF Close, stream
  <2> QED BY <1>s, <2>3, <2>4, <2>5, <2>6, SMT DEF TypeOK, Map
<1>9. ASSUME Crash PROVE TypeOK'
  <2>1. NoMap \in [Subjects -> Contexts \cup {Nothing}]
    BY SMT DEF NoMap
  <2>2. /\ session' = NoSession(Current)
        /\ ctx' = [c \in Contexts |-> Free]
        /\ mapped' = [n \in Sessions |-> NoMap]
        /\ astray' = {} /\ outbox' = {}
        /\ UNCHANGED <<members, event, log, durable, sent, unsent>>
    BY <1>9, Zenon DEF Crash
  <2>3. ctx' \in [Contexts -> Context] /\ mapped' \in Map
    BY <2>1, <2>2, ContextForms, Zenon DEF Map
  <2> QED BY <1>s, <2>2, <2>3, SMT DEF TypeOK, Map
<1>10. ASSUME NEW d \in Contexts, SubscribeDirect(d) PROVE TypeOK'
  <2>1. Started(Direct, Current) \in Context
    BY <1>s, ContextForms, Zenon DEF Subjects
  <2>2. /\ durable' = EnsureDurable(Direct)
        /\ ctx' = [ctx EXCEPT ![d] = Started(Direct, Current)]
        /\ mapped' = [mapped EXCEPT ![Current][Direct] = d]
        /\ session' = [session EXCEPT !.pc = "loop"]
        /\ UNCHANGED <<members, event, outbox, log, sent, unsent, astray>>
    BY <1>10, Zenon DEF SubscribeDirect, stream
  <2>3. durable' \in [Subjects -> Durable]
    BY <2>2, Zenon DEF EnsureDurable, Durable, TypeOK
  <2>4. ctx' \in [Contexts -> Context]
    BY <2>1, <2>2, Zenon DEF TypeOK
  <2>5. mapped' \in Map
    BY <1>m, <2>2, MapForms, Zenon
  <2>6. session' \in Session
    BY <2>2, SessionForms, Zenon DEF TypeOK, SessionPc
  <2> QED BY <2>2, <2>3, <2>4, <2>5, <2>6, SMT DEF TypeOK, Map
<1>11. ASSUME NEW r \in Rooms, NEW d \in Contexts, SubscribeRoom(r, d) PROVE TypeOK'
  <2>1. /\ durable' = EnsureDurable(r)
        /\ ctx' = PutContexts(Current, r, d)
        /\ mapped' = [mapped EXCEPT ![Current][r] = d]
        /\ session' = [session EXCEPT !.todo = @ \ {r}]
        /\ UNCHANGED <<members, event, outbox, log, sent, unsent, astray>>
    BY <1>11, Zenon DEF SubscribeRoom, stream
  <2>2. ctx' \in [Contexts -> Context]
    BY <1>s, <2>1, PutType, Zenon DEF TypeOK
  <2>3. session' \in Session
    <3>1. session.todo \ {r} \in SUBSET Rooms
      BY <1>s, SMT
    <3>2. session' = [session EXCEPT !.todo = session.todo \ {r}]
      BY <2>1, Zenon
    <3> QED BY <3>1, <3>2, SessionForms, Zenon DEF TypeOK
  <2>4. durable' \in [Subjects -> Durable]
    BY <2>1, Zenon DEF EnsureDurable, Durable, TypeOK
  <2>5. mapped' \in Map
    BY <1>m, <2>1, MapForms, Zenon
  <2> QED BY <2>1, <2>2, <2>3, <2>4, <2>5, SMT DEF TypeOK, Map
<1>12. ASSUME NEW c \in Contexts, NEW e \in Events, Take(c, e) PROVE TypeOK'
  <2>1. /\ ctx' = [ctx EXCEPT ![c].pc = "got", ![c].event = e]
        /\ durable' = [durable EXCEPT ![ctx[c].subject].ready = @ \ {e},
                                      ![ctx[c].subject].out = @ \cup {e}]
        /\ UNCHANGED <<members, event, outbox, log, session, mapped, sent, unsent, astray>>
    BY <1>12, Zenon DEF Take, stream
  <2>2. ctx' \in [Contexts -> Context]
    <3> DEFINE got == [ctx EXCEPT ![c].pc = "got"]
    <3>1. got \in [Contexts -> Context]
      BY PcType, Zenon DEF TypeOK, ContextPc
    <3>2. ctx' = [got EXCEPT ![c].event = e]
      BY <2>1, SMT
    <3> HIDE DEF got
    <3> QED BY <3>1, <3>2, Zenon DEF Context
  <2>3. durable' \in [Subjects -> Durable]
    BY <2>1, DurableForms, Zenon DEF TypeOK
  <2> QED BY <2>1, <2>2, <2>3, SMT DEF TypeOK
<1>13. ASSUME NEW s \in Subjects, NEW e \in Events, AckWait(s, e) PROVE TypeOK'
  <2>1. /\ durable' = [durable EXCEPT ![s].out = @ \ {e}, ![s].ready = @ \cup {e}]
        /\ UNCHANGED <<members, event, outbox, log, session, ctx, mapped, sent, unsent, astray>>
    BY <1>13, Zenon DEF AckWait, stream
  <2>2. durable' \in [Subjects -> Durable]
    BY <2>1, DurableForms, Zenon DEF TypeOK
  <2> QED BY <2>1, <2>2, SMT DEF TypeOK
<1>14. ASSUME NEW c \in Contexts, CallbackStep(c) PROVE TypeOK'
  <2>g. ctx[c].pc # "idle" => Of(c).room \in Rooms /\ ctx[c].event \in Events
    BY <1>p, SMT DEF ContextShape, EventShape, Of, Dispatched
  <2>c. ctx[c] \in Context
    BY Zenon DEF TypeOK
  <2>p. \A p \in ContextPc : [ctx EXCEPT ![c].pc = p] \in [Contexts -> Context]
    BY PcType, Zenon DEF TypeOK
  <2>q. "send" \in ContextPc /\ "consume" \in ContextPc /\ "ack" \in ContextPc
    BY SMT DEF ContextPc
  <2>1. CASE SkipForeign(c) \/ LookupFails(c)
    <3>1. /\ ctx' = [ctx EXCEPT ![c].pc = "ack"]
          /\ UNCHANGED <<members, event, outbox, log, durable, session, mapped, sent, astray>>
      BY <2>1, Zenon DEF SkipForeign, LookupFails, stream
    <3>2. unsent' \subseteq Events
      BY <2>1, <2>g, SMT DEF SkipForeign, LookupFails, TypeOK, At
    <3>3. ctx' \in [Contexts -> Context]
      BY <2>p, <2>q, <3>1, Zenon
    <3> QED BY <3>1, <3>2, <3>3, SMT DEF TypeOK
  <2>2. CASE HandleJoin(c)
    <3>1. /\ ctx' = [ctx EXCEPT ![c].pc = "send"] \/ ctx' = [ctx EXCEPT ![c].pc = "consume"]
          /\ durable' = durable \/ durable' = EnsureDurable(Of(c).room)
          /\ UNCHANGED <<members, event, outbox, log, session, mapped, sent, unsent, astray>>
      BY <2>2, Zenon DEF HandleJoin, stream
    <3>2. durable' \in [Subjects -> Durable]
      <4>1. durable \in [Subjects -> Durable]
        BY DEF TypeOK
      <4>2. EnsureDurable(Of(c).room) \in [Subjects -> Durable]
        BY <4>1, Zenon DEF EnsureDurable, Durable
      <4> QED BY <3>1, <4>1, <4>2, Zenon
    <3>3. ctx' \in [Contexts -> Context]
      BY <2>p, <2>q, <3>1, Zenon
    <3> QED BY <3>1, <3>2, <3>3, SMT DEF TypeOK
  <2>3. ASSUME NEW d \in Contexts, ConsumeForJoin(c, d) PROVE TypeOK'
    <3>1. ctx[c].of \in Sessions \cup {0} /\ Of(c).room \in Rooms
      <4>1. ctx[c].of \in Sessions \cup {0}
        BY <2>c, Zenon DEF Context
      <4> QED BY <2>3, <2>g, <4>1, SMT DEF ConsumeForJoin, At
    <3> DEFINE put == PutContexts(ctx[c].of, Of(c).room, d)
    <3>2. put \in [Contexts -> Context]
      BY <3>1, PutType, Zenon DEF TypeOK
    <3>3. /\ ctx' = [put EXCEPT ![c].pc = "send"]
          /\ mapped' = [mapped EXCEPT ![ctx[c].of][Of(c).room] = d]
          /\ UNCHANGED <<members, event, outbox, log, durable, session, sent, unsent, astray>>
      BY <2>3, Zenon DEF ConsumeForJoin, stream
    <3> HIDE DEF put
    <3>4. ctx' \in [Contexts -> Context]
      BY <3>2, <3>3, Zenon DEF Context, ContextPc
    <3>5. mapped' \in Map
      BY <1>m, <3>3, MapForms, Zenon
    <3> QED BY <3>3, <3>4, <3>5, SMT DEF TypeOK, Map
  <2>4. CASE SubscribeFails(c)
    <3>1. /\ ctx' = [ctx EXCEPT ![c].pc = "send"]
          /\ UNCHANGED <<members, event, outbox, log, durable, session, mapped, sent, unsent>>
      BY <2>4, Zenon DEF SubscribeFails, stream
    <3>2. astray' \subseteq Rooms
      BY <2>4, <2>g, SMT DEF SubscribeFails, TypeOK, At
    <3>3. ctx' \in [Contexts -> Context]
      BY <2>p, <2>q, <3>1, Zenon
    <3> QED BY <3>1, <3>2, <3>3, SMT DEF TypeOK
  <2>5. CASE Send(c)
    <3>1. /\ ctx' = [ctx EXCEPT ![c].pc = "ack"]
          /\ UNCHANGED <<members, event, outbox, log, durable, session, mapped, astray>>
      BY <2>5, Zenon DEF Send, stream
    <3>2. sent' \subseteq Events /\ unsent' \subseteq Events
      BY <2>5, <2>g, SMT DEF Send, Delivered, TypeOK, At
    <3>3. ctx' \in [Contexts -> Context]
      BY <2>p, <2>q, <3>1, Zenon
    <3> QED BY <3>1, <3>2, <3>3, SMT DEF TypeOK
  <2>6. CASE HandleLeave(c)
    <3> DEFINE y(x) == IF x = c THEN [ctx[c] EXCEPT !.pc = "ack"] ELSE ctx[x]
    <3>1. \A x \in Contexts : y(x) \in Context
      BY <2>q, ContextForms, Zenon DEF TypeOK
    <3>2. /\ ctx' = [x \in Contexts |-> IF x = mapped[ctx[c].of][Of(c).room] THEN Stopped(y(x)) ELSE y(x)]
          /\ mapped' = [mapped EXCEPT ![ctx[c].of][Of(c).room] = Nothing]
          /\ UNCHANGED <<members, event, outbox, log, durable, session, astray>>
      BY <2>6, Zenon DEF HandleLeave, StopRoom, stream
    <3> HIDE DEF y
    <3>3. ctx' \in [Contexts -> Context]
      <4>1. \A x \in Contexts : Stopped(y(x)) \in Context
        BY <3>1, ContextForms, Zenon
      <4> QED BY <3>1, <3>2, <4>1, Zenon
    <3>4. mapped' \in Map
      BY <1>m, <3>2, MapForms, Zenon
    <3>5. sent' \subseteq Events /\ unsent' \subseteq Events
      BY <2>6, <2>g, SMT DEF HandleLeave, Delivered, TypeOK, At
    <3> QED BY <3>2, <3>3, <3>4, <3>5, SMT DEF TypeOK, Map
  <2>7. CASE Ack(c)
    <3>1. [ctx[c] EXCEPT !.pc = "idle", !.event = Nothing] \in Context
      BY <2>c, Zenon DEF Context, ContextPc
    <3>2. /\ ctx' = [ctx EXCEPT ![c] = IF ctx[c].live
                       THEN [ctx[c] EXCEPT !.pc = "idle", !.event = Nothing] ELSE Free]
          /\ durable' = [durable EXCEPT ![ctx[c].subject].ready = @ \ {ctx[c].event},
                                        ![ctx[c].subject].out = @ \ {ctx[c].event}]
          /\ UNCHANGED <<members, event, outbox, log, session, mapped, sent, unsent, astray>>
      BY <2>7, Zenon DEF Ack, stream
    <3>3. ctx' \in [Contexts -> Context]
      BY <3>1, <3>2, ContextForms, Zenon DEF TypeOK
    <3>4. ctx[c].event \in Events
      BY <2>7, <2>g, SMT DEF Ack, At
    <3>5. durable' \in [Subjects -> Durable]
      BY <3>2, <3>4, DurableForms, Zenon DEF TypeOK
    <3> QED BY <3>2, <3>3, <3>5, SMT DEF TypeOK
  <2> QED BY <1>14, <2>1, <2>2, <2>3, <2>4, <2>5, <2>6, <2>7 DEF CallbackStep
<1> QED BY <1>1, <1>2, <1>3, <1>4, <1>5, <1>6, <1>7, <1>8, <1>9, <1>10, <1>11, <1>12, <1>13,
           <1>14 DEF Next
------------------------------------------------------------------------------
\* What a step does to a consumer, a context and a callback.
LEMMA CtxPc ==
  ASSUME ctx \in [Contexts -> Context], NEW c \in Contexts, NEW p \in ContextPc, NEW x \in Contexts
  PROVE  /\ [ctx EXCEPT ![c].pc = p][x].event = ctx[x].event
         /\ [ctx EXCEPT ![c].pc = p][x].subject = ctx[x].subject
         /\ [ctx EXCEPT ![c].pc = p][x].pc = IF x = c THEN p ELSE ctx[x].pc
<1>1. ctx[x] \in Context
  BY Zenon
<1>2. /\ [ctx[x] EXCEPT !.pc = p].event = ctx[x].event
      /\ [ctx[x] EXCEPT !.pc = p].subject = ctx[x].subject
      /\ [ctx[x] EXCEPT !.pc = p].pc = p
  BY <1>1, SMT DEF Context
<1>3. [ctx EXCEPT ![c].pc = p][x] = IF x = c THEN [ctx[x] EXCEPT !.pc = p] ELSE ctx[x]
  BY Zenon
<1> QED BY <1>2, <1>3, Zenon

\* Orphaned, Stopped and a callback's next place leave the event and the subject.
LEMMA CtxValues ==
  ASSUME NEW x \in Context
  PROVE  /\ Orphaned(x).event = x.event /\ Orphaned(x).subject = x.subject
         /\ Orphaned(x).pc = x.pc
         /\ \/ Stopped(x).pc = "idle"
            \/ /\ Stopped(x).event = x.event /\ Stopped(x).subject = x.subject
               /\ Stopped(x).pc = x.pc
         /\ \A p \in ContextPc : /\ [x EXCEPT !.pc = p].event = x.event
                                 /\ [x EXCEPT !.pc = p].subject = x.subject
                                 /\ [x EXCEPT !.pc = p].pc = p
         /\ Free.pc = "idle"
BY SMT DEF Context, Orphaned, Stopped, Free

\* A context that has just been started runs no callback.
LEMMA StartedIdle ==
  ASSUME NEW s, NEW n
  PROVE  Started(s, n).pc = "idle" /\ \A b : [Started(s, n) EXCEPT !.orphan = b].pc = "idle"
BY SMT DEF Started, Free

\* CreateOrUpdateConsumer leaves what the consumers hold.
LEMMA Ensured ==
  ASSUME durable \in [Subjects -> Durable], NEW s, NEW x \in Subjects
  PROVE  /\ EnsureDurable(s)[x].ready = durable[x].ready
         /\ EnsureDurable(s)[x].out = durable[x].out
<1>1. durable[x] \in Durable
  BY Zenon
<1>2. /\ [durable[x] EXCEPT !.exists = TRUE].ready = durable[x].ready
      /\ [durable[x] EXCEPT !.exists = TRUE].out = durable[x].out
  BY <1>1, SMT DEF Durable
<1>3. EnsureDurable(s)[x] = IF x = s THEN [durable[x] EXCEPT !.exists = TRUE] ELSE durable[x]
  BY Zenon DEF EnsureDurable
<1> QED BY <1>2, <1>3, Zenon
------------------------------------------------------------------------------
\* A step that dispatches and publishes nothing.
Still == event' = event /\ log' = log /\ outbox' \subseteq outbox
Foreign == {e \in Published : event[e].kind = "foreign"}

\* Such a step leaves what is published and what of it is foreign.
LEMMA StillEvents ==
  ASSUME EventShape, Still
  PROVE  EventShape' /\ Published' = Published /\ Foreign' = Foreign
<1>1. Published' = Published /\ Foreign' = Foreign
  BY SMT DEF Still, Published, Foreign
<1> QED BY <1>1, SMT DEF EventShape, Still, Dispatched

\* Consumers that hold what they held.
SameHeld == \A s \in Subjects : /\ durable'[s].ready = durable[s].ready
                                /\ durable'[s].out = durable[s].out

\* Then what waits is what waited.
LEMMA HeldKept ==
  ASSUME EventShape, DurableShape, Still, SameHeld
  PROVE  DurableShape' /\ Waiting' = Waiting
<1>1. Published' = Published
  BY StillEvents
<1>2. DurableShape'
  BY <1>1, SMT DEF DurableShape, SameHeld, Still, Subject
<1>3. Waiting' = Waiting
  BY SMT DEF Waiting, Pending, SameHeld
<1> QED BY <1>2, <1>3

\* A callback that goes on with its event.
GoesOn(c) ==
  \/ ctx'[c].pc = "idle"
  \/ /\ ctx[c].pc # "idle"
     /\ ctx'[c].event = ctx[c].event /\ ctx'[c].subject = ctx[c].subject
     /\ ctx'[c].pc = "ack" /\ ctx[c].pc # "ack" => Settled(ctx[c].event)'

\* A step whose callbacks all go on keeps what is known of them.
LEMMA ContextsKept ==
  ASSUME EventShape, ContextShape, Still, sent \subseteq sent', unsent \subseteq unsent',
         \A c \in Contexts : GoesOn(c)
  PROVE  ContextShape'
<1>1. Published' = Published
  BY StillEvents
<1>4. ASSUME NEW c \in Contexts, ctx'[c].pc # "idle"
      PROVE  /\ ctx'[c].event \in Published
             /\ ctx'[c].subject = Subject(ctx[c].event)'
             /\ ctx'[c].pc = "ack" => Settled(ctx[c].event)'
  <2>1. /\ ctx[c].pc # "idle"
        /\ ctx'[c].event = ctx[c].event /\ ctx'[c].subject = ctx[c].subject
        /\ ctx'[c].pc = "ack" /\ ctx[c].pc # "ack" => Settled(ctx[c].event)'
    BY <1>4, Zenon DEF GoesOn
  <2>2. /\ ctx[c].event \in Published
        /\ ctx[c].subject = Subject(ctx[c].event)
        /\ ctx[c].pc = "ack" => Settled(ctx[c].event)
    BY <2>1, Zenon DEF ContextShape
  <2>3. Subject(ctx[c].event)' = Subject(ctx[c].event)
    BY <2>1, SMT DEF Subject, Still
  <2>4. ctx'[c].pc = "ack" => Settled(ctx[c].event)'
    BY <2>1, <2>2, SMT DEF Settled, Still
  <2> QED BY <2>1, <2>2, <2>3, <2>4, Zenon
<1> QED BY <1>1, <1>4, Zenon DEF ContextShape

\* A step that leaves what waits, was sent and was given up is none of the mailbox.
LEMMA Stutters ==
  ASSUME EventShape, Still, Waiting' = Waiting, sent' = sent, unsent' = unsent
  PROVE  [Inbox!Next]_Inbox!vars
BY StillEvents, Zenon DEF Inbox!vars, Foreign
------------------------------------------------------------------------------
\* What a group of steps keeps of the invariant, and the mailbox's step for it.
Shapes == EventShape /\ DurableShape /\ ContextShape
MailStep == [Inbox!Next]_Inbox!vars

\* An event that is dispatched is not published yet: the mailbox does not notice.
LEMMA DispatchStep ==
  ASSUME IInv, NEW e \in Events, NEW kind \in Kind, NEW r \in Rooms, Dispatch(e, kind, r),
         UNCHANGED <<log, durable, ctx, sent, unsent>>
  PROVE  Shapes' /\ MailStep
<1>1. ~Dispatched(e) /\ e \notin Published /\ e \notin outbox
  BY SMT DEF IInv, EventShape, Dispatch, NoEvent, Dispatched
<1>2. Published' = Published
  BY SMT DEF Published
<1>3. /\ \A x : x # e => event'[x] = event[x] /\ event'[e] = [kind |-> kind, room |-> r]
      /\ outbox' = outbox \cup {e}
  BY SMT DEF Dispatch, IInv, TypeOK
<1>4. EventShape'
  BY <1>1, <1>2, <1>3, SMT DEF IInv, EventShape, Dispatched, Kind
<1>5. DurableShape'
  BY <1>1, <1>2, <1>3, SMT DEF IInv, DurableShape, Subject
<1>6. ContextShape'
  BY <1>1, <1>2, <1>3, SMT DEF IInv, ContextShape, Subject, Settled
<1>7. Foreign' = Foreign /\ Waiting' = Waiting
  BY <1>1, <1>2, <1>3, SMT DEF Foreign, Waiting, Pending
<1> QED BY <1>2, <1>4, <1>5, <1>6, <1>7, Zenon DEF Shapes, MailStep, Inbox!vars, Foreign

\* What the limit of a subject drops was published under that subject.
LEMMA OldestOf ==
  ASSUME log \in Seq(Events), NEW s
  PROVE  \A x \in Oldest(s) : x \in Published /\ Subject(x) = s
<1>1. DOMAIN log = 1..Len(log)
  BY SMT
<1>2. \A i \in OfSubject(s) : log[i] \in Published /\ Subject(log[i]) = s
  BY <1>1, Zenon DEF OfSubject, Published
<1> QED BY <1>2, Zenon DEF Oldest

\* Publish is the mailbox's Publish: what is dropped at the limit is what waited of it.
LEMMA PublishStep ==
  ASSUME IInv, NEW e \in Events, Publish(e)
  PROVE  Shapes' /\ MailStep
<1> DEFINE s == Subject(e)
           old == Oldest(s)
           new == IF durable[s].exists THEN {e} ELSE {}
<1>1. /\ e \in outbox /\ outbox' = outbox \ {e}
      /\ log' = Append(log, e)
      /\ durable' = [durable EXCEPT ![s].ready = (@ \ old) \cup new, ![s].out = @ \ old]
      /\ unsent' = unsent \cup {d \in old : Pending(d) /\ d \notin sent}
      /\ UNCHANGED <<event, ctx, sent>>
  BY Zenon DEF Publish
<1>2. Published' = Published \cup {e}
  <2>1. log \in Seq(Events) /\ log' = Append(log, e)
    BY <1>1 DEF IInv, TypeOK
  <2>2. DOMAIN log' = DOMAIN log \cup {Len(log) + 1} /\ log'[Len(log) + 1] = e
        /\ \A i \in DOMAIN log : log'[i] = log[i]
    BY <2>1, SMT
  <2> QED BY <2>2, SMT DEF Published
<1>3. e \notin Published /\ Dispatched(e)
  BY <1>1, SMT DEF IInv, EventShape
<1>4. \A x \in old : x \in Published /\ Subject(x) = s
  BY OldestOf DEF IInv, TypeOK
<1>5. s \in Subjects
  BY <1>3, SMT DEF IInv, EventShape, Subject, Subjects, Dispatched
<1>6. new \in {{}, {e}}
  OBVIOUS
<1> HIDE DEF old, new
<1>7. \A t \in Subjects :
        /\ durable'[t].ready = IF t = s THEN (durable[t].ready \ old) \cup new
                               ELSE durable[t].ready
        /\ durable'[t].out = IF t = s THEN durable[t].out \ old ELSE durable[t].out
  <2> SUFFICES ASSUME NEW t \in Subjects
               PROVE  /\ durable'[t].ready = IF t = s THEN (durable[t].ready \ old) \cup new
                                             ELSE durable[t].ready
                      /\ durable'[t].out = IF t = s THEN durable[t].out \ old ELSE durable[t].out
    OBVIOUS
  <2>1. durable \in [Subjects -> Durable] /\ durable[t] \in Durable
    BY Zenon DEF IInv, TypeOK
  <2>2. durable'[t] = IF t = s THEN [durable[t] EXCEPT !.ready = (@ \ old) \cup new, !.out = @ \ old]
                      ELSE durable[t]
    BY <1>1, <2>1, Zenon
  <2>3. /\ [durable[t] EXCEPT !.ready = (@ \ old) \cup new, !.out = @ \ old].ready
             = (durable[t].ready \ old) \cup new
        /\ [durable[t] EXCEPT !.ready = (@ \ old) \cup new, !.out = @ \ old].out
             = durable[t].out \ old
    BY <2>1, SMT DEF Durable
  <2> QED BY <2>2, <2>3, Zenon
<1> HIDE DEF s
<1>8. EventShape'
  BY <1>1, <1>2, <1>3, SMT DEF IInv, EventShape, Dispatched
<1>9. DurableShape'
  <2>1. ASSUME NEW t \in Subjects PROVE durable'[t].ready \cap durable'[t].out = {}
    <3>1. durable[t].ready \cap durable[t].out = {} /\ e \notin durable[t].out
      BY <1>3, Zenon DEF IInv, DurableShape
    <3>2. durable'[t].ready \subseteq durable[t].ready \cup {e} /\ durable'[t].out \subseteq durable[t].out
      <4>1. CASE t = s
        BY <1>6, <1>7, <4>1, Zenon
      <4>2. CASE t # s
        BY <1>7, <4>2, Zenon
      <4> QED BY <4>1, <4>2
    <3> QED BY <3>1, <3>2, SMT
  <2>2. ASSUME NEW t \in Subjects, NEW x \in durable'[t].ready \cup durable'[t].out
        PROVE  x \in Published' /\ Subject(x)' = t
    <3>1. CASE x \in durable[t].ready \cup durable[t].out
      <4>1. x \in Published /\ Subject(x) = t
        BY <3>1, Zenon DEF IInv, DurableShape
      <4> QED BY <1>1, <1>2, <4>1, Zenon DEF Subject
    <3>2. CASE x \notin durable[t].ready \cup durable[t].out
      <4>1. x = e /\ t = s
        <5>1. CASE t = s
          BY <1>6, <1>7, <2>2, <3>2, <5>1, Zenon
        <5>2. CASE t # s
          BY <1>7, <2>2, <3>2, <5>2, Zenon
        <5> QED BY <5>1, <5>2
      <4>2. Subject(e)' = Subject(e)
        BY <1>1, Zenon DEF Subject
      <4> QED BY <1>2, <4>1, <4>2, Zenon DEF s
    <3> QED BY <3>1, <3>2
  <2> QED BY <2>1, <2>2, Zenon DEF DurableShape
<1>10. ContextShape'
  BY <1>1, <1>2, SMT DEF IInv, ContextShape, Subject, Settled
<1>11. \A x \in Events : Pending(x)' <=> (Pending(x) /\ x \notin old) \/ x \in new
  <2>1. \A x \in Events, t \in Subjects :
          x \in durable'[t].ready \cup durable'[t].out
          <=> (x \in durable[t].ready \cup durable[t].out /\ x \notin old) \/ (t = s /\ x \in new)
    <3> SUFFICES ASSUME NEW x \in Events, NEW t \in Subjects
                 PROVE  x \in durable'[t].ready \cup durable'[t].out
                        <=> (x \in durable[t].ready \cup durable[t].out /\ x \notin old)
                            \/ (t = s /\ x \in new)
      OBVIOUS
    <3>1. t # s /\ x \in durable[t].ready \cup durable[t].out => x \notin old
      BY <1>4, Zenon DEF IInv, DurableShape
    <3>2. /\ durable'[t].ready = IF t = s THEN (durable[t].ready \ old) \cup new
                                 ELSE durable[t].ready
          /\ durable'[t].out = IF t = s THEN durable[t].out \ old ELSE durable[t].out
      BY <1>7
    <3> QED BY <3>1, <3>2, SMT
  <2> QED BY <1>5, <2>1, SMT DEF Pending
<1>12. Inbox!Publish(e)
  <2> DEFINE dropped == old \cap Waiting
  <2>1. dropped \in SUBSET Waiting
    OBVIOUS
  <2>2. Waiting' \in {Waiting \ dropped, (Waiting \ dropped) \cup {e}}
    <3>1. Waiting' = (Waiting \ old) \cup new
      BY <1>6, <1>11, SMT DEF Waiting
    <3> QED BY <1>6, <3>1, SMT
  <2>3. unsent' = unsent \cup (dropped \ sent)
    <3>1. \A x \in old : x \in Events
      BY <1>4, PublishedEvents, SMT DEF IInv, TypeOK
    <3> QED BY <1>1, <3>1, SMT DEF Waiting
  <2>4. Foreign' \in {Foreign, Foreign \cup {e}}
    BY <1>1, <1>2, SMT DEF Foreign
  <2> HIDE DEF dropped
  <2> QED BY <1>1, <1>2, <1>3, <2>1, <2>2, <2>3, <2>4, Zenon DEF Inbox!Publish, Foreign
<1> QED BY <1>8, <1>9, <1>10, <1>12, Zenon DEF Shapes, MailStep, Inbox!Next

\* A step that neither publishes, delivers nor gives up keeps the invariant.
LEMMA QuietStep ==
  ASSUME IInv, Still, SameHeld, UNCHANGED <<sent, unsent>>, \A c \in Contexts : GoesOn(c)
  PROVE  Shapes' /\ MailStep
<1>1. EventShape' /\ DurableShape' /\ Waiting' = Waiting
  BY StillEvents, HeldKept, Zenon DEF IInv
<1>2. ContextShape'
  BY ContextsKept, Zenon DEF IInv
<1> QED BY <1>1, <1>2, Stutters, Zenon DEF IInv, Shapes, MailStep
------------------------------------------------------------------------------
\* Callbacks that do nothing go on.
LEMMA SameContexts ==
  ASSUME ctx' = ctx
  PROVE  \A c \in Contexts : GoesOn(c)
BY Zenon DEF GoesOn

\* Putting a context into a map interrupts no callback.
LEMMA PutGoesOn ==
  ASSUME IInv, NEW n, NEW r, NEW d, NEW c \in Contexts
  PROVE  \/ PutContexts(n, r, d)[c].pc = "idle"
         \/ /\ PutContexts(n, r, d)[c].event = ctx[c].event
            /\ PutContexts(n, r, d)[c].subject = ctx[c].subject
            /\ PutContexts(n, r, d)[c].pc = ctx[c].pc
<1>1. ctx[c] \in Context
  BY Zenon DEF IInv, TypeOK
<1>2. PutContexts(n, r, d)[c] =
        IF c = d THEN [Started(r, n) EXCEPT !.orphan = session.pc = "off" \/ n # Current]
        ELSE IF c = mapped[n][r] THEN Orphaned(ctx[c]) ELSE ctx[c]
  BY Zenon DEF PutContexts
<1>3. [Started(r, n) EXCEPT !.orphan = session.pc = "off" \/ n # Current].pc = "idle"
  BY StartedIdle
<1> QED BY <1>1, <1>2, <1>3, CtxValues, Zenon

\* CreateOrUpdateConsumer keeps what is held.
LEMMA EnsuredHeld ==
  ASSUME IInv, NEW s, durable' = EnsureDurable(s)
  PROVE  SameHeld
BY Ensured, Zenon DEF IInv, TypeOK, SameHeld

\* The steps of the session itself.
LEMMA SessionStep ==
  ASSUME IInv,
         \/ \E only \in Rooms \cup {Nothing} : Open(only)
         \/ Activate \/ Disconnect \/ Close \/ Crash
         \/ \E d \in Contexts : SubscribeDirect(d)
         \/ \E r \in Rooms, d \in Contexts : SubscribeRoom(r, d)
  PROVE  Shapes' /\ MailStep
<1>1. CASE (\E only \in Rooms \cup {Nothing} : Open(only)) \/ Activate \/ Disconnect
  <2>1. Still /\ UNCHANGED <<durable, ctx, sent, unsent>>
    <3>1. UNCHANGED <<event, outbox, log, durable, ctx, sent, unsent>>
      BY <1>1, Zenon DEF Open, Activate, Disconnect, stream
    <3> QED BY <3>1, SMT DEF Still
  <2>2. \A c \in Contexts : GoesOn(c)
    BY <2>1, SameContexts
  <2>3. SameHeld
    BY <2>1, Zenon DEF SameHeld
  <2> QED BY <2>1, <2>2, <2>3, QuietStep
<1>2. CASE Close
  <2>1. /\ Still /\ UNCHANGED <<durable, sent, unsent>>
        /\ ctx' = [c \in Contexts |->
             IF \E s \in Subjects : mapped[Current][s] = c THEN Stopped(ctx[c]) ELSE ctx[c]]
    BY <1>2, SMT DEF Close, stream, Still
  <2>2. ASSUME NEW c \in Contexts PROVE GoesOn(c)
    <3>1. ctx'[c] = Stopped(ctx[c]) \/ ctx'[c] = ctx[c]
      BY <2>1, Zenon
    <3>2. ctx[c] \in Context
      BY Zenon DEF IInv, TypeOK
    <3> QED BY <3>1, <3>2, CtxValues, Zenon DEF GoesOn
  <2> QED BY <2>1, <2>2, QuietStep, Zenon DEF SameHeld
<1>3. CASE Crash
  <2>1. /\ Still /\ UNCHANGED <<durable, sent, unsent>>
        /\ ctx' = [c \in Contexts |-> Free]
    BY <1>3, SMT DEF Crash, Still
  <2>2. ASSUME NEW c \in Contexts PROVE GoesOn(c)
    BY <2>1, SMT DEF GoesOn, Free
  <2> QED BY <2>1, <2>2, QuietStep, Zenon DEF SameHeld
<1>4. ASSUME NEW d \in Contexts, SubscribeDirect(d) PROVE Shapes' /\ MailStep
  <2>1. /\ Still /\ UNCHANGED <<sent, unsent>>
        /\ durable' = EnsureDurable(Direct)
        /\ ctx' = [ctx EXCEPT ![d] = Started(Direct, Current)]
    BY <1>4, SMT DEF SubscribeDirect, stream, Still
  <2>2. ASSUME NEW c \in Contexts PROVE GoesOn(c)
    <3>1. ctx'[c] = IF c = d THEN Started(Direct, Current) ELSE ctx[c]
      BY <2>1, Zenon DEF IInv, TypeOK
    <3>2. Started(Direct, Current).pc = "idle"
      BY StartedIdle
    <3> QED BY <3>1, <3>2, Zenon DEF GoesOn
  <2> QED BY <2>1, <2>2, EnsuredHeld, QuietStep, Zenon
<1>5. ASSUME NEW r \in Rooms, NEW d \in Contexts, SubscribeRoom(r, d)
      PROVE  Shapes' /\ MailStep
  <2>1. /\ Still /\ UNCHANGED <<sent, unsent>>
        /\ durable' = EnsureDurable(r)
        /\ ctx' = PutContexts(Current, r, d)
    BY <1>5, SMT DEF SubscribeRoom, stream, Still
  <2>2. ASSUME NEW c \in Contexts PROVE GoesOn(c)
    <3>1. \/ ctx'[c].pc = "idle"
          \/ /\ ctx'[c].event = ctx[c].event /\ ctx'[c].subject = ctx[c].subject
             /\ ctx'[c].pc = ctx[c].pc
      BY <2>1, PutGoesOn
    <3> QED BY <3>1, Zenon DEF GoesOn
  <2> QED BY <2>1, <2>2, EnsuredHeld, QuietStep, Zenon
<1> QED BY <1>1, <1>2, <1>3, <1>4, <1>5

\* A consumer whose event is taken, given back or acknowledged.
Takes(s, e) == durable' = [durable EXCEPT ![s].ready = @ \ {e}, ![s].out = @ \cup {e}]
GivesBack(s, e) == durable' = [durable EXCEPT ![s].out = @ \ {e}, ![s].ready = @ \cup {e}]
Settles(s, e) == durable' = [durable EXCEPT ![s].ready = @ \ {e}, ![s].out = @ \ {e}]

\* What Take makes of the consumers.
LEMMA Taken ==
  ASSUME IInv, NEW s, NEW e, Takes(s, e)
  PROVE  \A t \in Subjects :
           /\ durable'[t].ready = IF t = s THEN durable[t].ready \ {e} ELSE durable[t].ready
           /\ durable'[t].out = IF t = s THEN durable[t].out \cup {e} ELSE durable[t].out
<1> SUFFICES ASSUME NEW t \in Subjects
             PROVE  /\ durable'[t].ready = IF t = s THEN durable[t].ready \ {e} ELSE durable[t].ready
                    /\ durable'[t].out = IF t = s THEN durable[t].out \cup {e} ELSE durable[t].out
  OBVIOUS
<1> DEFINE new == [durable[t] EXCEPT !.ready = @ \ {e}, !.out = @ \cup {e}]
<1>1. durable \in [Subjects -> Durable] /\ durable[t] \in Durable
  BY Zenon DEF IInv, TypeOK
<1>2. durable'[t] = IF t = s THEN new ELSE durable[t]
  BY <1>1, Zenon DEF Takes
<1>3. new.ready = durable[t].ready \ {e} /\ new.out = durable[t].out \cup {e}
  BY <1>1, SMT DEF Durable
<1> HIDE DEF new
<1>4. CASE t = s
  BY <1>2, <1>3, <1>4, Zenon
<1>5. CASE t # s
  BY <1>2, <1>5, Zenon
<1> QED BY <1>4, <1>5

\* What AckWait makes of them.
LEMMA GivenBack ==
  ASSUME IInv, NEW s, NEW e, GivesBack(s, e)
  PROVE  \A t \in Subjects :
           /\ durable'[t].ready = IF t = s THEN durable[t].ready \cup {e} ELSE durable[t].ready
           /\ durable'[t].out = IF t = s THEN durable[t].out \ {e} ELSE durable[t].out
<1> SUFFICES ASSUME NEW t \in Subjects
             PROVE  /\ durable'[t].ready = IF t = s THEN durable[t].ready \cup {e} ELSE durable[t].ready
                    /\ durable'[t].out = IF t = s THEN durable[t].out \ {e} ELSE durable[t].out
  OBVIOUS
<1> DEFINE new == [durable[t] EXCEPT !.out = @ \ {e}, !.ready = @ \cup {e}]
<1>1. durable \in [Subjects -> Durable] /\ durable[t] \in Durable
  BY Zenon DEF IInv, TypeOK
<1>2. durable'[t] = IF t = s THEN new ELSE durable[t]
  BY <1>1, Zenon DEF GivesBack
<1>3. new.ready = durable[t].ready \cup {e} /\ new.out = durable[t].out \ {e}
  BY <1>1, SMT DEF Durable
<1> HIDE DEF new
<1>4. CASE t = s
  BY <1>2, <1>3, <1>4, Zenon
<1>5. CASE t # s
  BY <1>2, <1>5, Zenon
<1> QED BY <1>4, <1>5

\* What msg.Ack makes of them.
LEMMA Acknowledged ==
  ASSUME IInv, NEW s, NEW e, Settles(s, e)
  PROVE  \A t \in Subjects :
           /\ durable'[t].ready = IF t = s THEN durable[t].ready \ {e} ELSE durable[t].ready
           /\ durable'[t].out = IF t = s THEN durable[t].out \ {e} ELSE durable[t].out
<1> SUFFICES ASSUME NEW t \in Subjects
             PROVE  /\ durable'[t].ready = IF t = s THEN durable[t].ready \ {e} ELSE durable[t].ready
                    /\ durable'[t].out = IF t = s THEN durable[t].out \ {e} ELSE durable[t].out
  OBVIOUS
<1> DEFINE new == [durable[t] EXCEPT !.ready = @ \ {e}, !.out = @ \ {e}]
<1>1. durable \in [Subjects -> Durable] /\ durable[t] \in Durable
  BY Zenon DEF IInv, TypeOK
<1>2. durable'[t] = IF t = s THEN new ELSE durable[t]
  BY <1>1, Zenon DEF Settles
<1>3. new.ready = durable[t].ready \ {e} /\ new.out = durable[t].out \ {e}
  BY <1>1, SMT DEF Durable
<1> HIDE DEF new
<1>4. CASE t = s
  BY <1>2, <1>3, <1>4, Zenon
<1>5. CASE t # s
  BY <1>2, <1>5, Zenon
<1> QED BY <1>4, <1>5

\* Consumers that hold the same events, taken or not, keep the mailbox as it is.
LEMMA MovedHeld ==
  ASSUME IInv, event' = event, Published' = Published,
         \A t \in Subjects :
            /\ durable'[t].ready \cup durable'[t].out = durable[t].ready \cup durable[t].out
            /\ durable'[t].ready \cap durable'[t].out = {}
  PROVE  DurableShape' /\ Waiting' = Waiting
<1>1. \A x : Subject(x)' = Subject(x)
  BY Zenon DEF Subject
<1>2. DurableShape'
  BY <1>1, Zenon DEF IInv, DurableShape
<1>3. Waiting' = Waiting
  BY Zenon DEF Waiting, Pending
<1> QED BY <1>2, <1>3

\* Taking an event and giving it out again do.
LEMMA Moved ==
  ASSUME IInv, event' = event, Published' = Published, NEW s, NEW e,
         \/ Takes(s, e) /\ e \in durable[s].ready
         \/ GivesBack(s, e) /\ e \in durable[s].out
  PROVE  DurableShape' /\ Waiting' = Waiting
<1>1. ASSUME NEW t \in Subjects
      PROVE  /\ durable'[t].ready \cup durable'[t].out = durable[t].ready \cup durable[t].out
             /\ durable'[t].ready \cap durable'[t].out = {}
  <2>1. durable[t].ready \cap durable[t].out = {}
    BY Zenon DEF IInv, DurableShape
  <2>2. CASE Takes(s, e) /\ e \in durable[s].ready
    <3>1. /\ durable'[t].ready = IF t = s THEN durable[t].ready \ {e} ELSE durable[t].ready
          /\ durable'[t].out = IF t = s THEN durable[t].out \cup {e} ELSE durable[t].out
      BY <2>2, Taken
    <3> QED BY <2>1, <2>2, <3>1, SMT
  <2>3. CASE GivesBack(s, e) /\ e \in durable[s].out
    <3>1. /\ durable'[t].ready = IF t = s THEN durable[t].ready \cup {e} ELSE durable[t].ready
          /\ durable'[t].out = IF t = s THEN durable[t].out \ {e} ELSE durable[t].out
      BY <2>3, GivenBack
    <3> QED BY <2>1, <2>3, <3>1, SMT
  <2> QED BY <2>2, <2>3
<1> QED BY <1>1, MovedHeld

\* The steps that move an event between a consumer's two sets, or out of them.
LEMMA DeliveryStep ==
  ASSUME IInv, NEW e \in Events,
         \/ PublishFails(e) \/ Expire(e)
         \/ \E c \in Contexts : Take(c, e)
         \/ \E s \in Subjects : AckWait(s, e)
  PROVE  Shapes' /\ MailStep
<1>1. CASE PublishFails(e)
  <2>1. Still /\ UNCHANGED <<durable, ctx, sent, unsent>>
    BY <1>1, SMT DEF PublishFails, Still
  <2>2. \A c \in Contexts : GoesOn(c)
    BY <2>1, SameContexts
  <2>3. SameHeld
    BY <2>1, Zenon DEF SameHeld
  <2> QED BY <2>1, <2>2, <2>3, QuietStep
<1>2. CASE Expire(e)
  <2> DEFINE s == Subject(e)
  <2>1. /\ Pending(e) /\ e \in durable[s].ready
        /\ durable' = [durable EXCEPT ![s].ready = @ \ {e}]
        /\ unsent' = IF e \in sent THEN unsent ELSE unsent \cup {e}
        /\ UNCHANGED <<event, outbox, log, ctx, sent>>
    BY <1>2, Zenon DEF Expire, stream
  <2>2. Still /\ sent \subseteq sent' /\ unsent \subseteq unsent'
    BY <2>1, SMT DEF Still
  <2>3. EventShape' /\ Published' = Published /\ Foreign' = Foreign
    BY <2>2, StillEvents DEF IInv
  <2>4. ContextShape'
    BY <2>1, <2>2, SameContexts, ContextsKept DEF IInv
  <2>5. \A t \in Subjects : /\ durable'[t].ready = durable[t].ready \ {e}
                            /\ durable'[t].out = durable[t].out
    <3> SUFFICES ASSUME NEW t \in Subjects
                 PROVE  /\ durable'[t].ready = durable[t].ready \ {e}
                        /\ durable'[t].out = durable[t].out
      OBVIOUS
    <3>1. durable \in [Subjects -> Durable] /\ durable[t] \in Durable
      BY Zenon DEF IInv, TypeOK
    <3>2. durable'[t] = IF t = s THEN [durable[t] EXCEPT !.ready = @ \ {e}] ELSE durable[t]
      BY <2>1, <3>1, Zenon
    <3>3. /\ [durable[t] EXCEPT !.ready = @ \ {e}].ready = durable[t].ready \ {e}
          /\ [durable[t] EXCEPT !.ready = @ \ {e}].out = durable[t].out
      BY <3>1, SMT DEF Durable
    <3>4. t # s => e \notin durable[t].ready
      BY Zenon DEF IInv, DurableShape
    <3> HIDE DEF s
    <3>5. t # s => durable[t].ready \ {e} = durable[t].ready
      BY <3>4, SMT
    <3> QED BY <3>2, <3>3, <3>5, Zenon
  <2>6. DurableShape'
    BY <2>1, <2>3, <2>5, SMT DEF IInv, DurableShape, Subject
  <2>7. \A t \in Subjects : e \notin durable[t].out
    BY <2>1, Zenon DEF IInv, DurableShape
  <2>8. e \in Waiting /\ Waiting' = Waiting \ {e}
    BY <2>1, <2>5, <2>7, SMT DEF Waiting, Pending
  <2>9. Inbox!Expire(e)
    BY <2>1, <2>3, <2>8, Zenon DEF Inbox!Expire, Foreign
  <2> QED BY <2>3, <2>4, <2>6, <2>9, Zenon DEF Shapes, MailStep, Inbox!Next
<1>3. ASSUME NEW c \in Contexts, Take(c, e) PROVE Shapes' /\ MailStep
  <2> DEFINE s == ctx[c].subject
  <2>1. /\ ctx[c].pc = "idle" /\ First(s, e)
        /\ ctx' = [ctx EXCEPT ![c].pc = "got", ![c].event = e]
        /\ Takes(s, e)
        /\ UNCHANGED <<event, outbox, log, sent, unsent>>
    BY <1>3, Zenon DEF Take, stream, Takes
  <2>2. Still
    BY <2>1, SMT DEF Still
  <2>3. EventShape' /\ Published' = Published
    BY <2>2, StillEvents DEF IInv
  <2>4. e \in Published /\ Subject(e) = s /\ e \in durable[s].ready
    <3>1. DOMAIN log = 1..Len(log)
      BY SMT DEF IInv, TypeOK
    <3> QED BY <2>1, <3>1, Zenon DEF First, OfSubject, Published
  <2>5. s \in Subjects
    BY <2>4, SMT DEF IInv, EventShape, Subject, Subjects, Dispatched
  <2> HIDE DEF s
  <2>7. DurableShape' /\ Waiting' = Waiting
    BY <2>1, <2>3, <2>4, Moved
  <2>8. ContextShape'
    <3>1. ASSUME NEW x \in Contexts, x # c PROVE ctx'[x] = ctx[x]
      BY <2>1, <3>1, Zenon DEF IInv, TypeOK
    <3>2. ctx'[c].pc = "got" /\ ctx'[c].event = e /\ ctx'[c].subject = s
      <4>1. ctx \in [Contexts -> Context] /\ ctx[c] \in Context
        BY Zenon DEF IInv, TypeOK
      <4> DEFINE new == [ctx[c] EXCEPT !.pc = "got", !.event = e]
      <4>2. ctx'[c] = new
        BY <2>1, <4>1, Zenon
      <4>3. new.pc = "got" /\ new.event = e /\ new.subject = ctx[c].subject
        BY <4>1, SMT DEF Context
      <4> HIDE DEF new
      <4> QED BY <4>2, <4>3, Zenon DEF s
    <3>4. ASSUME NEW x \in Contexts, ctx'[x].pc # "idle"
          PROVE  /\ ctx'[x].event \in Published
                 /\ ctx'[x].subject = Subject(ctx[x].event)'
                 /\ ctx'[x].pc = "ack" => Settled(ctx[x].event)'
      <4>1. CASE x = c
        BY <2>1, <2>4, <3>2, <4>1, Zenon DEF Subject
      <4>2. CASE x # c
        <5>1. ctx'[x] = ctx[x] /\ ctx[x].pc # "idle"
          BY <3>1, <3>4, <4>2
        <5>2. /\ ctx[x].event \in Published
              /\ ctx[x].subject = Subject(ctx[x].event)
              /\ ctx[x].pc = "ack" => Settled(ctx[x].event)
          BY <5>1, Zenon DEF IInv, ContextShape
        <5>3. Subject(ctx[x].event)' = Subject(ctx[x].event)
          BY <2>1, <5>1, SMT DEF Subject
        <5>4. Settled(ctx[x].event) => Settled(ctx[x].event)'
          BY <2>1, <5>1, SMT DEF Settled
        <5> QED BY <5>1, <5>2, <5>3, <5>4, Zenon
      <4> QED BY <4>1, <4>2
    <3> QED BY <2>3, <3>4, Zenon DEF ContextShape
  <2> QED BY <2>1, <2>2, <2>3, <2>7, <2>8, Stutters, Zenon DEF IInv, Shapes, MailStep
<1>4. ASSUME NEW s \in Subjects, AckWait(s, e) PROVE Shapes' /\ MailStep
  <2>1. /\ e \in durable[s].out
        /\ GivesBack(s, e)
        /\ UNCHANGED <<event, outbox, log, ctx, sent, unsent>>
    BY <1>4, Zenon DEF AckWait, stream, GivesBack
  <2>2. Still
    BY <2>1, SMT DEF Still
  <2>3. EventShape' /\ Published' = Published
    BY <2>2, StillEvents DEF IInv
  <2>4. ContextShape'
    BY <2>1, <2>2, SameContexts, ContextsKept DEF IInv
  <2>7. DurableShape' /\ Waiting' = Waiting
    BY <2>1, <2>3, Moved
  <2> QED BY <2>1, <2>2, <2>3, <2>4, <2>7, Stutters, Zenon DEF IInv, Shapes, MailStep
<1> QED BY <1>1, <1>2, <1>3, <1>4
------------------------------------------------------------------------------
\* The callback.  The event it runs for is published; it only goes on with it, and
\* sends it, gives it up or knows it to be foreign before it is acknowledged.
CallbackOf(c) == /\ ctx[c].event \in Published /\ ctx[c].event \in Events
                 /\ ctx[c].subject = Subject(ctx[c].event)

\* A callback runs for a published event of its subject.
LEMMA RunningCallback ==
  ASSUME IInv, NEW c \in Contexts, ctx[c].pc # "idle"
  PROVE  CallbackOf(c)
BY PublishedEvents, Zenon DEF IInv, TypeOK, ContextShape, CallbackOf

\* A context is of a session, or free.
LEMMA ContextOf ==
  ASSUME ctx \in [Contexts -> Context], NEW c \in Contexts
  PROVE  ctx[c].of \in Sessions \cup {0}
<1>1. ctx[c] \in Context
  BY Zenon
<1> QED BY <1>1, Zenon DEF Context

\* The callback goes to another place, and the other contexts stay.
LEMMA CallbackGoesOn ==
  ASSUME IInv, NEW c \in Contexts, NEW p \in ContextPc, ctx[c].pc # "idle",
         ctx' = [ctx EXCEPT ![c].pc = p],
         p = "ack" => Settled(ctx[c].event)'
  PROVE  \A x \in Contexts : GoesOn(x)
<1> SUFFICES ASSUME NEW x \in Contexts PROVE GoesOn(x)
  OBVIOUS
<1>1. /\ ctx'[x].event = ctx[x].event
      /\ ctx'[x].subject = ctx[x].subject
      /\ ctx'[x].pc = IF x = c THEN p ELSE ctx[x].pc
  BY CtxPc DEF IInv, TypeOK
<1>2. CASE x = c
  BY <1>1, <1>2, Zenon DEF GoesOn
<1>3. CASE x # c
  BY <1>1, <1>3, Zenon DEF GoesOn
<1> QED BY <1>2, <1>3

\* What sending the event of the callback c, or giving it up, is to the mailbox.
LEMMA OutcomeStep ==
  ASSUME IInv, NEW c \in Contexts, ctx[c].pc # "idle", Still, durable' = durable,
         \/ sent' = sent \cup {ctx[c].event} /\ unsent' = unsent
         \/ unsent' = unsent \cup {ctx[c].event} /\ sent' = sent,
         \A x \in Contexts : GoesOn(x)
  PROVE  Shapes' /\ MailStep
<1>1. CallbackOf(c)
  BY RunningCallback
<1>2. EventShape' /\ Published' = Published /\ Foreign' = Foreign
  BY StillEvents DEF IInv
<1>3. SameHeld
  BY Zenon DEF SameHeld
<1>4. DurableShape' /\ Waiting' = Waiting
  BY <1>3, HeldKept DEF IInv
<1>5. sent \subseteq sent' /\ unsent \subseteq unsent'
  BY SMT
<1>6. ContextShape'
  BY <1>5, ContextsKept DEF IInv
<1>7. Inbox!Send(ctx[c].event) \/ Inbox!GiveUp(ctx[c].event)
  BY <1>1, <1>2, <1>4, Zenon DEF CallbackOf, Foreign, Inbox!Send, Inbox!GiveUp
<1> QED BY <1>1, <1>2, <1>4, <1>6, <1>7, Zenon DEF Shapes, MailStep, Inbox!Next, CallbackOf

\* sm.Send: the event was sent, or given up.
LEMMA DeliveredOutcome ==
  ASSUME NEW e, Delivered(e)
  PROVE  \/ sent' = sent \cup {e} /\ unsent' = unsent
         \/ unsent' = unsent \cup {e} /\ sent' = sent
BY Zenon DEF Delivered

\* Every step of handleJetStreamMessage is the mailbox's Send, GiveUp or Settle, or
\* nothing to it.
LEMMA CallbackMailStep ==
  ASSUME IInv, NEW c \in Contexts, CallbackStep(c)
  PROVE  Shapes' /\ MailStep
<1>q. "send" \in ContextPc /\ "consume" \in ContextPc /\ "ack" \in ContextPc
  BY SMT DEF ContextPc
<1>r. ASSUME NEW p \in {"got", "consume", "send", "ack"}, At(c, p) PROVE ctx[c].pc # "idle"
  BY <1>r, SMT DEF At
<1>1. CASE SkipForeign(c)
  <2>1. /\ ctx[c].pc # "idle" /\ event[ctx[c].event].kind = "foreign"
        /\ ctx' = [ctx EXCEPT ![c].pc = "ack"]
        /\ Still /\ UNCHANGED <<event, durable, sent, unsent>>
    BY <1>1, SMT DEF SkipForeign, At, Of, stream, Still
  <2>2. Settled(ctx[c].event)'
    <3>1. ctx'[c].event = ctx[c].event
      BY <1>q, <2>1, CtxPc DEF IInv, TypeOK
    <3> QED BY <2>1, <3>1, Zenon DEF Settled
  <2>3. SameHeld
    BY <2>1, Zenon DEF SameHeld
  <2> QED BY <1>q, <2>1, <2>2, <2>3, CallbackGoesOn, QuietStep
<1>2. CASE LookupFails(c)
  <2>1. /\ ctx[c].pc # "idle" /\ unsent' = unsent \cup {ctx[c].event}
        /\ ctx' = [ctx EXCEPT ![c].pc = "ack"]
        /\ Still /\ UNCHANGED <<durable, sent>>
    BY <1>2, SMT DEF LookupFails, At, Of, stream, Still
  <2>2. Settled(ctx[c].event)'
    <3>1. ctx'[c].event = ctx[c].event
      BY <1>q, <2>1, CtxPc DEF IInv, TypeOK
    <3> QED BY <2>1, <3>1, SMT DEF Settled
  <2> QED BY <1>q, <2>1, <2>2, CallbackGoesOn, OutcomeStep
<1>3. CASE HandleJoin(c) \/ SubscribeFails(c)
  <2>1. /\ ctx[c].pc # "idle" /\ Still /\ UNCHANGED <<sent, unsent>>
        /\ \/ ctx' = [ctx EXCEPT ![c].pc = "send"]
           \/ ctx' = [ctx EXCEPT ![c].pc = "consume"]
    BY <1>3, SMT DEF HandleJoin, SubscribeFails, At, stream, Still
  <2>2. durable' = durable \/ durable' = EnsureDurable(Of(c).room)
    BY <1>3, Zenon DEF HandleJoin, SubscribeFails
  <2>3. SameHeld
    BY <2>2, EnsuredHeld, Zenon DEF SameHeld
  <2>4. \A x \in Contexts : GoesOn(x)
    BY <1>q, <2>1, CallbackGoesOn
  <2> QED BY <2>1, <2>3, <2>4, QuietStep
<1>4. ASSUME NEW d \in Contexts, ConsumeForJoin(c, d) PROVE Shapes' /\ MailStep
  <2> DEFINE put == PutContexts(ctx[c].of, Of(c).room, d)
  <2>1. /\ ctx[c].pc # "idle" /\ Still /\ UNCHANGED <<durable, sent, unsent>>
        /\ ctx' = [put EXCEPT ![c].pc = "send"] /\ ctx[d] = Free
    BY <1>4, SMT DEF ConsumeForJoin, At, Fresh, stream, Still
  <2>2. c # d
    BY <2>1, SMT DEF Free
  <2> HIDE DEF put
  <2>3. ASSUME NEW x \in Contexts PROVE GoesOn(x)
    <3>1. put \in [Contexts -> Context]
      <4>1. ctx[c].of \in Sessions \cup {0}
        BY ContextOf DEF IInv, TypeOK
      <4>2. Of(c).room \in Rooms
        BY <2>1, RunningCallback, SMT DEF IInv, EventShape, CallbackOf, Of
      <4> QED BY <4>1, <4>2, PutType DEF IInv, TypeOK, put
    <3>2. \/ put[x].pc = "idle"
          \/ /\ put[x].event = ctx[x].event
             /\ put[x].subject = ctx[x].subject
             /\ put[x].pc = ctx[x].pc
      BY PutGoesOn DEF put
    <3>3. ctx'[x] = IF x = c THEN [put[c] EXCEPT !.pc = "send"] ELSE put[x]
      BY <2>1, <3>1, Zenon
    <3>4. CASE x # c
      BY <3>2, <3>3, <3>4, Zenon DEF GoesOn
    <3>5. CASE x = c
      <4>1. put[c] \in Context
        BY <3>1, Zenon
      <4>2. ctx'[c].event = put[c].event /\ ctx'[c].subject = put[c].subject /\ ctx'[c].pc = "send"
        <5> DEFINE new == [put[c] EXCEPT !.pc = "send"]
        <5>1. new.event = put[c].event /\ new.subject = put[c].subject /\ new.pc = "send"
          BY <1>q, <4>1, CtxValues
        <5>2. ctx'[c] = new
          BY <3>3, <3>5
        <5> HIDE DEF new
        <5> QED BY <5>1, <5>2, Zenon
      <4>3. put[c].event = ctx[c].event /\ put[c].subject = ctx[c].subject
        <5>1. put[c] = IF c = mapped[ctx[c].of][Of(c).room] THEN Orphaned(ctx[c]) ELSE ctx[c]
          BY <2>2, Zenon DEF put, PutContexts
        <5>2. ctx[c] \in Context
          BY Zenon DEF IInv, TypeOK
        <5> QED BY <5>1, <5>2, CtxValues, Zenon
      <4> QED BY <2>1, <3>5, <4>2, <4>3, SMT DEF GoesOn
    <3> QED BY <3>4, <3>5
  <2>4. SameHeld
    BY <2>1, Zenon DEF SameHeld
  <2> QED BY <2>1, <2>3, <2>4, QuietStep
<1>5. CASE Send(c)
  <2>1. /\ ctx[c].pc # "idle" /\ Still /\ durable' = durable
        /\ ctx' = [ctx EXCEPT ![c].pc = "ack"]
    BY <1>5, SMT DEF Send, At, stream, Still
  <2>2. \/ sent' = sent \cup {ctx[c].event} /\ unsent' = unsent
        \/ unsent' = unsent \cup {ctx[c].event} /\ sent' = sent
    BY <1>5, DeliveredOutcome DEF Send
  <2>3. Settled(ctx[c].event)'
    <3>1. ctx'[c].event = ctx[c].event
      BY <1>q, <2>1, CtxPc DEF IInv, TypeOK
    <3> QED BY <2>2, <3>1, SMT DEF Settled
  <2> QED BY <1>q, <2>1, <2>2, <2>3, CallbackGoesOn, OutcomeStep
<1>6. CASE HandleLeave(c)
  <2> DEFINE y(x) == IF x = c THEN [ctx[c] EXCEPT !.pc = "ack"] ELSE ctx[x]
  <2>1. /\ ctx[c].pc # "idle" /\ Still /\ durable' = durable
        /\ ctx' = [x \in Contexts |->
                     IF x = mapped[ctx[c].of][Of(c).room] THEN Stopped(y(x)) ELSE y(x)]
    BY <1>6, SMT DEF HandleLeave, StopRoom, At, stream, Still
  <2>2. \/ sent' = sent \cup {ctx[c].event} /\ unsent' = unsent
        \/ unsent' = unsent \cup {ctx[c].event} /\ sent' = sent
    BY <1>6, DeliveredOutcome DEF HandleLeave
  <2>3. ASSUME NEW x \in Contexts PROVE GoesOn(x)
    <3> DEFINE got == [ctx[c] EXCEPT !.pc = "ack"]
    <3>1. /\ ctx[x] \in Context /\ got \in Context
          /\ got.event = ctx[c].event /\ got.subject = ctx[c].subject /\ got.pc = "ack"
      <4>1. ctx[x] \in Context /\ ctx[c] \in Context
        BY Zenon DEF IInv, TypeOK
      <4> QED BY <1>q, <4>1, ContextForms, CtxValues
    <3>2. ctx'[x] = y(x) \/ ctx'[x] = Stopped(y(x))
      BY <2>1, Zenon
    <3>3. y(c) = got
      OBVIOUS
    <3> HIDE DEF got
    <3>4. CASE x = c
      <4>1. \/ ctx'[c].pc = "idle"
            \/ ctx'[c].event = ctx[c].event /\ ctx'[c].subject = ctx[c].subject
        BY <3>1, <3>2, <3>3, <3>4, CtxValues, Zenon
      <4> QED BY <2>1, <2>2, <3>4, <4>1, SMT DEF GoesOn, Settled
    <3>5. CASE x # c
      <4>1. ctx'[x] = ctx[x] \/ ctx'[x] = Stopped(ctx[x])
        BY <3>2, <3>5
      <4>2. \/ ctx'[x].pc = "idle"
            \/ /\ ctx'[x].event = ctx[x].event /\ ctx'[x].subject = ctx[x].subject
               /\ ctx'[x].pc = ctx[x].pc
        BY <3>1, <4>1, CtxValues, Zenon
      <4> QED BY <4>2, Zenon DEF GoesOn
    <3> QED BY <3>4, <3>5
  <2> QED BY <2>1, <2>2, <2>3, OutcomeStep
<1>7. CASE Ack(c)
  <2> DEFINE e == ctx[c].event
             s == ctx[c].subject
  <2>1. /\ ctx[c].pc = "ack" /\ Still /\ UNCHANGED <<event, sent, unsent>>
        /\ Settles(s, e)
    BY <1>7, SMT DEF Ack, At, stream, Still, Settles
  <2>2. ctx' = [ctx EXCEPT ![c] = IF ctx[c].live
                  THEN [ctx[c] EXCEPT !.pc = "idle", !.event = Nothing] ELSE Free]
    BY <1>7, Zenon DEF Ack
  <2>3. CallbackOf(c) /\ Settled(e)
    <3>1. ctx[c].pc # "idle"
      BY <2>1, SMT
    <3> QED BY <2>1, <3>1, RunningCallback, Zenon DEF IInv, ContextShape
  <2>4. EventShape' /\ Published' = Published /\ Foreign' = Foreign
    BY <2>1, StillEvents DEF IInv
  <2>5. ContextShape'
    <3>1. ASSUME NEW x \in Contexts PROVE GoesOn(x)
      <4>1. ctx \in [Contexts -> Context] /\ ctx[c] \in Context
        BY Zenon DEF IInv, TypeOK
      <4> DEFINE new == [ctx[c] EXCEPT !.pc = "idle", !.event = Nothing]
      <4>2. new.pc = "idle" /\ Free.pc = "idle"
        BY <4>1, SMT DEF Context, Free
      <4>3. ctx'[x] = IF x = c THEN IF ctx[c].live THEN new ELSE Free ELSE ctx[x]
        BY <2>2, <4>1, Zenon
      <4> HIDE DEF new
      <4>4. CASE x = c
        BY <4>2, <4>3, <4>4, Zenon DEF GoesOn
      <4>5. CASE x # c
        BY <4>3, <4>5, Zenon DEF GoesOn
      <4> QED BY <4>4, <4>5
    <3> QED BY <2>1, <3>1, ContextsKept DEF IInv
  <2> HIDE DEF e, s
  <2>6. \A t \in Subjects :
          /\ durable'[t].ready = durable[t].ready \ {e}
          /\ durable'[t].out = durable[t].out \ {e}
    <3> SUFFICES ASSUME NEW t \in Subjects
                 PROVE  /\ durable'[t].ready = durable[t].ready \ {e}
                        /\ durable'[t].out = durable[t].out \ {e}
      OBVIOUS
    <3>1. /\ durable'[t].ready = IF t = s THEN durable[t].ready \ {e} ELSE durable[t].ready
          /\ durable'[t].out = IF t = s THEN durable[t].out \ {e} ELSE durable[t].out
      BY <2>1, Acknowledged
    <3>2. t # s => e \notin durable[t].ready \cup durable[t].out
      BY <2>3, Zenon DEF IInv, DurableShape, CallbackOf, e, s
    <3> QED BY <3>1, <3>2, SMT
  <2>7. DurableShape'
    <3>1. \A x : Subject(x)' = Subject(x)
      BY <2>1, Zenon DEF Subject
    <3> QED BY <2>4, <2>6, <3>1, SMT DEF IInv, DurableShape
  <2>8. Waiting' = Waiting \ {e}
    BY <2>6, SMT DEF Waiting, Pending
  <2>9. CASE e \in Waiting
    <3>1. e \in sent \cup unsent \cup Foreign /\ e \in Events
      BY <2>3, Zenon DEF CallbackOf, Settled, Foreign, e
    <3>2. Inbox!Settle(e)
      BY <2>1, <2>4, <2>8, <2>9, <3>1, Zenon DEF Inbox!Settle, Foreign
    <3> QED BY <2>4, <2>5, <2>7, <3>1, <3>2, Zenon DEF Shapes, MailStep, Inbox!Next
  <2>10. CASE e \notin Waiting
    <3>1. Waiting' = Waiting
      BY <2>8, <2>10, SMT
    <3> QED BY <2>1, <2>4, <2>5, <2>7, <3>1, Stutters, Zenon DEF IInv, Shapes, MailStep
  <2> QED BY <2>9, <2>10
<1> QED BY <1>1, <1>2, <1>3, <1>4, <1>5, <1>6, <1>7 DEF CallbackStep
------------------------------------------------------------------------------
\* Every step keeps the invariant and is a step of the mailbox, or none.
LEMMA Step == IInv /\ [Next]_vars => IInv' /\ MailStep
<1> SUFFICES ASSUME IInv, [Next]_vars PROVE IInv' /\ MailStep
  OBVIOUS
<1>1. TypeOK'
  BY TypeStep DEF IInv
<1>2. ASSUME UNCHANGED vars PROVE Shapes' /\ MailStep
  <2>1. Still /\ SameHeld /\ UNCHANGED <<ctx, sent, unsent>>
    BY <1>2, SMT DEF vars, stream, Still, SameHeld
  <2> QED BY <2>1, SameContexts, QuietStep
<1>3. ASSUME NEW e \in Events, NEW r \in Rooms,
             \/ JoinRoom(e, r) \/ LeaveRoom(e, r)
             \/ SendMessage(e, r) \/ UpdateRoom(e, r) \/ FanoutEnded(e, r)
      PROVE  Shapes' /\ MailStep
  <2>1. UNCHANGED <<log, durable, ctx, sent, unsent>>
    BY <1>3, Zenon DEF JoinRoom, LeaveRoom, SendMessage, UpdateRoom, FanoutEnded, RoomEvent
  <2>2. \E kind \in Kind : Dispatch(e, kind, r)
    BY <1>3, SMT DEF JoinRoom, LeaveRoom, SendMessage, UpdateRoom, FanoutEnded, RoomEvent, Kind
  <2> QED BY <2>1, <2>2, DispatchStep
<1>4. ASSUME NEW e \in Events, Publish(e) PROVE Shapes' /\ MailStep
  BY <1>4, PublishStep
<1>5. Shapes' /\ MailStep
  BY <1>2, <1>3, <1>4, SessionStep, DeliveryStep, CallbackMailStep, Zenon DEF Next
<1> QED BY <1>1, <1>5 DEF IInv, Shapes

\* The inductive invariant: callbacks run for published events of their subject, each
\* consumer holds such events once, and nothing is acknowledged that was not sent, given
\* up or foreign.
THEOREM Invariance == Spec => []IInv
BY InitInv, Step, PTL DEF Spec

\* The variables of the stream, its consumers, contexts and sessions keep their types.
THEOREM TypeCorrect == Spec => []TypeOK
<1>1. IInv => TypeOK
  BY DEF IInv
<1> QED BY <1>1, Invariance, PTL

\* The stream, its consumers and the callbacks of all sessions together are a mailbox:
\* an event that waits for the client stays until it was sent, given up or is foreign,
\* whatever crashes, stops and redeliveries come between.
THEOREM Implements == Spec => IsMailbox
<1>1. IInv /\ [Next]_vars => [Inbox!Next]_Inbox!vars
  BY Step DEF MailStep
<1> QED BY <1>1, InitMailbox, Invariance, PTL DEF Spec, IsMailbox, Inbox!Spec

\* No step of the mailbox ends the waiting of an event without a reason.
LEMMA ReasonStep ==
  ASSUME IInv, [Next]_vars, NEW e \in Events, Pending(e), ~Pending(e)'
  PROVE  e \in sent' \cup unsent' \/ event[e].kind = "foreign"
<1>1. e \in Waiting /\ e \notin Waiting'
  BY SMT DEF Waiting
<1>2. MailStep
  BY Step
<1>3. ~UNCHANGED Inbox!vars
  BY <1>1, SMT DEF Inbox!vars
<1>4. PICK x \in Events : \/ Inbox!Publish(x) \/ Inbox!Send(x) \/ Inbox!GiveUp(x)
                          \/ Inbox!Settle(x) \/ Inbox!Expire(x)
  BY <1>2, <1>3, Zenon DEF MailStep, Inbox!Next
<1>5. CASE Inbox!Publish(x)
  <2>1. PICK dropped \in SUBSET Waiting :
          /\ Waiting' \in {Waiting \ dropped, (Waiting \ dropped) \cup {x}}
          /\ unsent' = unsent \cup (dropped \ sent)
    BY <1>5, SMT DEF Inbox!Publish
  <2>2. sent' = sent
    BY <1>5, Zenon DEF Inbox!Publish
  <2> QED BY <1>1, <2>1, <2>2, SMT
<1>6. CASE Inbox!Send(x) \/ Inbox!GiveUp(x)
  BY <1>1, <1>6, Zenon DEF Inbox!Send, Inbox!GiveUp
<1>7. CASE Inbox!Settle(x)
  BY <1>1, <1>7, SMT DEF Inbox!Settle
<1>8. CASE Inbox!Expire(x)
  BY <1>1, <1>8, SMT DEF Inbox!Expire
<1> QED BY <1>4, <1>5, <1>6, <1>7, <1>8

\* An event that the consumers hold and then do not hold was sent, given up for one of
\* the reasons the handler has, or was not for this client.
THEOREM Reasons == Spec => GivenUpForAReason
<1>1. IInv /\ [Next]_vars =>
        [\A e \in Events : Pending(e) /\ ~Pending(e)' =>
            e \in sent' \cup unsent' \/ event[e].kind = "foreign"]_vars
  <2> SUFFICES ASSUME IInv, [Next]_vars, NEW e \in Events, Pending(e), ~Pending(e)'
               PROVE  e \in sent' \cup unsent' \/ event[e].kind = "foreign"
    BY Zenon
  <2> QED BY ReasonStep
<1> QED BY <1>1, Invariance, PTL DEF Spec, GivenUpForAReason
------------------------------------------------------------------------------
(***************************************************************************)
(* The ConsumeContexts and the maps roomsConsumers that the callbacks and   *)
(* StreamMessages change without a lock: a context that runs is in the map  *)
(* of the running session, or was replaced in a map or started too late for *)
(* it.                                                                      *)
(***************************************************************************)

\* Contexts are numbered by sessions that have begun, by earlier ones until the running
\* one has subscribed its own subject; and the maps of later sessions are empty.
NumberShape ==
  /\ session.pc # "off" => Current \in Sessions
  /\ \A c \in Contexts : /\ ctx[c].of <= Current
                         /\ session.pc = "direct" => ctx[c].of < Current
                         /\ ctx[c].live => ctx[c].subject \in Subjects
  /\ \A n \in Sessions :
        n > Current \/ (n = Current /\ session.pc = "direct") => mapped[n] = NoMap
MInv == IInv /\ NumberShape /\ OnlyOrphansOutlive

\* No context runs before the first session.
LEMMA InitMap == Init => MInv
<1> SUFFICES ASSUME Init PROVE MInv
  OBVIOUS
<1>1. NumberShape
  BY SMT DEF Init, NumberShape, NoSession, Free, Current
<1>2. OnlyOrphansOutlive
  BY SMT DEF Init, OnlyOrphansOutlive, Free
<1> QED BY <1>1, <1>2, InitInv DEF MInv

\* A context after a step: the same one, or one that has stopped or been orphaned.
Tame(c) ==
  /\ ctx'[c].of = ctx[c].of \/ ctx'[c].of = 0
  /\ ctx'[c].live => /\ ctx[c].live /\ ctx'[c].subject = ctx[c].subject
                     /\ ctx'[c].of = ctx[c].of
                     /\ ctx[c].orphan => ctx'[c].orphan

\* Orphaned, Stopped and a callback's next place start no context and move none.
LEMMA TameValues ==
  ASSUME NEW x \in Context
  PROVE  /\ Orphaned(x).orphan /\ (Orphaned(x).live => x.live)
         /\ Orphaned(x).subject = x.subject /\ Orphaned(x).of = x.of
         /\ ~Stopped(x).live /\ (Stopped(x).of = x.of \/ Stopped(x).of = 0)
         /\ ~Free.live /\ Free.of = 0
         /\ \A p \in ContextPc : /\ [x EXCEPT !.pc = p].subject = x.subject
                                 /\ [x EXCEPT !.pc = p].of = x.of
                                 /\ [x EXCEPT !.pc = p].live => x.live
                                 /\ x.orphan => [x EXCEPT !.pc = p].orphan
<1>1. /\ Orphaned(x).orphan /\ (Orphaned(x).live => x.live)
      /\ Orphaned(x).subject = x.subject /\ Orphaned(x).of = x.of
  BY SMT DEF Context, Orphaned
<1>2. ~Free.live /\ Free.of = 0
  BY SMT DEF Free
<1>3. ~Stopped(x).live /\ (Stopped(x).of = x.of \/ Stopped(x).of = 0)
  BY SMT DEF Stopped, Context, Free
<1>4. ASSUME NEW p \in ContextPc
      PROVE  /\ [x EXCEPT !.pc = p].subject = x.subject
             /\ [x EXCEPT !.pc = p].of = x.of
             /\ [x EXCEPT !.pc = p].live => x.live
             /\ x.orphan => [x EXCEPT !.pc = p].orphan
  BY SMT DEF Context
<1> QED BY <1>1, <1>2, <1>3, <1>4

\* Nothing but the callbacks of contexts goes on.
LEMMA TameStep ==
  ASSUME MInv, UNCHANGED <<session, mapped>>, \A c \in Contexts : Tame(c)
  PROVE  NumberShape' /\ OnlyOrphansOutlive'
<1>1. Current \in Nat
  BY SMT DEF MInv, IInv, TypeOK, Session, Sessions, Current
<1>2. NumberShape'
  <2>1. ASSUME NEW c \in Contexts
        PROVE  /\ ctx'[c].of <= Current
               /\ session.pc = "direct" => ctx'[c].of < Current
               /\ ctx'[c].live => ctx'[c].subject \in Subjects
    <3>1. /\ ctx[c].of <= Current
          /\ session.pc = "direct" => ctx[c].of < Current
          /\ ctx[c].live => ctx[c].subject \in Subjects
          /\ session.pc = "direct" => Current \in Sessions
      BY SMT DEF MInv, NumberShape
    <3>2. Tame(c)
      OBVIOUS
    <3> QED BY <1>1, <3>1, <3>2, SMT DEF Tame, Sessions
  <2> QED BY <2>1, SMT DEF MInv, NumberShape, Current
<1>3. OnlyOrphansOutlive'
  BY Zenon DEF MInv, OnlyOrphansOutlive, Tame, Stale, Current
<1> QED BY <1>2, <1>3

\* The facts of the invariant that every step needs.
LEMMA MInvParts ==
  ASSUME MInv
  PROVE  /\ ctx \in [Contexts -> Context] /\ \A c \in Contexts : ctx[c] \in Context
         /\ Current \in Nat
         /\ session.pc # "off" => Current \in Sessions
         /\ mapped \in [Sessions -> [Subjects -> Contexts \cup {Nothing}]]
         /\ \A c \in Contexts : c # Nothing
<1>1. ctx \in [Contexts -> Context] /\ \A c \in Contexts : ctx[c] \in Context
  BY Zenon DEF MInv, IInv, TypeOK
<1>2. Current \in Sessions \cup {0}
  BY Zenon DEF MInv, IInv, TypeOK, Session, Current
<1>3. Current \in Nat
  BY <1>2, SMT DEF Sessions
<1>4. \A c \in Contexts : c # Nothing
  BY StreamAssumption, SMT DEF Contexts
<1> QED BY <1>1, <1>3, <1>4, Zenon DEF MInv, IInv, TypeOK, NumberShape

\* The callback c goes to p.
LEMMA PcTame ==
  ASSUME MInv, NEW c \in Contexts, NEW p \in ContextPc, ctx' = [ctx EXCEPT ![c].pc = p]
  PROVE  \A x \in Contexts : Tame(x)
<1> SUFFICES ASSUME NEW x \in Contexts PROVE Tame(x)
  OBVIOUS
<1> DEFINE new == [ctx[x] EXCEPT !.pc = p]
<1>1. ctx'[x] = new \/ ctx'[x] = ctx[x]
  BY MInvParts, Zenon
<1>2. /\ new.subject = ctx[x].subject /\ new.of = ctx[x].of
      /\ new.live => ctx[x].live
      /\ ctx[x].orphan => new.orphan
  BY MInvParts, TameValues
<1> HIDE DEF new
<1> QED BY <1>1, <1>2, Zenon DEF Tame

\* A session that goes on, or ends; its number stays.
LEMMA SessionMap ==
  ASSUME MInv, Activate \/ Disconnect
  PROVE  NumberShape' /\ OnlyOrphansOutlive'
<1>1. /\ UNCHANGED <<ctx, mapped>>
      /\ session'.id = session.id
      /\ session.pc # "off" => session'.pc # "off"
      /\ session'.pc = "direct" => session.pc = "direct"
      /\ session'.pc # "off" => session.pc # "off"
  <2>1. session \in Session
    BY Zenon DEF MInv, IInv, TypeOK
  <2>2. CASE Activate
    <3>1. session.pc = "loop" /\ session' = [session EXCEPT !.pc = "active"]
      BY <2>2, Zenon DEF Activate
    <3>2. session'.id = session.id /\ session'.pc = "active"
      BY <2>1, <3>1, SMT DEF Session
    <3> QED BY <2>2, <3>1, <3>2, SMT DEF Activate
  <2>3. CASE Disconnect
    <3>1. session' = [session EXCEPT !.up = FALSE]
      BY <2>3, Zenon DEF Disconnect
    <3>2. session'.id = session.id /\ session'.pc = session.pc
      BY <2>1, <3>1, SMT DEF Session
    <3> QED BY <2>3, <3>1, <3>2, Zenon DEF Disconnect
  <2> QED BY <2>2, <2>3
<1>2. Current' = Current
  BY <1>1, Zenon DEF Current
<1>3. NumberShape'
  BY <1>1, <1>2, SMT DEF MInv, NumberShape
<1>4. OnlyOrphansOutlive'
  BY <1>1, <1>2, Zenon DEF MInv, OnlyOrphansOutlive, Stale
<1> QED BY <1>3, <1>4

\* A new session: whatever still runs belongs to earlier ones, and was orphaned.
LEMMA OpenMap ==
  ASSUME MInv, NEW only \in Rooms \cup {Nothing}, Open(only)
  PROVE  NumberShape' /\ OnlyOrphansOutlive'
<1>1. /\ session.pc = "off" /\ Current < MaxSessions /\ UNCHANGED <<ctx, mapped>>
      /\ session'.id = Current + 1 /\ session'.pc = "direct"
  BY SMT DEF Open, NoSession
<1>2. Current' = Current + 1 /\ Current \in Nat /\ Current + 1 \in Sessions
  BY <1>1, MInvParts, StreamAssumption, SMT DEF Current, Sessions
<1>c. ASSUME NEW c \in Contexts
      PROVE  ctx[c].of <= Current /\ ctx[c].of \in Nat /\ (ctx[c].live => ctx[c].subject \in Subjects)
  <2>1. ctx[c].of \in Sessions \cup {0}
    BY MInvParts, ContextOf
  <2> QED BY <2>1, SMT DEF MInv, NumberShape, Sessions
<1>n. ASSUME NEW n \in Sessions, n > Current PROVE mapped[n] = NoMap
  BY <1>n, SMT DEF MInv, NumberShape
<1>3. NumberShape'
  <2>1. \A c \in Contexts : ctx[c].of <= Current + 1 /\ ctx[c].of < Current + 1
    BY <1>2, <1>c, SMT
  <2>2. \A n \in Sessions : n > Current + 1 \/ n = Current + 1 => mapped[n] = NoMap
    BY <1>2, <1>n, SMT DEF Sessions
  <2> QED BY <1>1, <1>2, <1>c, <2>1, <2>2, SMT DEF NumberShape
<1>4. \A c \in Contexts : ctx[c].live => ctx[c].orphan
  BY <1>1, Zenon DEF MInv, OnlyOrphansOutlive, Stale
<1>5. OnlyOrphansOutlive'
  BY <1>1, <1>4, Zenon DEF OnlyOrphansOutlive
<1> QED BY <1>3, <1>5

\* The deferred calls stop what the map has; a crash stops everything.
LEMMA CloseMap ==
  ASSUME MInv, Close \/ Crash
  PROVE  NumberShape' /\ OnlyOrphansOutlive'
<1>1. /\ session'.id = Current /\ session'.pc = "off"
  BY SMT DEF Close, Crash, NoSession
<1>2. Current' = Current /\ Current \in Nat
  BY <1>1, MInvParts, SMT DEF Current
<1>3. CASE Close
  <2>1. /\ session.pc # "off"
        /\ ctx' = [c \in Contexts |->
             IF \E s \in Subjects : mapped[Current][s] = c THEN Stopped(ctx[c]) ELSE ctx[c]]
        /\ mapped' = [mapped EXCEPT ![Current] = NoMap]
    BY <1>3, Zenon DEF Close
  <2>2. ASSUME NEW c \in Contexts
        PROVE  /\ ctx'[c].of = ctx[c].of \/ ctx'[c].of = 0
               /\ ctx'[c].live => ctx'[c].orphan /\ ctx'[c].subject = ctx[c].subject /\ ctx[c].live
    <3>1. CASE \E s \in Subjects : mapped[Current][s] = c
      <4>1. ctx'[c] = Stopped(ctx[c])
        BY <2>1, <3>1, Zenon
      <4>2. /\ ~Stopped(ctx[c]).live
            /\ Stopped(ctx[c]).of = ctx[c].of \/ Stopped(ctx[c]).of = 0
        BY MInvParts, TameValues
      <4> QED BY <4>1, <4>2, Zenon
    <3>2. CASE ~\E s \in Subjects : mapped[Current][s] = c
      <4>1. ctx'[c] = ctx[c]
        BY <2>1, <3>2, Zenon
      <4>2. ctx[c].live => ctx[c].orphan
        BY <3>2, Zenon DEF MInv, NumberShape, OnlyOrphansOutlive
      <4> QED BY <4>1, <4>2, Zenon
    <3> QED BY <3>1, <3>2
  <2>3. \A n \in Sessions : n > Current => mapped'[n] = NoMap
    <3>1. ASSUME NEW n \in Sessions, n > Current PROVE mapped[n] = NoMap /\ n # Current
      BY <1>2, <3>1, SMT DEF MInv, NumberShape, Sessions
    <3>2. ASSUME NEW n \in Sessions, n # Current PROVE mapped'[n] = mapped[n]
      BY <2>1, <3>2, MInvParts, Zenon
    <3> QED BY <3>1, <3>2
  <2>4. \A c \in Contexts : ctx'[c].of <= Current
    BY <1>2, <2>2, SMT DEF MInv, NumberShape
  <2>5. NumberShape'
    <3>1. \A c \in Contexts : ctx'[c].live => ctx'[c].subject \in Subjects
      BY <2>2, Zenon DEF MInv, NumberShape
    <3> QED BY <1>1, <1>2, <2>3, <2>4, <3>1, SMT DEF NumberShape
  <2>6. OnlyOrphansOutlive'
    BY <2>2, Zenon DEF OnlyOrphansOutlive
  <2> QED BY <2>5, <2>6
<1>4. CASE Crash
  <2>1. ctx' = [c \in Contexts |-> Free] /\ mapped' = [n \in Sessions |-> NoMap]
    BY <1>4, Zenon DEF Crash
  <2>2. \A c \in Contexts : ~ctx'[c].live /\ ctx'[c].of = 0
    BY <2>1, SMT DEF Free
  <2>3. \A n \in Sessions : mapped'[n] = NoMap
    BY <2>1, Zenon
  <2>4. NumberShape'
    BY <1>1, <1>2, <2>2, <2>3, SMT DEF NumberShape
  <2>5. OnlyOrphansOutlive'
    BY <2>2, Zenon DEF OnlyOrphansOutlive
  <2> QED BY <2>4, <2>5
<1> QED BY <1>3, <1>4

\* A new context d for r in the map of session n: what the map held is orphaned.
LEMMA PutMap ==
  ASSUME MInv, NEW n \in Sessions \cup {0}, NEW r \in Rooms, NEW d \in Contexts,
         n <= Current, session.pc = "direct" => n < Current,
         session'.id = session.id, session'.pc = session.pc,
         \A x \in Contexts :
            /\ ctx'[x].of = PutContexts(n, r, d)[x].of
            /\ ctx'[x].subject = PutContexts(n, r, d)[x].subject
            /\ ctx'[x].live => PutContexts(n, r, d)[x].live
            /\ PutContexts(n, r, d)[x].orphan => ctx'[x].orphan,
         mapped' = [mapped EXCEPT ![n][r] = d]
  PROVE  NumberShape' /\ OnlyOrphansOutlive'
<1>1. Current' = Current /\ Current \in Nat
  BY MInvParts, SMT DEF Current
<1> DEFINE late == session.pc = "off" \/ n # Current
           new == [Started(r, n) EXCEPT !.orphan = late]
<1> HIDE DEF late
<1>2. new.live /\ new.subject = r /\ new.of = n /\ (late => new.orphan)
  BY SMT DEF Started, Free
<1>3. \A x \in Contexts : PutContexts(n, r, d)[x] =
        IF x = d THEN new ELSE IF x = mapped[n][r] THEN Orphaned(ctx[x]) ELSE ctx[x]
  BY Zenon DEF PutContexts, late
<1> HIDE DEF new
<1>4. ctx'[d].of = n /\ ctx'[d].subject = r /\ (session.pc = "off" \/ n # Current => ctx'[d].orphan)
  BY <1>2, <1>3, Zenon DEF late
<1>5. ASSUME NEW x \in Contexts, x # d
      PROVE  /\ ctx'[x].of = ctx[x].of /\ ctx'[x].subject = ctx[x].subject
             /\ ctx'[x].live => ctx[x].live
             /\ ctx[x].orphan \/ x = mapped[n][r] => ctx'[x].orphan
  <2>1. CASE x = mapped[n][r]
    <3>1. PutContexts(n, r, d)[x] = Orphaned(ctx[x])
      BY <1>3, <1>5, <2>1, Zenon
    <3>2. /\ Orphaned(ctx[x]).orphan /\ (Orphaned(ctx[x]).live => ctx[x].live)
          /\ Orphaned(ctx[x]).subject = ctx[x].subject /\ Orphaned(ctx[x]).of = ctx[x].of
      BY MInvParts, TameValues
    <3> QED BY <3>1, <3>2, Zenon
  <2>2. CASE x # mapped[n][r]
    <3>1. PutContexts(n, r, d)[x] = ctx[x]
      BY <1>3, <1>5, <2>2, Zenon
    <3> QED BY <2>2, <3>1, Zenon
  <2> QED BY <2>1, <2>2
<1>6. NumberShape'
  <2>1. ASSUME NEW x \in Contexts
        PROVE  /\ ctx'[x].of <= Current
               /\ session.pc = "direct" => ctx'[x].of < Current
               /\ ctx'[x].live => ctx'[x].subject \in Subjects
    <3>1. CASE x = d
      BY <1>4, <3>1, Zenon DEF Subjects
    <3>2. CASE x # d
      BY <1>5, <3>2, Zenon DEF MInv, NumberShape
    <3> QED BY <3>1, <3>2
  <2>2. ASSUME NEW k \in Sessions, k > Current \/ (k = Current /\ session.pc = "direct")
        PROVE  mapped'[k] = NoMap
    <3>1. k # n /\ mapped[k] = NoMap
      BY <1>1, <2>2, SMT DEF MInv, NumberShape, Sessions
    <3>2. mapped'[k] = mapped[k]
      BY <3>1, MInvParts, Zenon
    <3> QED BY <3>1, <3>2
  <2>3. session.pc # "off" => Current \in Sessions
    BY MInvParts
  <2> QED BY <1>1, <2>1, <2>2, <2>3, Zenon DEF NumberShape
<1>7. OnlyOrphansOutlive'
  <2> SUFFICES ASSUME NEW x \in Contexts, ctx'[x].live, ~ctx'[x].orphan
               PROVE  /\ session.pc # "off" /\ ctx'[x].of = Current
                      /\ mapped'[Current][ctx'[x].subject] = x
    BY <1>1, Zenon DEF OnlyOrphansOutlive, Stale
  <2>1. CASE x = d
    <3>1. session.pc # "off" /\ n = Current /\ Current \in Sessions /\ ctx'[d].of = n /\ ctx'[d].subject = r
      BY <1>4, <2>1, MInvParts, Zenon
    <3>2. mapped'[n][r] = d
      BY <3>1, MInvParts, Zenon DEF Subjects
    <3> QED BY <2>1, <3>1, <3>2, Zenon
  <2>2. CASE x # d
    <3>1. /\ ctx[x].live /\ ~ctx[x].orphan /\ x # mapped[n][r]
          /\ ctx'[x].of = ctx[x].of /\ ctx'[x].subject = ctx[x].subject
      BY <1>5, <2>2, Zenon
    <3>2. /\ session.pc # "off" /\ ctx[x].of = Current
          /\ mapped[Current][ctx[x].subject] = x
          /\ ctx[x].subject \in Subjects /\ Current \in Sessions
      BY <3>1, MInvParts, Zenon DEF MInv, OnlyOrphansOutlive, Stale, NumberShape
    <3>3. n = Current => ctx[x].subject # r
      BY <3>1, <3>2, Zenon
    <3>4. mapped'[Current][ctx[x].subject] = mapped[Current][ctx[x].subject]
      <4>1. CASE n = Current
        BY <3>2, <3>3, <4>1, MInvParts, Zenon
      <4>2. CASE n # Current
        BY <3>2, <4>2, MInvParts, Zenon
      <4> QED BY <4>1, <4>2
    <3> QED BY <3>1, <3>2, <3>4, Zenon
  <2> QED BY <2>1, <2>2
<1> QED BY <1>6, <1>7

\* A turn of the loop puts the room into the running session's map.
LEMMA SubscribeRoomMap ==
  ASSUME MInv, NEW r \in Rooms, NEW d \in Contexts, SubscribeRoom(r, d)
  PROVE  NumberShape' /\ OnlyOrphansOutlive'
<1>1. /\ session.pc = "loop" /\ session' = [session EXCEPT !.todo = @ \ {r}]
      /\ ctx' = PutContexts(Current, r, d) /\ mapped' = [mapped EXCEPT ![Current][r] = d]
  BY Zenon DEF SubscribeRoom
<1>2. session'.id = session.id /\ session'.pc = session.pc
  <2>1. session \in Session
    BY Zenon DEF MInv, IInv, TypeOK
  <2> QED BY <1>1, <2>1, SMT DEF Session
<1>3. Current \in Sessions \cup {0} /\ Current <= Current /\ session.pc # "direct"
  <2>1. Current \in Nat /\ Current \in Sessions
    BY <1>1, MInvParts, SMT
  <2> QED BY <1>1, <2>1, SMT
<1>4. \A x \in Contexts :
        /\ ctx'[x].of = PutContexts(Current, r, d)[x].of
        /\ ctx'[x].subject = PutContexts(Current, r, d)[x].subject
        /\ ctx'[x].live => PutContexts(Current, r, d)[x].live
        /\ PutContexts(Current, r, d)[x].orphan => ctx'[x].orphan
  BY <1>1, Zenon
<1> QED BY <1>1, <1>2, <1>3, <1>4, PutMap

\* The first context of a session finds its map empty.
LEMMA SubscribeDirectMap ==
  ASSUME MInv, NEW d \in Contexts, SubscribeDirect(d)
  PROVE  NumberShape' /\ OnlyOrphansOutlive'
<1>1. /\ session.pc = "direct" /\ session' = [session EXCEPT !.pc = "loop"]
      /\ ctx' = [ctx EXCEPT ![d] = Started(Direct, Current)]
      /\ mapped' = [mapped EXCEPT ![Current][Direct] = d]
  BY Zenon DEF SubscribeDirect
<1>2. session'.id = session.id /\ session'.pc = "loop"
  <2>1. session \in Session
    BY Zenon DEF MInv, IInv, TypeOK
  <2> QED BY <1>1, <2>1, SMT DEF Session
<1>3. Current' = Current /\ Current \in Nat /\ Current \in Sessions
  BY <1>1, <1>2, MInvParts, SMT DEF Current
<1>4. /\ ctx'[d].live /\ ctx'[d].subject = Direct /\ ctx'[d].of = Current
  <2>1. ctx'[d] = Started(Direct, Current)
    BY <1>1, MInvParts, Zenon
  <2> QED BY <2>1, SMT DEF Started, Free
<1>5. \A x \in Contexts : x # d => ctx'[x] = ctx[x]
  BY <1>1, MInvParts, Zenon
<1>6. \A x \in Contexts : ctx[x].live => ctx[x].orphan
  <2> SUFFICES ASSUME NEW x \in Contexts, ctx[x].live, ~ctx[x].orphan PROVE FALSE
    OBVIOUS
  <2>1. mapped[Current][ctx[x].subject] = x /\ ctx[x].subject \in Subjects
    BY Zenon DEF MInv, OnlyOrphansOutlive, NumberShape
  <2>2. mapped[Current] = NoMap
    BY <1>1, <1>3, Zenon DEF MInv, NumberShape
  <2> QED BY <2>1, <2>2, MInvParts, Zenon DEF NoMap
<1>7. NumberShape'
  <2>1. ASSUME NEW x \in Contexts
        PROVE  ctx'[x].of <= Current /\ (ctx'[x].live => ctx'[x].subject \in Subjects)
    <3>1. CASE x = d
      BY <1>3, <1>4, <3>1, SMT DEF Subjects
    <3>2. CASE x # d
      BY <1>5, <3>2, Zenon DEF MInv, NumberShape
    <3> QED BY <3>1, <3>2
  <2>2. ASSUME NEW k \in Sessions, k > Current PROVE mapped'[k] = NoMap
    <3>1. k # Current /\ mapped[k] = NoMap
      BY <1>3, <2>2, SMT DEF MInv, NumberShape, Sessions
    <3>2. mapped'[k] = mapped[k]
      BY <1>1, <3>1, MInvParts, Zenon
    <3> QED BY <3>1, <3>2
  <2> QED BY <1>2, <1>3, <2>1, <2>2, SMT DEF NumberShape
<1>8. OnlyOrphansOutlive'
  <2>1. mapped'[Current][Direct] = d
    BY <1>1, <1>3, MInvParts, Zenon DEF Subjects
  <2> QED BY <1>2, <1>3, <1>4, <1>5, <1>6, <2>1, SMT DEF OnlyOrphansOutlive, Stale
<1> QED BY <1>7, <1>8

\* A callback deletes the entry for r in the map of session n and stops its context.
LEMMA LeaveMap ==
  ASSUME MInv, NEW c \in Contexts, HandleLeave(c)
  PROVE  NumberShape' /\ OnlyOrphansOutlive'
<1> DEFINE n == ctx[c].of
           r == Of(c).room
           got == [ctx[c] EXCEPT !.pc = "ack"]
           y(x) == IF x = c THEN got ELSE ctx[x]
<1>1. /\ ctx[c].pc = "got" /\ session' = session
      /\ mapped' = [mapped EXCEPT ![n][r] = Nothing]
      /\ ctx' = [x \in Contexts |-> IF x = mapped[n][r] THEN Stopped(y(x)) ELSE y(x)]
  BY Zenon DEF HandleLeave, StopRoom, At
<1>2. /\ got \in Context
      /\ got.subject = ctx[c].subject /\ got.of = ctx[c].of
      /\ got.live => ctx[c].live
      /\ ctx[c].orphan => got.orphan
  <2>1. "ack" \in ContextPc
    BY SMT DEF ContextPc
  <2> QED BY <2>1, MInvParts, TameValues, ContextForms
<1>3. n <= Current /\ (session.pc = "direct" => n < Current) /\ n \in Sessions \cup {0}
  BY MInvParts, ContextOf, Zenon DEF MInv, NumberShape
<1>4. Current \in Nat /\ (session.pc # "off" => Current \in Sessions)
  BY MInvParts
<1>5. y(c) = got /\ \A x \in Contexts : x # c => y(x) = ctx[x]
  OBVIOUS
<1>6. \A x \in Contexts : ctx'[x] = IF x = mapped[n][r] THEN Stopped(y(x)) ELSE y(x)
  BY <1>1, Zenon
<1> HIDE DEF n, r, got, y
<1>7. ASSUME NEW x \in Contexts
      PROVE  Tame(x) /\ (x = mapped[n][r] => ~ctx'[x].live)
  <2>1. /\ y(x) \in Context
        /\ y(x).subject = ctx[x].subject /\ y(x).of = ctx[x].of
        /\ y(x).live => ctx[x].live
        /\ ctx[x].orphan => y(x).orphan
    <3>1. CASE x = c
      BY <1>2, <1>5, <3>1, Zenon
    <3>2. CASE x # c
      BY <1>5, <3>2, MInvParts, Zenon
    <3> QED BY <3>1, <3>2
  <2>2. ~Stopped(y(x)).live /\ (Stopped(y(x)).of = y(x).of \/ Stopped(y(x)).of = 0)
    BY <2>1, TameValues
  <2>3. CASE x = mapped[n][r]
    <3>1. ctx'[x] = Stopped(y(x))
      BY <1>6, <2>3, Zenon
    <3> QED BY <2>1, <2>2, <3>1, Zenon DEF Tame
  <2>4. CASE x # mapped[n][r]
    <3>1. ctx'[x] = y(x)
      BY <1>6, <2>4, Zenon
    <3> QED BY <2>1, <2>4, <3>1, Zenon DEF Tame
  <2> QED BY <2>3, <2>4
<1>8. NumberShape'
  <2>1. ASSUME NEW x \in Contexts
        PROVE  /\ ctx'[x].of <= Current
               /\ session.pc = "direct" => ctx'[x].of < Current
               /\ ctx'[x].live => ctx'[x].subject \in Subjects
    <3>1. /\ ctx[x].of <= Current
          /\ session.pc = "direct" => ctx[x].of < Current /\ Current \in Sessions
          /\ ctx[x].live => ctx[x].subject \in Subjects
      BY SMT DEF MInv, NumberShape
    <3> QED BY <1>4, <1>7, <3>1, SMT DEF Tame, Sessions
  <2>2. ASSUME NEW k \in Sessions, k > Current \/ (k = Current /\ session.pc = "direct")
        PROVE  mapped'[k] = NoMap
    <3>1. k # n /\ mapped[k] = NoMap
      BY <1>3, <1>4, <2>2, SMT DEF MInv, NumberShape, Sessions
    <3>2. mapped'[k] = mapped[k]
      BY <1>1, <3>1, MInvParts, Zenon
    <3> QED BY <3>1, <3>2
  <2> QED BY <1>1, <1>4, <2>1, <2>2, SMT DEF NumberShape, Current
<1>9. OnlyOrphansOutlive'
  <2> SUFFICES ASSUME NEW x \in Contexts, ctx'[x].live, ~ctx'[x].orphan
               PROVE  /\ session.pc # "off" /\ ctx'[x].of = Current
                      /\ mapped'[Current][ctx'[x].subject] = x
    BY <1>1, Zenon DEF OnlyOrphansOutlive, Stale, Current
  <2>1. /\ ctx[x].live /\ ~ctx[x].orphan /\ x # mapped[n][r]
        /\ ctx'[x].of = ctx[x].of /\ ctx'[x].subject = ctx[x].subject
    BY <1>7, Zenon DEF Tame
  <2>2. /\ session.pc # "off" /\ ctx[x].of = Current
        /\ mapped[Current][ctx[x].subject] = x
        /\ ctx[x].subject \in Subjects /\ Current \in Sessions
    BY <1>4, <2>1, Zenon DEF MInv, OnlyOrphansOutlive, Stale, NumberShape
  <2>3. mapped'[Current][ctx[x].subject] = mapped[Current][ctx[x].subject]
    <3>1. CASE n = Current
      <4>1. ctx[x].subject # r
        BY <2>1, <2>2, <3>1, Zenon
      <4> QED BY <1>1, <2>2, <3>1, <4>1, MInvParts, Zenon
    <3>2. CASE n # Current
      BY <1>1, <2>2, <3>2, MInvParts, Zenon
    <3> QED BY <3>1, <3>2
  <2> QED BY <2>1, <2>2, <2>3, Zenon
<1> QED BY <1>8, <1>9

\* A RoomJoin puts the room into the map of its context's session, running or not.
LEMMA ConsumeMap ==
  ASSUME MInv, NEW c \in Contexts, NEW d \in Contexts, ConsumeForJoin(c, d)
  PROVE  NumberShape' /\ OnlyOrphansOutlive'
<1> DEFINE n == ctx[c].of
           r == Of(c).room
           put == PutContexts(n, r, d)
<1>1. /\ ctx[c].pc = "consume" /\ session' = session
      /\ mapped' = [mapped EXCEPT ![n][r] = d]
      /\ ctx' = [put EXCEPT ![c].pc = "send"]
  BY Zenon DEF ConsumeForJoin, At
<1>2. r \in Rooms
  BY <1>1, RunningCallback, SMT DEF MInv, IInv, EventShape, CallbackOf, Of
<1>3. n <= Current /\ (session.pc = "direct" => n < Current) /\ n \in Sessions \cup {0}
  BY MInvParts, ContextOf, Zenon DEF MInv, NumberShape
<1>4. put \in [Contexts -> Context]
  BY <1>2, <1>3, PutType DEF MInv, IInv, TypeOK
<1>5. ASSUME NEW x \in Contexts
      PROVE  /\ ctx'[x].of = put[x].of /\ ctx'[x].subject = put[x].subject
             /\ ctx'[x].live => put[x].live
             /\ put[x].orphan => ctx'[x].orphan
  <2> HIDE DEF put
  <2> DEFINE new == [put[x] EXCEPT !.pc = "send"]
  <2>1. ctx'[x] = new \/ ctx'[x] = put[x]
    BY <1>1, <1>4, Zenon
  <2>2. put[x] \in Context /\ "send" \in ContextPc
    BY <1>4, SMT DEF ContextPc
  <2>3. /\ new.of = put[x].of /\ new.subject = put[x].subject
        /\ new.live => put[x].live
        /\ put[x].orphan => new.orphan
    BY <2>2, TameValues
  <2> HIDE DEF new
  <2> QED BY <2>1, <2>3, Zenon
<1>6. session'.id = session.id /\ session'.pc = session.pc
  BY <1>1
<1>7. \A x \in Contexts :
        /\ ctx'[x].of = PutContexts(n, r, d)[x].of
        /\ ctx'[x].subject = PutContexts(n, r, d)[x].subject
        /\ ctx'[x].live => PutContexts(n, r, d)[x].live
        /\ PutContexts(n, r, d)[x].orphan => ctx'[x].orphan
  BY <1>5
<1> HIDE DEF n, r
<1> QED BY <1>1, <1>2, <1>3, <1>6, <1>7, PutMap

\* The callbacks that leave the map alone.
LEMMA CallbackMap ==
  ASSUME MInv, NEW c \in Contexts, CallbackStep(c)
  PROVE  NumberShape' /\ OnlyOrphansOutlive'
<1>1. CASE SkipForeign(c) \/ LookupFails(c) \/ HandleJoin(c) \/ SubscribeFails(c) \/ Send(c)
  <2>1. /\ UNCHANGED <<session, mapped>>
        /\ \/ ctx' = [ctx EXCEPT ![c].pc = "ack"]
           \/ ctx' = [ctx EXCEPT ![c].pc = "send"]
           \/ ctx' = [ctx EXCEPT ![c].pc = "consume"]
    BY <1>1, Zenon DEF SkipForeign, LookupFails, HandleJoin, SubscribeFails, Send
  <2>2. "send" \in ContextPc /\ "consume" \in ContextPc /\ "ack" \in ContextPc
    BY SMT DEF ContextPc
  <2>3. \A x \in Contexts : Tame(x)
    BY <2>1, <2>2, PcTame
  <2> QED BY <2>1, <2>3, TameStep
<1>2. CASE Ack(c)
  <2> DEFINE new == [ctx[c] EXCEPT !.pc = "idle", !.event = Nothing]
  <2>1. /\ UNCHANGED <<session, mapped>>
        /\ ctx' = [ctx EXCEPT ![c] = IF ctx[c].live THEN new ELSE Free]
    BY <1>2, Zenon DEF Ack
  <2>2. /\ new.of = ctx[c].of /\ new.subject = ctx[c].subject
        /\ new.live => ctx[c].live
        /\ ctx[c].orphan => new.orphan
    BY MInvParts, SMT DEF Context
  <2>3. ~Free.live /\ Free.of = 0
    BY SMT DEF Free
  <2> HIDE DEF new
  <2>4. ASSUME NEW x \in Contexts PROVE Tame(x)
    <3>1. ctx'[x] = ctx[x] \/ (x = c /\ (ctx'[x] = new \/ ctx'[x] = Free))
      BY <2>1, MInvParts, Zenon
    <3> QED BY <2>2, <2>3, <3>1, Zenon DEF Tame
  <2> QED BY <2>1, <2>4, TameStep
<1> QED BY <1>1, <1>2, LeaveMap, ConsumeMap, Zenon DEF CallbackStep

\* A context takes an event.
LEMMA TakeMap ==
  ASSUME MInv, NEW c \in Contexts, NEW e \in Events, Take(c, e)
  PROVE  NumberShape' /\ OnlyOrphansOutlive'
<1> DEFINE new == [ctx[c] EXCEPT !.pc = "got", !.event = e]
<1>1. /\ UNCHANGED <<session, mapped>>
      /\ ctx' = [ctx EXCEPT ![c].pc = "got", ![c].event = e]
  BY Zenon DEF Take
<1>2. /\ new.of = ctx[c].of /\ new.subject = ctx[c].subject
      /\ new.live => ctx[c].live
      /\ ctx[c].orphan => new.orphan
  BY MInvParts, SMT DEF Context
<1>3. \A x \in Contexts : ctx'[x] = IF x = c THEN new ELSE ctx[x]
  BY <1>1, MInvParts, Zenon
<1> HIDE DEF new
<1>4. \A x \in Contexts : Tame(x)
  BY <1>2, <1>3, Zenon DEF Tame
<1> QED BY <1>1, <1>4, TameStep

\* Every step keeps the maps and the contexts together.
LEMMA MapStep == MInv /\ [Next]_vars => MInv'
<1> SUFFICES ASSUME MInv, [Next]_vars PROVE MInv'
  OBVIOUS
<1>1. IInv'
  BY Step DEF MInv
<1>2. ASSUME UNCHANGED <<session, ctx, mapped>> PROVE NumberShape' /\ OnlyOrphansOutlive'
  BY <1>2, TameStep, Zenon DEF Tame
<1>3. ASSUME UNCHANGED vars PROVE NumberShape' /\ OnlyOrphansOutlive'
  BY <1>2, <1>3, Zenon DEF vars
<1>4. ASSUME NEW e \in Events, NEW r \in Rooms,
             \/ JoinRoom(e, r) \/ LeaveRoom(e, r)
             \/ SendMessage(e, r) \/ UpdateRoom(e, r) \/ FanoutEnded(e, r)
      PROVE  NumberShape' /\ OnlyOrphansOutlive'
  BY <1>2, <1>4, Zenon DEF JoinRoom, LeaveRoom, SendMessage, UpdateRoom, FanoutEnded, RoomEvent
<1>5. ASSUME NEW e \in Events,
             Publish(e) \/ PublishFails(e) \/ Expire(e) \/ \E s \in Subjects : AckWait(s, e)
      PROVE  NumberShape' /\ OnlyOrphansOutlive'
  BY <1>2, <1>5, Zenon DEF Publish, PublishFails, Expire, AckWait
<1>6. NumberShape' /\ OnlyOrphansOutlive'
  BY <1>2, <1>3, <1>4, <1>5, SessionMap, OpenMap, CloseMap, SubscribeDirectMap,
     SubscribeRoomMap, TakeMap, CallbackMap, Zenon DEF Next
<1> QED BY <1>1, <1>6 DEF MInv

\* Stop is never forgotten: a context runs on after its session, or beside the map of the
\* running one, only when it was replaced in a map or started too late for it.
THEOREM Outlive == Spec => []OnlyOrphansOutlive
<1>1. MInv => OnlyOrphansOutlive
  BY DEF MInv
<1> QED BY <1>1, InitMap, MapStep, PTL DEF Spec
------------------------------------------------------------------------------
(***************************************************************************)
(* The rooms that a session consumes once it has come to rest, whatever     *)
(* its callbacks, its loop and the membership did meanwhile.  FInv is the   *)
(* inductive invariant; Follow is what every step does to it.               *)
(***************************************************************************)

\* The event e is the RoomJoin of r; the user has left r before.
Join(e, r) == event[e].kind = "join" /\ event[e].room = r
Left(r)    == \E e \in Events : event[e].room = r /\ event[e].kind = "leave"

\* The session follows r, is going to, or has a reason not to.
Covered(r) == mapped[Current][r] # Nothing \/ r \in astray \/ r \in session.todo
Good(r)    == session.pc = "off" \/ Covered(r) \/ Left(r)

\* A room of the user is covered, or its RoomJoin is on its way or lost; a RoomJoin
\* that was sent, that was handled, or that a context of an earlier session handles is of
\* a room that is covered; a room that was joined is the user's or was left.
OnItsWay(e, r) == Join(e, r) /\ (Lost(e) \/ Pending(e))
RoomsShape   == \A r \in members : Good(r) \/ \E e \in Events : OnItsWay(e, r)
SentShape    == \A e \in sent : Dispatched(e) /\ \A r \in Rooms : Join(e, r) => Good(r)
Handled(c)   == ctx[c].pc # "idle" /\ (ctx[c].pc = "send" \/ Stale(c))
HandledShape == \A c \in Contexts, r \in Rooms :
                  Handled(c) /\ Join(ctx[c].event, r) => Good(r)
MembersShape == \A e \in Events, r \in Rooms : Join(e, r) => r \in members \/ Left(r)

\* A map holds contexts that run, of its session and of the subject; nothing replaces
\* the context of the user's own subject; and a session that has subscribed it keeps it.
Placed(c, n, s) == ctx[c].live /\ ctx[c].subject = s /\ ctx[c].of = n
MapShape ==
  \A n \in Sessions, s \in Subjects, c \in Contexts : mapped[n][s] = c => Placed(c, n, s)
PlaceShape ==
  \A c \in Contexts : /\ ctx[c].live /\ ctx[c].subject = Direct => ~ctx[c].orphan
                      /\ ctx[c].live \/ ctx[c].pc # "idle" => ctx[c].of \in Sessions
SessionShape ==
  /\ session.pc \in {"loop", "active"} => /\ durable[Direct].exists
                                          /\ mapped[Current][Direct] # Nothing
  /\ session.pc \in {"off", "active"} => session.todo = {}
FInv ==
  /\ MInv /\ MapShape /\ PlaceShape /\ SessionShape
  /\ HandledShape /\ SentShape /\ MembersShape /\ RoomsShape

\* Before the first session the user may be a member of rooms, which no session follows.
LEMMA FollowInit == Init => FInv
<1> SUFFICES ASSUME Init PROVE FInv
  OBVIOUS
<1>1. MInv
  BY InitMap
<1>2. session.pc = "off" /\ session.todo = {}
  BY SMT DEF Init, NoSession
<1>3. \A c \in Contexts : ctx[c] = Free /\ c # Nothing
  BY StreamAssumption, SMT DEF Init, Contexts
<1>4. \A n \in Sessions, s \in Subjects : mapped[n][s] = Nothing
  BY Zenon DEF Init, NoMap
<1>5. ~Free.live /\ Free.pc = "idle"
  BY SMT DEF Free
<1>6. \A e \in Events : event[e].kind = "none"
  BY SMT DEF Init, NoEvent
<1>7. MapShape /\ PlaceShape
  BY <1>3, <1>4, <1>5, Zenon DEF MapShape, PlaceShape
<1>8. SessionShape
  BY <1>2, SMT DEF SessionShape
<1>9. RoomsShape /\ HandledShape
  BY <1>2, Zenon DEF RoomsShape, HandledShape, Good
<1>10. SentShape /\ MembersShape
  BY <1>6, SMT DEF Init, SentShape, MembersShape, Join
<1> QED BY <1>1, <1>7, <1>8, <1>9, <1>10 DEF FInv

\* What was dispatched stays what it is.
Settling == \A e \in Events : Dispatched(e) => event'[e] = event[e]

\* An event is written where nothing was dispatched yet.
LEMMA EventsStay ==
  ASSUME FInv, [Next]_vars
  PROVE  Settling
<1>1. ASSUME NEW x \in Events, NEW kind, NEW r, Dispatch(x, kind, r) PROVE Settling
  BY <1>1, SMT DEF Dispatch, Settling, Dispatched, NoEvent, FInv, MInv, IInv, TypeOK
<1>2. CASE \E e \in Events, r \in Rooms :
             \/ JoinRoom(e, r) \/ LeaveRoom(e, r)
             \/ SendMessage(e, r) \/ UpdateRoom(e, r) \/ FanoutEnded(e, r)
  BY <1>1, <1>2, Zenon DEF JoinRoom, LeaveRoom, SendMessage, UpdateRoom, FanoutEnded, RoomEvent
<1>3. CASE event' = event
  BY <1>3 DEF Settling
<1>4. ASSUME NEW e \in Events, Publish(e) \/ PublishFails(e) \/ Expire(e) PROVE event' = event
  BY <1>4, SMT DEF Publish, PublishFails, Expire, stream
<1>5. CASE \E only \in Rooms \cup {Nothing} : Open(only)
  BY <1>3, <1>5, SMT DEF Open, stream
<1>6. CASE Activate \/ Disconnect \/ Close \/ Crash
  BY <1>3, <1>6, SMT DEF Activate, Disconnect, Close, Crash, stream
<1>7. CASE \/ \E d \in Contexts : SubscribeDirect(d)
           \/ \E r \in Rooms, d \in Contexts : SubscribeRoom(r, d)
  BY <1>3, <1>7, SMT DEF SubscribeDirect, SubscribeRoom, stream
<1>8. CASE \/ \E c \in Contexts, e \in Events : Take(c, e)
           \/ \E s \in Subjects, e \in Events : AckWait(s, e)
  BY <1>3, <1>8, Zenon DEF Take, AckWait, stream
<1>9. ASSUME NEW c \in Contexts, CallbackStep(c) PROVE event' = event
  <2>1. UNCHANGED stream
    BY <1>9, Zenon DEF CallbackStep, SkipForeign, LookupFails, HandleJoin, ConsumeForJoin,
       SubscribeFails, Send, HandleLeave, Ack
  <2> QED BY <2>1, Zenon DEF stream
<1>10. CASE UNCHANGED vars
  BY <1>3, <1>10, SMT DEF vars, stream
<1>11. event' = event => Settling
  BY <1>3
<1>12. Settling \/ event' = event
  BY <1>2, <1>4, <1>5, <1>6, <1>7, <1>8, <1>9, <1>10, Zenon DEF Next
<1> QED BY <1>11, <1>12

\* A room that was left stays so.
LEMMA StaysLeft ==
  ASSUME Settling, NEW r, Left(r)
  PROVE  Left(r)'
BY SMT DEF Settling, Left, Dispatched

\* The user's consumer is not deleted.
LEMMA StaysDurable ==
  ASSUME FInv, [Next]_vars, durable[Direct].exists
  PROVE  durable'[Direct].exists
<1>1. durable \in [Subjects -> Durable] /\ Direct \in Subjects /\ durable[Direct] \in Durable
  BY Zenon DEF FInv, MInv, IInv, TypeOK, Subjects
<1>2. CASE durable' = durable
  BY <1>2
<1>3. ASSUME NEW s, durable' = EnsureDurable(s) PROVE durable'[Direct].exists
  BY <1>1, <1>3, SMT DEF EnsureDurable, Durable
<1>4. ASSUME NEW s, NEW A, NEW B,
             \/ durable' = [durable EXCEPT ![s].ready = A, ![s].out = B]
             \/ durable' = [durable EXCEPT ![s].ready = A]
      PROVE  durable'[Direct].exists
  BY <1>1, <1>4, SMT DEF Durable
<1>5. ASSUME NEW s, NEW A, NEW B, durable' = [durable EXCEPT ![s].out = A, ![s].ready = B]
      PROVE  durable'[Direct].exists
  BY <1>1, <1>5, SMT DEF Durable
<1>6. ASSUME NEW e \in Events, Publish(e) PROVE durable'[Direct].exists
  BY <1>4, <1>6, Zenon DEF Publish
<1>7. ASSUME NEW e \in Events, PublishFails(e) \/ Expire(e) PROVE durable'[Direct].exists
  BY <1>2, <1>4, <1>7, Zenon DEF PublishFails, Expire
<1>8. CASE \/ \E e \in Events, r \in Rooms :
                \/ JoinRoom(e, r) \/ LeaveRoom(e, r)
                \/ SendMessage(e, r) \/ UpdateRoom(e, r) \/ FanoutEnded(e, r)
           \/ \E only \in Rooms \cup {Nothing} : Open(only)
           \/ Activate \/ Disconnect \/ Close \/ Crash
           \/ UNCHANGED vars
  BY <1>2, <1>8, Zenon DEF JoinRoom, LeaveRoom, SendMessage, UpdateRoom, FanoutEnded, RoomEvent,
     Open, Activate, Disconnect, Close, Crash, vars
<1>9. CASE \/ \E d \in Contexts : SubscribeDirect(d)
           \/ \E r \in Rooms, d \in Contexts : SubscribeRoom(r, d)
  BY <1>3, <1>9, Zenon DEF SubscribeDirect, SubscribeRoom
<1>10. ASSUME NEW c \in Contexts, NEW e \in Events, Take(c, e) PROVE durable'[Direct].exists
  BY <1>4, <1>10, Zenon DEF Take
<1>11. ASSUME NEW s \in Subjects, NEW e \in Events, AckWait(s, e) PROVE durable'[Direct].exists
  BY <1>5, <1>11, Zenon DEF AckWait
<1>12. ASSUME NEW c \in Contexts, Ack(c) PROVE durable'[Direct].exists
  BY <1>4, <1>12, Zenon DEF Ack
<1>13. ASSUME NEW c \in Contexts, HandleJoin(c) PROVE durable'[Direct].exists
  BY <1>2, <1>3, <1>13, Zenon DEF HandleJoin
<1>14. ASSUME NEW c \in Contexts, CallbackStep(c) PROVE durable'[Direct].exists
  BY <1>2, <1>12, <1>13, <1>14, Zenon DEF CallbackStep, SkipForeign, LookupFails, ConsumeForJoin,
     SubscribeFails, Send, HandleLeave
<1> QED BY <1>6, <1>7, <1>8, <1>9, <1>10, <1>11, <1>14, Zenon DEF Next

\* A context of the step before that goes on, or stops; that runs on; that is new.
Stay(x) ==
  /\ ctx'[x].live => /\ ctx[x].live
                     /\ ctx'[x].subject = ctx[x].subject /\ ctx'[x].of = ctx[x].of
                     /\ ctx[x].subject = Direct /\ ctx'[x].orphan => ctx[x].orphan
  /\ ctx'[x].pc # "idle" => /\ ctx'[x].of = ctx[x].of
                            /\ ctx[x].pc # "idle" \/ ctx[x].live
Runs(x) == ctx[x].live => /\ ctx'[x].live
                          /\ ctx'[x].subject = ctx[x].subject /\ ctx'[x].of = ctx[x].of
New(x)  == ctx'[x].of \in Sessions /\ (ctx'[x].subject = Direct => ~ctx'[x].orphan)

\* What a callback handles, it handled before, or its room is covered; a room of the user,
\* or one that was left, stays covered.
Handles(c) == Handled(c)' => \/ ctx'[c].event = ctx[c].event /\ Handled(c)
                             \/ \A r \in Rooms : Join(ctx[c].event, r)' => Good(r)'
Keeps(r)   == r \in members \/ Left(r) => (Good(r) => Good(r)')
Follow == /\ MapShape' /\ PlaceShape' /\ SessionShape'
          /\ \A c \in Contexts : Handles(c)
          /\ \A r \in Rooms : Keeps(r)

\* A context that goes on keeps its session, and the user's own stays in the map.
LEMMA PlaceKept ==
  ASSUME PlaceShape, \A x \in Contexts : Stay(x) \/ New(x)
  PROVE  PlaceShape'
<1> SUFFICES ASSUME NEW c \in Contexts
             PROVE  /\ ctx'[c].live /\ ctx'[c].subject = Direct => ~ctx'[c].orphan
                    /\ ctx'[c].live \/ ctx'[c].pc # "idle" => ctx'[c].of \in Sessions
  BY Zenon DEF PlaceShape
<1>1. /\ ctx[c].live /\ ctx[c].subject = Direct => ~ctx[c].orphan
      /\ ctx[c].live \/ ctx[c].pc # "idle" => ctx[c].of \in Sessions
  BY Zenon DEF PlaceShape
<1>2. Stay(c) \/ New(c)
  OBVIOUS
<1> QED BY <1>1, <1>2, Zenon DEF Stay, New

\* The maps hold what they held, as long as that runs on.
LEMMA MapKept ==
  ASSUME MapShape, mapped' = mapped, \A x \in Contexts : Runs(x)
  PROVE  MapShape'
<1> SUFFICES ASSUME NEW n \in Sessions, NEW s \in Subjects, NEW c \in Contexts,
                    mapped'[n][s] = c
             PROVE  Placed(c, n, s)'
  BY Zenon DEF MapShape
<1>1. mapped[n][s] = c
  OBVIOUS
<1>2. Placed(c, n, s)
  BY <1>1, Zenon DEF MapShape
<1> QED BY <1>2, Zenon DEF Placed, Runs

\* The running session keeps the context and the consumer of the user's own subject.
LEMMA SessionKept ==
  ASSUME FInv, [Next]_vars,
         session'.pc \in {"loop", "active"} =>
           /\ session.pc \in {"loop", "active"} /\ session'.id = session.id
           /\ mapped[Current][Direct] # Nothing => mapped'[Current][Direct] # Nothing,
         session'.pc \in {"off", "active"} => session'.todo = {}
  PROVE  SessionShape'
<1>1. CASE session'.pc \in {"loop", "active"}
  <2>1. durable[Direct].exists /\ mapped[Current][Direct] # Nothing
    BY <1>1, Zenon DEF FInv, SessionShape
  <2>2. durable'[Direct].exists
    BY <2>1, StaysDurable
  <2> QED BY <1>1, <2>1, <2>2, Zenon DEF SessionShape, Current
<1>2. CASE session'.pc \notin {"loop", "active"}
  BY <1>2, Zenon DEF SessionShape
<1> QED BY <1>1, <1>2

\* A room of a session that goes on: it stays covered unless its entry is deleted.
LEMMA GoodKept ==
  ASSUME Settling, session'.id = session.id, session.pc = "off" => session'.pc = "off",
         NEW r,
         mapped[Current][r] # Nothing => mapped'[Current][r] # Nothing \/ Left(r),
         r \in astray => r \in astray',
         r \in session.todo => r \in session'.todo \/ mapped'[Current][r] # Nothing
  PROVE  Keeps(r)
<1>1. Left(r) => Left(r)'
  BY StaysLeft
<1> QED BY <1>1, Zenon DEF Keeps, Good, Covered, Current

\* Every RoomJoin that is handled is of a room that is covered, after the step too.
LEMMA HandledKept ==
  ASSUME FInv, Settling, Follow, IInv'
  PROVE  HandledShape'
<1> SUFFICES ASSUME NEW c \in Contexts, NEW r \in Rooms, Handled(c)', Join(ctx[c].event, r)'
             PROVE  Good(r)'
  BY Zenon DEF HandledShape
<1>1. Handles(c) /\ Keeps(r)
  BY Zenon DEF Follow
<1>2. CASE ctx'[c].event = ctx[c].event /\ Handled(c)
  <2>1. ctx[c].pc # "idle"
    BY <1>2, Zenon DEF Handled
  <2>2. CallbackOf(c)
    BY <2>1, RunningCallback DEF FInv, MInv
  <2>3. ctx[c].event \in Events /\ Dispatched(ctx[c].event)
    BY <2>2, PublishedEvents, Zenon DEF CallbackOf, FInv, MInv, IInv, TypeOK, EventShape
  <2>4. Join(ctx[c].event, r)
    BY <1>2, <2>3, Zenon DEF Settling, Join
  <2>5. Good(r)
    BY <1>2, <2>4, Zenon DEF FInv, HandledShape
  <2>6. r \in members \/ Left(r)
    BY <2>3, <2>4, Zenon DEF FInv, MembersShape
  <2> QED BY <1>1, <2>5, <2>6, Zenon DEF Keeps
<1> QED BY <1>1, <1>2, Zenon DEF Handles

\* A step that leaves the session, its contexts and maps.
LEMMA QuietFollow ==
  ASSUME FInv, [Next]_vars, UNCHANGED <<session, ctx, mapped>>, astray \subseteq astray'
  PROVE  Follow
<1>1. Settling
  BY EventsStay
<1>2. \A x \in Contexts : Stay(x) /\ Runs(x)
  BY Zenon DEF Stay, Runs
<1>3. MapShape' /\ PlaceShape'
  BY <1>2, MapKept, PlaceKept, Zenon DEF FInv
<1>4. SessionShape'
  BY SessionKept, Zenon DEF FInv, SessionShape
<1>5. \A c \in Contexts : Handles(c)
  BY Zenon DEF Handles, Handled, Stale, Current
<1>6. \A r \in Rooms : Keeps(r)
  BY <1>1, GoodKept
<1> QED BY <1>3, <1>4, <1>5, <1>6 DEF Follow

\* A context, its callback at another place.
LEMMA PcValues ==
  ASSUME NEW x \in Context, NEW p \in ContextPc
  PROVE  /\ [x EXCEPT !.pc = p].live = x.live /\ [x EXCEPT !.pc = p].orphan = x.orphan
         /\ [x EXCEPT !.pc = p].subject = x.subject /\ [x EXCEPT !.pc = p].of = x.of
         /\ [x EXCEPT !.pc = p].event = x.event /\ [x EXCEPT !.pc = p].pc = p
BY SMT DEF Context

\* The callback c goes to p; what it handles then is handled already, or covered.
LEMMA PcFollow ==
  ASSUME FInv, [Next]_vars, NEW c \in Contexts, NEW p \in ContextPc,
         UNCHANGED <<session, mapped>>, astray \subseteq astray',
         ctx[c].pc # "idle", ctx' = [ctx EXCEPT ![c].pc = p],
         p = "send" => Handled(c) \/ Good(Of(c).room)'
  PROVE  Follow
<1> DEFINE new == [ctx[c] EXCEPT !.pc = p]
<1>1. Settling
  BY EventsStay
<1>2. ctx \in [Contexts -> Context] /\ \A x \in Contexts : ctx[x] \in Context
  BY MInvParts DEF FInv
<1>3. /\ new.live = ctx[c].live /\ new.orphan = ctx[c].orphan
      /\ new.subject = ctx[c].subject /\ new.of = ctx[c].of
      /\ new.event = ctx[c].event /\ new.pc = p
  BY <1>2, PcValues
<1>4. ctx'[c] = new /\ \A x \in Contexts : x # c => ctx'[x] = ctx[x]
  BY <1>2, Zenon
<1> HIDE DEF new
<1>5. ASSUME NEW x \in Contexts PROVE Stay(x) /\ Runs(x)
  <2>1. CASE x = c
    BY <1>3, <1>4, <2>1, Zenon DEF Stay, Runs
  <2>2. CASE x # c
    BY <1>4, <2>2, Zenon DEF Stay, Runs
  <2> QED BY <2>1, <2>2
<1>6. MapShape' /\ PlaceShape'
  BY <1>5, MapKept, PlaceKept, Zenon DEF FInv
<1>7. SessionShape'
  BY SessionKept, Zenon DEF FInv, SessionShape
<1>8. ASSUME NEW x \in Contexts PROVE Handles(x)
  <2>1. CASE x # c
    BY <1>4, <2>1, Zenon DEF Handles, Handled, Stale, Current
  <2>2. CASE x = c
    <3>1. Stale(c)' => Handled(c)
      BY <1>3, <1>4, Zenon DEF Handled, Stale, Current
    <3>2. CASE Handled(c)
      BY <1>3, <1>4, <2>2, <3>2, Zenon DEF Handles
    <3>3. CASE Good(Of(c).room)'
      <4>1. \A r \in Rooms : Join(ctx[c].event, r)' => Of(c).room' = r
        BY Zenon DEF Join, Of
      <4>2. \A r \in Rooms : Join(ctx[c].event, r)' => Good(r)'
        BY <3>3, <4>1, Zenon
      <4> QED BY <2>2, <4>2, Zenon DEF Handles
    <3>4. CASE p # "send"
      BY <1>3, <1>4, <2>2, <3>1, <3>4, Zenon DEF Handles, Handled
    <3> QED BY <3>2, <3>3, <3>4
  <2> QED BY <2>1, <2>2
<1>9. \A r \in Rooms : Keeps(r)
  BY <1>1, GoodKept
<1> QED BY <1>6, <1>7, <1>8, <1>9 DEF Follow

\* A callback goes on, without a change of the map.
LEMMA CallbackFollow ==
  ASSUME FInv, [Next]_vars, NEW c \in Contexts,
         SkipForeign(c) \/ LookupFails(c) \/ HandleJoin(c) \/ SubscribeFails(c) \/ Send(c)
  PROVE  Follow
<1>1. "send" \in ContextPc /\ "consume" \in ContextPc /\ "ack" \in ContextPc
  BY SMT DEF ContextPc
<1>2. CASE SkipForeign(c) \/ LookupFails(c) \/ Send(c)
  <2>1. /\ UNCHANGED <<session, mapped>> /\ astray' = astray
        /\ ctx[c].pc # "idle" /\ ctx' = [ctx EXCEPT ![c].pc = "ack"]
    BY <1>2, Zenon DEF SkipForeign, LookupFails, Send, At
  <2> QED BY <1>1, <2>1, PcFollow
<1>3. CASE HandleJoin(c)
  <2>1. UNCHANGED <<session, mapped, stream>> /\ astray' = astray /\ ctx[c].pc = "got"
    BY <1>3, Zenon DEF HandleJoin, At
  <2>2. CASE ctx' = [ctx EXCEPT ![c].pc = "consume"]
    BY <1>1, <2>1, <2>2, PcFollow
  <2>3. CASE /\ mapped[ctx[c].of][Of(c).room] # Nothing
             /\ ctx' = [ctx EXCEPT ![c].pc = "send"]
    <3>1. CASE Stale(c)
      <4>1. Handled(c)
        BY <2>1, <3>1, Zenon DEF Handled
      <4> QED BY <1>1, <2>1, <2>3, <4>1, PcFollow
    <3>2. CASE ~Stale(c)
      <4>1. session.pc # "off" /\ ctx[c].of = Current
        BY <3>2, Zenon DEF Stale
      <4>2. ctx'[c].event = ctx[c].event
        BY <1>1, <2>3, MInvParts, CtxPc DEF FInv
      <4>3. Good(Of(c).room)'
        BY <2>1, <2>3, <4>1, <4>2, Zenon DEF Good, Covered, Current, Of, stream
      <4> QED BY <1>1, <2>1, <2>3, <4>3, PcFollow
    <3> QED BY <3>1, <3>2
  <2> QED BY <1>3, <2>2, <2>3, Zenon DEF HandleJoin
<1>4. CASE SubscribeFails(c)
  <2>1. /\ UNCHANGED <<session, mapped, stream>> /\ astray \subseteq astray'
        /\ ctx[c].pc # "idle" /\ ctx' = [ctx EXCEPT ![c].pc = "send"]
    BY <1>4, Zenon DEF SubscribeFails, At
  <2>2. CASE Stale(c)
    <3>1. Handled(c)
      BY <2>1, <2>2, Zenon DEF Handled
    <3> QED BY <1>1, <2>1, <3>1, PcFollow
  <2>3. CASE ~Stale(c)
    <3>1. Of(c).room \in astray'
      BY <1>4, <2>3, Zenon DEF SubscribeFails
    <3>2. ctx'[c].event = ctx[c].event
      BY <1>1, <2>1, MInvParts, CtxPc DEF FInv
    <3>3. Good(Of(c).room)'
      BY <2>1, <3>1, <3>2, Zenon DEF Good, Covered, Of, stream
    <3> QED BY <1>1, <2>1, <3>3, PcFollow
  <2> QED BY <2>2, <2>3
<1> QED BY <1>2, <1>3, <1>4

\* A context takes an event; a RoomJoin is taken by a context of the running session.
LEMMA TakeFollow ==
  ASSUME FInv, [Next]_vars, NEW c \in Contexts, NEW e \in Events, Take(c, e)
  PROVE  Follow
<1> DEFINE got == [ctx[c] EXCEPT !.pc = "got"]
           new == [got EXCEPT !.event = e]
<1>1. /\ UNCHANGED <<session, mapped, stream>> /\ astray' = astray
      /\ ctx[c].live /\ ctx[c].pc = "idle" /\ e \in durable[ctx[c].subject].ready
      /\ ctx' = [ctx EXCEPT ![c].pc = "got", ![c].event = e]
  BY Zenon DEF Take, First
<1>2. ctx \in [Contexts -> Context] /\ \A x \in Contexts : ctx[x] \in Context
  BY MInvParts DEF FInv
<1>3. ctx'[c] = new /\ \A x \in Contexts : x # c => ctx'[x] = ctx[x]
  BY <1>1, <1>2, Zenon
<1>4. /\ new.live = ctx[c].live /\ new.orphan = ctx[c].orphan
      /\ new.subject = ctx[c].subject /\ new.of = ctx[c].of
      /\ new.event = e /\ new.pc = "got"
  BY <1>2, SMT DEF Context
<1> HIDE DEF got, new
<1>5. ASSUME NEW x \in Contexts PROVE Stay(x) /\ Runs(x)
  <2>1. CASE x = c
    BY <1>1, <1>3, <1>4, <2>1, Zenon DEF Stay, Runs
  <2>2. CASE x # c
    BY <1>3, <2>2, Zenon DEF Stay, Runs
  <2> QED BY <2>1, <2>2
<1>6. MapShape' /\ PlaceShape'
  BY <1>1, <1>5, MapKept, PlaceKept, Zenon DEF FInv
<1>7. SessionShape'
  BY <1>1, SessionKept, Zenon DEF FInv, SessionShape
<1>8. ASSUME NEW x \in Contexts PROVE Handles(x)
  <2>1. CASE x # c
    BY <1>1, <1>3, <2>1, Zenon DEF Handles, Handled, Stale, Current
  <2>2. CASE x = c
    <3>1. ASSUME NEW r \in Rooms, Handled(c)', Join(ctx[c].event, r)' PROVE FALSE
      <4>1. Stale(c)
        BY <1>1, <1>3, <1>4, <3>1, Zenon DEF Handled, Stale, Current
      <4>2. event[e].kind = "join"
        BY <1>1, <1>3, <1>4, <3>1, Zenon DEF Join, stream
      <4>3. ctx[c].subject \in Subjects
        BY <1>1, Zenon DEF FInv, MInv, NumberShape
      <4>4. ctx[c].subject = Direct
        BY <1>1, <4>2, <4>3, Zenon DEF FInv, MInv, IInv, DurableShape, Subject
      <4>5. ~ctx[c].orphan
        BY <1>1, <4>4, Zenon DEF FInv, PlaceShape
      <4> QED BY <1>1, <4>1, <4>5, Zenon DEF FInv, MInv, OnlyOrphansOutlive
    <3> QED BY <2>2, <3>1, Zenon DEF Handles
  <2> QED BY <2>1, <2>2
<1>9. \A r \in Rooms : Keeps(r)
  BY <1>1, EventsStay, GoodKept
<1> QED BY <1>6, <1>7, <1>8, <1>9 DEF Follow

\* The callback has ended.
LEMMA AckFollow ==
  ASSUME FInv, [Next]_vars, NEW c \in Contexts, Ack(c)
  PROVE  Follow
<1> DEFINE idle == [ctx[c] EXCEPT !.pc = "idle"]
           new == [idle EXCEPT !.event = Nothing]
<1>1. /\ UNCHANGED <<session, mapped>> /\ astray' = astray /\ ctx[c].pc = "ack"
      /\ ctx' = [ctx EXCEPT ![c] = IF ctx[c].live
                                   THEN [ctx[c] EXCEPT !.pc = "idle", !.event = Nothing]
                                   ELSE Free]
  BY Zenon DEF Ack, At
<1>2. ctx \in [Contexts -> Context] /\ \A x \in Contexts : ctx[x] \in Context
  BY MInvParts DEF FInv
<1>3. /\ ctx'[c] = IF ctx[c].live THEN new ELSE Free
      /\ \A x \in Contexts : x # c => ctx'[x] = ctx[x]
  BY <1>1, <1>2, Zenon
<1>4. /\ new.live = ctx[c].live /\ new.orphan = ctx[c].orphan
      /\ new.subject = ctx[c].subject /\ new.of = ctx[c].of /\ new.pc = "idle"
  BY <1>2, SMT DEF Context
<1>5. ~Free.live /\ Free.pc = "idle"
  BY SMT DEF Free
<1> HIDE DEF idle, new
<1>6. ASSUME NEW x \in Contexts PROVE Stay(x) /\ Runs(x)
  <2>1. CASE x = c
    <3>1. CASE ctx[c].live
      BY <1>3, <1>4, <2>1, <3>1, Zenon DEF Stay, Runs
    <3>2. CASE ~ctx[c].live
      BY <1>3, <1>5, <2>1, <3>2, Zenon DEF Stay, Runs
    <3> QED BY <3>1, <3>2
  <2>2. CASE x # c
    BY <1>3, <2>2, Zenon DEF Stay, Runs
  <2> QED BY <2>1, <2>2
<1>7. MapShape' /\ PlaceShape'
  BY <1>1, <1>6, MapKept, PlaceKept, Zenon DEF FInv
<1>8. SessionShape'
  BY <1>1, SessionKept, Zenon DEF FInv, SessionShape
<1>9. ASSUME NEW x \in Contexts PROVE Handles(x)
  <2>1. CASE x # c
    BY <1>1, <1>3, <2>1, Zenon DEF Handles, Handled, Stale, Current
  <2>2. CASE x = c
    <3>1. ctx'[c].pc = "idle"
      BY <1>3, <1>4, <1>5, Zenon
    <3> QED BY <2>2, <3>1, Zenon DEF Handles, Handled
  <2> QED BY <2>1, <2>2
<1>10. \A r \in Rooms : Keeps(r)
  BY <1>1, EventsStay, GoodKept
<1> QED BY <1>7, <1>8, <1>9, <1>10 DEF Follow

\* roomsConsumers[r] = d: d is new, and what it replaces is orphaned.
LEMMA PutValues ==
  ASSUME FInv, NEW n \in Sessions, NEW r \in Rooms, NEW d \in Contexts
  PROVE  /\ PutContexts(n, r, d)[d].live
         /\ PutContexts(n, r, d)[d].subject = r /\ PutContexts(n, r, d)[d].of = n
         /\ PutContexts(n, r, d)[d].pc = "idle"
         /\ \A x \in Contexts \ {d} :
              /\ PutContexts(n, r, d)[x].live <=> ctx[x].live
              /\ PutContexts(n, r, d)[x].subject = ctx[x].subject
              /\ PutContexts(n, r, d)[x].of = ctx[x].of
              /\ PutContexts(n, r, d)[x].pc = ctx[x].pc
              /\ PutContexts(n, r, d)[x].event = ctx[x].event
              /\ PutContexts(n, r, d)[x].orphan => ctx[x].orphan \/ x = mapped[n][r]
<1> DEFINE o == session.pc = "off" \/ n # Current
           new == [Started(r, n) EXCEPT !.orphan = o]
<1>1. new.live /\ new.subject = r /\ new.of = n /\ new.pc = "idle"
  BY SMT DEF Started, Free
<1>2. PutContexts(n, r, d)[d] = new
  BY Zenon DEF PutContexts
<1> HIDE DEF o, new
<1>3. ASSUME NEW x \in Contexts \ {d}
      PROVE  /\ PutContexts(n, r, d)[x].live <=> ctx[x].live
             /\ PutContexts(n, r, d)[x].subject = ctx[x].subject
             /\ PutContexts(n, r, d)[x].of = ctx[x].of
             /\ PutContexts(n, r, d)[x].pc = ctx[x].pc
             /\ PutContexts(n, r, d)[x].event = ctx[x].event
             /\ PutContexts(n, r, d)[x].orphan => ctx[x].orphan \/ x = mapped[n][r]
  <2>1. ctx[x] \in Context
    BY MInvParts, Zenon DEF FInv
  <2>2. /\ Orphaned(ctx[x]).live <=> ctx[x].live
        /\ Orphaned(ctx[x]).subject = ctx[x].subject
        /\ Orphaned(ctx[x]).of = ctx[x].of
        /\ Orphaned(ctx[x]).pc = ctx[x].pc
        /\ Orphaned(ctx[x]).event = ctx[x].event
    BY <2>1, SMT DEF Context, Orphaned
  <2>3. PutContexts(n, r, d)[x] = IF x = mapped[n][r] THEN Orphaned(ctx[x]) ELSE ctx[x]
    BY Zenon DEF PutContexts
  <2> QED BY <2>2, <2>3, Zenon
<1> QED BY <1>1, <1>2, <1>3

\* A context after its room was put into the map: the new one, or one that goes on.
Put(n, r, d) ==
  /\ ctx'[d].live /\ ctx'[d].subject = r /\ ctx'[d].of = n /\ ctx'[d].pc = "idle"
  /\ \A x \in Contexts \ {d} :
       /\ ctx'[x].live <=> ctx[x].live
       /\ ctx'[x].subject = ctx[x].subject /\ ctx'[x].of = ctx[x].of
       /\ ctx'[x].event = ctx[x].event
       /\ ctx'[x].pc = "idle" <=> ctx[x].pc = "idle"
       /\ ctx'[x].orphan => ctx[x].orphan \/ x = mapped[n][r]

\* What putting a room into a map does to the maps, the contexts and the rooms followed.
LEMMA PutFollow ==
  ASSUME FInv, [Next]_vars, NEW n \in Sessions, NEW r \in Rooms, NEW d \in Contexts,
         Fresh(d), Put(n, r, d), mapped' = [mapped EXCEPT ![n][r] = d], astray' = astray,
         session'.id = session.id, session'.pc = session.pc,
         session'.todo \subseteq session.todo,
         \A t \in session.todo : t \in session'.todo \/ (t = r /\ n = Current)
  PROVE  /\ MapShape' /\ PlaceShape' /\ SessionShape'
         /\ \A t \in Rooms : Keeps(t)
<1>1. d # Nothing /\ r \in Subjects /\ r # Direct /\ Direct \in Subjects /\ Rooms \subseteq Subjects
  BY MInvParts, StreamAssumption, Zenon DEF FInv, Subjects
<1>2. ~ctx[d].live
  BY SMT DEF Fresh, Free
<1>3. mapped'[n][r] = d
  BY <1>1, MInvParts, Zenon DEF FInv
<1>4. ASSUME NEW k \in Sessions, NEW s \in Subjects, ~(k = n /\ s = r)
      PROVE  mapped'[k][s] = mapped[k][s]
  <2>1. CASE k = n
    BY <1>4, <2>1, MInvParts, Zenon DEF FInv
  <2>2. CASE k # n
    BY <1>4, <2>2, MInvParts, Zenon DEF FInv
  <2> QED BY <2>1, <2>2
<1>5. MapShape'
  <2> SUFFICES ASSUME NEW k \in Sessions, NEW s \in Subjects, NEW x \in Contexts,
                      mapped'[k][s] = x
               PROVE  Placed(x, k, s)'
    BY Zenon DEF MapShape
  <2>1. CASE k = n /\ s = r
    BY <1>3, <2>1, Zenon DEF Placed, Put
  <2>2. CASE ~(k = n /\ s = r)
    <3>1. Placed(x, k, s)
      BY <1>4, <2>2, Zenon DEF FInv, MapShape
    <3>2. x # d
      BY <1>2, <3>1, Zenon DEF Placed
    <3> QED BY <3>1, <3>2, Zenon DEF Placed, Put
  <2> QED BY <2>1, <2>2
<1>6. PlaceShape'
  <2>1. ASSUME NEW x \in Contexts PROVE Stay(x) \/ New(x)
    <3>1. CASE x = d
      BY <1>1, <3>1, Zenon DEF New, Put
    <3>2. CASE x # d
      <4>1. x = mapped[n][r] => Placed(x, n, r)
        BY <1>1, Zenon DEF FInv, MapShape
      <4>2. x = mapped[n][r] => ctx[x].subject # Direct
        BY <1>1, <4>1, Zenon DEF Placed
      <4> QED BY <3>2, <4>2, Zenon DEF Stay, Put
    <3> QED BY <3>1, <3>2
  <2> QED BY <2>1, PlaceKept DEF FInv
<1>7. session.pc # "off" => Current \in Sessions
  BY MInvParts DEF FInv
<1>8. SessionShape'
  <2>1. session'.pc \in {"loop", "active"} => mapped'[Current][Direct] = mapped[Current][Direct]
    BY <1>1, <1>4, <1>7, Zenon
  <2>2. session'.pc \in {"off", "active"} => session'.todo = {}
    BY Zenon DEF FInv, SessionShape
  <2> QED BY <2>1, <2>2, SessionKept, Zenon
<1>9. ASSUME NEW t \in Rooms PROVE Keeps(t)
  <2>1. CASE session.pc = "off"
    BY <2>1, Zenon DEF Keeps, Good
  <2>2. CASE session.pc # "off"
    <3>1. mapped[Current][t] # Nothing => mapped'[Current][t] # Nothing
      BY <1>1, <1>3, <1>4, <1>7, <2>2, Zenon
    <3>2. t \in session.todo => t \in session'.todo \/ mapped'[Current][t] # Nothing
      BY <1>1, <1>3, Zenon
    <3> QED BY <3>1, <3>2, EventsStay, GoodKept, Zenon
  <2> QED BY <2>1, <2>2
<1> QED BY <1>5, <1>6, <1>8, <1>9

\* A turn of the loop.
LEMMA LoopFollow ==
  ASSUME FInv, [Next]_vars, NEW r \in Rooms, NEW d \in Contexts, SubscribeRoom(r, d)
  PROVE  Follow
<1>1. /\ session.pc = "loop" /\ Fresh(d) /\ astray' = astray /\ r \in session.todo
      /\ session' = [session EXCEPT !.todo = @ \ {r}] /\ UNCHANGED stream
      /\ ctx' = PutContexts(Current, r, d) /\ mapped' = [mapped EXCEPT ![Current][r] = d]
  BY Zenon DEF SubscribeRoom
<1>2. /\ session'.id = session.id /\ session'.pc = session.pc
      /\ session'.todo = session.todo \ {r}
  <2>1. session \in Session
    BY Zenon DEF FInv, MInv, IInv, TypeOK
  <2> QED BY <1>1, <2>1, SMT DEF Session
<1>3. Current \in Sessions
  BY <1>1, MInvParts, Zenon DEF FInv
<1>4. /\ Put(Current, r, d)
      /\ \A x \in Contexts \ {d} : ctx'[x].pc = ctx[x].pc
  <2> DEFINE put == PutContexts(Current, r, d)
  <2>1. /\ put[d].live /\ put[d].subject = r /\ put[d].of = Current /\ put[d].pc = "idle"
        /\ \A x \in Contexts \ {d} :
             /\ put[x].live <=> ctx[x].live
             /\ put[x].subject = ctx[x].subject /\ put[x].of = ctx[x].of
             /\ put[x].pc = ctx[x].pc /\ put[x].event = ctx[x].event
             /\ put[x].orphan => ctx[x].orphan \/ x = mapped[Current][r]
    BY <1>3, PutValues
  <2>2. ctx' = put
    BY <1>1
  <2> HIDE DEF put
  <2> QED BY <2>1, <2>2, Zenon DEF Put
<1>5. MapShape' /\ PlaceShape' /\ SessionShape' /\ \A t \in Rooms : Keeps(t)
  <2>1. /\ session'.todo \subseteq session.todo
        /\ \A t \in session.todo : t \in session'.todo \/ (t = r /\ Current = Current)
    BY <1>2, SMT
  <2> QED BY <1>1, <1>2, <1>3, <1>4, <2>1, PutFollow
<1>6. ASSUME NEW x \in Contexts PROVE Handles(x)
  <2>1. CASE x = d
    BY <1>4, <2>1, Zenon DEF Put, Handles, Handled
  <2>2. CASE x # d
    <3>1. ctx'[x].event = ctx[x].event /\ ctx'[x].of = ctx[x].of /\ ctx'[x].pc = ctx[x].pc
      BY <1>4, <2>2, Zenon DEF Put
    <3> QED BY <1>2, <3>1, Zenon DEF Handles, Handled, Stale, Current
  <2> QED BY <2>1, <2>2
<1> QED BY <1>5, <1>6 DEF Follow

\* A RoomJoin puts the room into the map of its context's session.
LEMMA ConsumeFollow ==
  ASSUME FInv, [Next]_vars, NEW c \in Contexts, NEW d \in Contexts, ConsumeForJoin(c, d)
  PROVE  Follow
<1> DEFINE n == ctx[c].of
           r == Of(c).room
           put == PutContexts(n, r, d)
<1>1. /\ ctx[c].pc = "consume" /\ session' = session /\ astray' = astray /\ UNCHANGED stream
      /\ Fresh(d) /\ mapped' = [mapped EXCEPT ![n][r] = d]
      /\ ctx' = [put EXCEPT ![c].pc = "send"]
  BY Zenon DEF ConsumeForJoin, At
<1>2. r \in Rooms
  BY <1>1, RunningCallback, SMT DEF FInv, MInv, IInv, EventShape, CallbackOf, Of
<1>3. n \in Sessions
  BY <1>1, Zenon DEF FInv, PlaceShape
<1>4. put \in [Contexts -> Context]
  BY <1>2, <1>3, PutType DEF FInv, MInv, IInv, TypeOK
<1>5. c # d
  BY <1>1, SMT DEF Fresh, Free
<1>6. /\ ctx'[c].live <=> put[c].live
      /\ ctx'[c].subject = put[c].subject /\ ctx'[c].of = put[c].of
      /\ ctx'[c].event = put[c].event /\ ctx'[c].pc = "send"
      /\ ctx'[c].orphan => put[c].orphan
  <2> HIDE DEF put
  <2> DEFINE new == [put[c] EXCEPT !.pc = "send"]
  <2>1. ctx'[c] = new /\ put[c] \in Context
    BY <1>1, <1>4, Zenon
  <2>2. /\ new.live <=> put[c].live
        /\ new.subject = put[c].subject /\ new.of = put[c].of
        /\ new.event = put[c].event /\ new.pc = "send"
        /\ new.orphan => put[c].orphan
    BY <2>1, SMT DEF Context
  <2> HIDE DEF new
  <2> QED BY <2>1, <2>2, Zenon
<1>7. \A x \in Contexts : x # c => ctx'[x] = put[x]
  <2> HIDE DEF put
  <2> QED BY <1>1, <1>4, Zenon
<1>8. Put(n, r, d)
  <2>1. /\ put[d].live /\ put[d].subject = r /\ put[d].of = n /\ put[d].pc = "idle"
        /\ \A x \in Contexts \ {d} :
             /\ put[x].live <=> ctx[x].live
             /\ put[x].subject = ctx[x].subject /\ put[x].of = ctx[x].of
             /\ put[x].pc = ctx[x].pc /\ put[x].event = ctx[x].event
             /\ put[x].orphan => ctx[x].orphan \/ x = mapped[n][r]
    BY <1>2, <1>3, PutValues
  <2> HIDE DEF put, n, r
  <2>2. ctx'[d] = put[d]
    BY <1>5, <1>7
  <2>3. ctx'[c].pc # "idle" /\ ctx[c].pc # "idle"
    BY <1>1, <1>6, SMT
  <2>4. ASSUME NEW x \in Contexts \ {d}
        PROVE  /\ ctx'[x].live <=> ctx[x].live
               /\ ctx'[x].subject = ctx[x].subject /\ ctx'[x].of = ctx[x].of
               /\ ctx'[x].event = ctx[x].event
               /\ ctx'[x].pc = "idle" <=> ctx[x].pc = "idle"
               /\ ctx'[x].orphan => ctx[x].orphan \/ x = mapped[n][r]
    <3>1. CASE x = c
      BY <1>6, <2>1, <2>3, <3>1, Zenon
    <3>2. CASE x # c
      <4>1. ctx'[x] = put[x]
        BY <1>7, <3>2
      <4> QED BY <2>1, <4>1, Zenon
    <3> QED BY <3>1, <3>2
  <2> QED BY <2>1, <2>2, <2>4, Zenon DEF Put
<1>9. MapShape' /\ PlaceShape' /\ SessionShape' /\ \A t \in Rooms : Keeps(t)
  <2> HIDE DEF put, n, r
  <2> QED BY <1>1, <1>2, <1>3, <1>8, PutFollow
<1>10. mapped'[n][r] = d /\ d # Nothing
  <2>1. r \in Subjects
    BY <1>2, Zenon DEF Subjects
  <2> HIDE DEF put, n, r
  <2> QED BY <1>1, <1>3, <2>1, MInvParts, Zenon DEF FInv
<1>11. ctx'[c].event = ctx[c].event /\ ctx'[c].of = ctx[c].of
  <2> HIDE DEF put, n, r
  <2> QED BY <1>5, <1>8, Zenon DEF Put
<1>12. ASSUME NEW x \in Contexts PROVE Handles(x)
  <2>1. CASE x = d
    <3>1. ctx'[d].pc = "idle"
      BY <1>8, Zenon DEF Put
    <3> QED BY <2>1, <3>1, Zenon DEF Handles, Handled
  <2>2. CASE x # d /\ x # c
    <3>1. put[x].event = ctx[x].event /\ put[x].of = ctx[x].of /\ put[x].pc = ctx[x].pc
      BY <1>2, <1>3, <2>2, PutValues
    <3>2. ctx'[x] = put[x]
      BY <1>7, <2>2
    <3> HIDE DEF put, n, r
    <3> QED BY <1>1, <3>1, <3>2, Zenon DEF Handles, Handled, Stale, Current
  <2>3. CASE x = c /\ Stale(c)
    <3>1. Handled(c)
      BY <1>1, <2>3, Zenon DEF Handled
    <3> QED BY <1>11, <2>3, <3>1, Zenon DEF Handles
  <2>4. CASE x = c /\ ~Stale(c)
    <3>1. n = Current
      BY <2>4, Zenon DEF Stale
    <3>2. \A t \in Rooms : Join(ctx[c].event, t)' => t = r
      BY <1>1, <1>11, Zenon DEF Join, Of, stream
    <3>3. ASSUME NEW t \in Rooms, t = r PROVE Good(t)'
      <4> HIDE DEF put, n, r
      <4> QED BY <1>1, <1>10, <3>1, <3>3, Zenon DEF Good, Covered, Current
    <3> QED BY <2>4, <3>2, <3>3, Zenon DEF Handles
  <2> QED BY <2>1, <2>2, <2>3, <2>4
<1> QED BY <1>9, <1>12 DEF Follow

\* The first context of a session.
LEMMA DirectFollow ==
  ASSUME FInv, [Next]_vars, NEW d \in Contexts, SubscribeDirect(d)
  PROVE  Follow
<1>1. /\ session.pc = "direct" /\ session' = [session EXCEPT !.pc = "loop"] /\ Fresh(d)
      /\ ctx' = [ctx EXCEPT ![d] = Started(Direct, Current)]
      /\ mapped' = [mapped EXCEPT ![Current][Direct] = d]
      /\ durable' = EnsureDurable(Direct) /\ astray' = astray /\ UNCHANGED stream
  BY Zenon DEF SubscribeDirect
<1>2. session'.id = session.id /\ session'.pc = "loop" /\ session'.todo = session.todo
  <2>1. session \in Session
    BY Zenon DEF FInv, MInv, IInv, TypeOK
  <2> QED BY <1>1, <2>1, SMT DEF Session
<1>3. Current \in Sessions /\ d # Nothing /\ Direct \in Subjects /\ Rooms \subseteq Subjects
  BY <1>1, MInvParts, Zenon DEF FInv, Subjects
<1>4. /\ ctx'[d].live /\ ctx'[d].subject = Direct /\ ctx'[d].of = Current
      /\ ~ctx'[d].orphan /\ ctx'[d].pc = "idle"
  <2>1. ctx'[d] = Started(Direct, Current)
    BY <1>1, MInvParts, Zenon DEF FInv
  <2> QED BY <2>1, SMT DEF Started, Free
<1>5. \A x \in Contexts : x # d => ctx'[x] = ctx[x]
  BY <1>1, MInvParts, Zenon DEF FInv
<1>6. ~ctx[d].live
  BY <1>1, SMT DEF Fresh, Free
<1>7. mapped'[Current][Direct] = d
  BY <1>1, <1>3, MInvParts, Zenon DEF FInv
<1>8. ASSUME NEW k \in Sessions, NEW s \in Subjects, ~(k = Current /\ s = Direct)
      PROVE  mapped'[k][s] = mapped[k][s]
  <2>1. CASE k = Current
    BY <1>1, <1>8, <2>1, MInvParts, Zenon DEF FInv
  <2>2. CASE k # Current
    BY <1>1, <1>8, <2>2, MInvParts, Zenon DEF FInv
  <2> QED BY <2>1, <2>2
<1>9. MapShape'
  <2> SUFFICES ASSUME NEW k \in Sessions, NEW s \in Subjects, NEW x \in Contexts,
                      mapped'[k][s] = x
               PROVE  Placed(x, k, s)'
    BY Zenon DEF MapShape
  <2>1. CASE k = Current /\ s = Direct
    BY <1>4, <1>7, <2>1, Zenon DEF Placed
  <2>2. CASE ~(k = Current /\ s = Direct)
    <3>1. Placed(x, k, s)
      BY <1>8, <2>2, Zenon DEF FInv, MapShape
    <3>2. x # d
      BY <1>6, <3>1, Zenon DEF Placed
    <3> QED BY <1>5, <3>1, <3>2, Zenon DEF Placed
  <2> QED BY <2>1, <2>2
<1>10. PlaceShape'
  <2>1. ASSUME NEW x \in Contexts PROVE Stay(x) \/ New(x)
    <3>1. CASE x = d
      BY <1>3, <1>4, <3>1, Zenon DEF New
    <3>2. CASE x # d
      BY <1>5, <3>2, Zenon DEF Stay
    <3> QED BY <3>1, <3>2
  <2> QED BY <2>1, PlaceKept DEF FInv
<1>11. SessionShape'
  <2>1. durable'[Direct].exists
    <3>1. durable \in [Subjects -> Durable] /\ durable[Direct] \in Durable
      BY <1>3, Zenon DEF FInv, MInv, IInv, TypeOK
    <3>2. durable'[Direct] = [durable[Direct] EXCEPT !.exists = TRUE]
      BY <1>1, <1>3, <3>1, Zenon DEF EnsureDurable
    <3> QED BY <3>1, <3>2, SMT DEF Durable
  <2> QED BY <1>2, <1>3, <1>7, <2>1, SMT DEF SessionShape, Current
<1>12. ASSUME NEW x \in Contexts PROVE Handles(x)
  <2>1. CASE x = d
    BY <1>4, <2>1, Zenon DEF Handles, Handled
  <2>2. CASE x # d
    <3>1. Stale(x)' => Stale(x)
      BY <1>2, <1>5, <2>2, SMT DEF Stale, Current
    <3> QED BY <1>5, <2>2, <3>1, Zenon DEF Handles, Handled
  <2> QED BY <2>1, <2>2
<1>13. ASSUME NEW t \in Rooms PROVE Keeps(t)
  <2>1. t # Direct
    BY StreamAssumption, Zenon
  <2>2. mapped'[Current][t] = mapped[Current][t]
    BY <1>3, <1>8, <2>1, Zenon
  <2>3. session.pc # "off"
    BY <1>1, SMT
  <2> QED BY <1>1, <1>2, <2>2, <2>3, EventsStay, GoodKept
<1> QED BY <1>9, <1>10, <1>11, <1>12, <1>13 DEF Follow

\* The session goes on.
LEMMA SessionFollow ==
  ASSUME FInv, [Next]_vars, Activate \/ Disconnect
  PROVE  Follow
<1>1. session \in Session
  BY Zenon DEF FInv, MInv, IInv, TypeOK
<1>2. UNCHANGED <<ctx, mapped, durable, stream>> /\ astray' = astray
  BY Zenon DEF Activate, Disconnect
<1>3. /\ session'.id = session.id /\ session'.todo = session.todo
      /\ \/ session'.pc = session.pc
         \/ session.pc = "loop" /\ session'.pc = "active" /\ session.todo = {}
  BY <1>1, SMT DEF Activate, Disconnect, Session
<1>4. session.pc # "off" => session'.pc # "off"
  BY <1>3, SMT
<1>5. \A x \in Contexts : Stay(x) /\ Runs(x)
  BY <1>2, Zenon DEF Stay, Runs
<1>6. MapShape' /\ PlaceShape'
  BY <1>2, <1>5, MapKept, PlaceKept, Zenon DEF FInv
<1>7. SessionShape'
  <2>1. session'.pc \in {"loop", "active"} => session.pc \in {"loop", "active"}
    BY <1>3, SMT
  <2>2. session'.pc \in {"off", "active"} => session'.todo = {}
    BY <1>3, SMT DEF FInv, SessionShape
  <2> QED BY <1>2, <1>3, <2>1, <2>2, SessionKept, Zenon
<1>8. session'.pc = "off" => session.pc = "off"
  BY <1>3, SMT
<1>9. \A c \in Contexts : Handles(c)
  BY <1>2, <1>3, <1>8, Zenon DEF Handles, Handled, Stale, Current
<1>10. ASSUME NEW r \in Rooms PROVE Keeps(r)
  <2>1. session.pc = "off" => session'.pc = "off"
    BY <1>3, SMT
  <2> QED BY <1>2, <1>3, <2>1, EventsStay, GoodKept, Zenon
<1> QED BY <1>6, <1>7, <1>9, <1>10 DEF Follow

\* A new session covers the rooms of the user: it subscribes them, or was not asked to.
LEMMA OpenFollow ==
  ASSUME FInv, [Next]_vars, NEW only \in Rooms \cup {Nothing}, Open(only)
  PROVE  Follow
<1> DEFINE A == IF only \in members THEN {only} ELSE members
<1>1. /\ session.pc = "off" /\ UNCHANGED <<ctx, mapped, durable, stream>>
      /\ session' = [NoSession(Current + 1) EXCEPT !.pc = "direct", !.up = TRUE, !.todo = A]
      /\ astray' = IF only \in members THEN Rooms \ {only} ELSE {}
  BY Zenon DEF Open
<1>2. session'.pc = "direct" /\ session'.todo = A
  <2> HIDE DEF A
  <2> QED BY <1>1, SMT DEF NoSession
<1>3. \A x \in Contexts : Stay(x) /\ Runs(x)
  BY <1>1, Zenon DEF Stay, Runs
<1>4. MapShape' /\ PlaceShape'
  BY <1>1, <1>3, MapKept, PlaceKept, Zenon DEF FInv
<1>5. SessionShape'
  BY <1>2, SMT DEF SessionShape
<1>6. \A c \in Contexts : Handles(c)
  BY <1>1, Zenon DEF Handles, Handled, Stale
<1>7. ASSUME NEW r \in Rooms PROVE Keeps(r)
  <2>1. Left(r) => Left(r)'
    BY EventsStay, StaysLeft
  <2>2. r \in members => r \in astray' \/ r \in session'.todo
    BY <1>1, <1>2, SMT
  <2> QED BY <2>1, <2>2, Zenon DEF Keeps, Good, Covered
<1> QED BY <1>4, <1>5, <1>6, <1>7 DEF Follow

\* A session that has ended follows no room.
LEMMA OffFollow ==
  ASSUME FInv, session'.pc = "off", session'.todo = {}, MapShape', PlaceShape'
  PROVE  Follow
<1>1. SessionShape'
  BY SMT DEF SessionShape
<1>2. \A c \in Contexts : Handles(c)
  BY Zenon DEF Handles, Good
<1>3. \A r \in Rooms : Keeps(r)
  BY Zenon DEF Keeps, Good
<1> QED BY <1>1, <1>2, <1>3 DEF Follow

\* A context that is stopped: its callback, if one runs, goes on.
LEMMA StopValues ==
  ASSUME NEW x \in Context
  PROVE  /\ ~Stopped(x).live
         /\ Stopped(x).pc # "idle" => /\ x.pc # "idle"
                                      /\ Stopped(x).pc = x.pc /\ Stopped(x).of = x.of
                                      /\ Stopped(x).event = x.event
BY SMT DEF Stopped, Free, Context

\* The deferred calls stop what is in the session's map.
LEMMA CloseFollow ==
  ASSUME FInv, [Next]_vars, Close
  PROVE  Follow
<1>1. /\ session.pc # "off" /\ session' = NoSession(Current)
      /\ ctx' = [c \in Contexts |->
           IF \E s \in Subjects : mapped[Current][s] = c THEN Stopped(ctx[c]) ELSE ctx[c]]
      /\ mapped' = [mapped EXCEPT ![Current] = NoMap]
  BY Zenon DEF Close
<1>2. session'.pc = "off" /\ session'.todo = {}
  BY <1>1, SMT DEF NoSession
<1>3. Current \in Sessions
  BY <1>1, MInvParts DEF FInv
<1>4. ASSUME NEW x \in Contexts
      PROVE  /\ Stay(x)
             /\ (\A s \in Subjects : mapped[Current][s] # x) => ctx'[x] = ctx[x]
  <2>1. ctx[x] \in Context
    BY MInvParts DEF FInv
  <2>2. CASE \E s \in Subjects : mapped[Current][s] = x
    <3>1. ctx'[x] = Stopped(ctx[x])
      BY <1>1, <2>2, Zenon
    <3> QED BY <2>1, <2>2, <3>1, StopValues, Zenon DEF Stay
  <2>3. CASE ~\E s \in Subjects : mapped[Current][s] = x
    <3>1. ctx'[x] = ctx[x]
      BY <1>1, <2>3, Zenon
    <3> QED BY <3>1, Zenon DEF Stay
  <2> QED BY <2>2, <2>3
<1>5. PlaceShape'
  BY <1>4, PlaceKept DEF FInv
<1>6. MapShape'
  <2> SUFFICES ASSUME NEW k \in Sessions, NEW s \in Subjects, NEW x \in Contexts,
                      mapped'[k][s] = x
               PROVE  Placed(x, k, s)'
    BY Zenon DEF MapShape
  <2>1. k # Current
    <3>1. mapped'[Current] = NoMap
      BY <1>1, <1>3, MInvParts, Zenon DEF FInv
    <3>2. mapped'[Current][s] = Nothing
      BY <3>1, Zenon DEF NoMap
    <3> QED BY <3>2, MInvParts, Zenon DEF FInv
  <2>2. mapped[k][s] = x
    BY <1>1, <2>1, MInvParts, Zenon DEF FInv
  <2>3. Placed(x, k, s)
    BY <2>2, Zenon DEF FInv, MapShape
  <2>4. \A t \in Subjects : mapped[Current][t] # x
    BY <1>3, <2>1, <2>3, Zenon DEF FInv, MapShape, Placed
  <2> QED BY <1>4, <2>3, <2>4, Zenon DEF Placed
<1> QED BY <1>2, <1>5, <1>6, OffFollow

\* The process stops.
LEMMA CrashFollow ==
  ASSUME FInv, [Next]_vars, Crash
  PROVE  Follow
<1>1. /\ session' = NoSession(Current) /\ ctx' = [c \in Contexts |-> Free]
      /\ mapped' = [n \in Sessions |-> NoMap]
  BY Zenon DEF Crash
<1>2. session'.pc = "off" /\ session'.todo = {}
  BY <1>1, SMT DEF NoSession
<1>3. ~Free.live /\ Free.pc = "idle"
  BY SMT DEF Free
<1>4. \A x \in Contexts : Stay(x)
  BY <1>1, <1>3, Zenon DEF Stay
<1>5. PlaceShape'
  BY <1>4, PlaceKept DEF FInv
<1>6. \A n \in Sessions, s \in Subjects : mapped'[n][s] = Nothing
  BY <1>1, Zenon DEF NoMap
<1>7. MapShape'
  BY <1>6, MInvParts, Zenon DEF MapShape, FInv
<1> QED BY <1>2, <1>5, <1>7, OffFollow

\* A RoomLeave deletes the entry of a room that the user has left.
LEMMA LeaveFollow ==
  ASSUME FInv, [Next]_vars, NEW c \in Contexts, HandleLeave(c)
  PROVE  Follow
<1> DEFINE n == ctx[c].of
           r == Of(c).room
           got == [ctx[c] EXCEPT !.pc = "ack"]
           y(x) == IF x = c THEN got ELSE ctx[x]
<1>1. /\ ctx[c].pc = "got" /\ session' = session /\ astray' = astray /\ Of(c).kind = "leave"
      /\ mapped' = [mapped EXCEPT ![n][r] = Nothing]
      /\ ctx' = [x \in Contexts |-> IF x = mapped[n][r] THEN Stopped(y(x)) ELSE y(x)]
  BY Zenon DEF HandleLeave, StopRoom, At
<1>2. CallbackOf(c)
  BY <1>1, RunningCallback, SMT DEF FInv, MInv
<1>3. r \in Rooms /\ Left(r)
  BY <1>1, <1>2, SMT DEF FInv, MInv, IInv, EventShape, CallbackOf, Of, Left, Dispatched
<1>4. n \in Sessions
  BY <1>1, Zenon DEF FInv, PlaceShape
<1>5. r \in Subjects /\ r # Direct /\ Direct \in Subjects /\ Rooms \subseteq Subjects
  BY <1>3, StreamAssumption, Zenon DEF Subjects
<1>6. /\ got \in Context
      /\ got.live = ctx[c].live /\ got.orphan = ctx[c].orphan
      /\ got.subject = ctx[c].subject /\ got.of = ctx[c].of
      /\ got.event = ctx[c].event /\ got.pc = "ack"
  <2>1. "ack" \in ContextPc
    BY SMT DEF ContextPc
  <2> QED BY <2>1, MInvParts, PcValues, ContextForms DEF FInv
<1>7. y(c) = got /\ \A x \in Contexts : x # c => y(x) = ctx[x]
  OBVIOUS
<1>8. \A x \in Contexts : ctx'[x] = IF x = mapped[n][r] THEN Stopped(y(x)) ELSE y(x)
  BY <1>1, Zenon
<1> HIDE DEF n, r, got, y
<1>9. ASSUME NEW x \in Contexts
      PROVE  /\ y(x) \in Context /\ y(x).live = ctx[x].live /\ y(x).orphan = ctx[x].orphan
             /\ y(x).subject = ctx[x].subject /\ y(x).of = ctx[x].of
             /\ y(x).event = ctx[x].event
             /\ y(x).pc # "idle" => ctx[x].pc # "idle"
             /\ y(x).pc = "send" => ctx[x].pc = "send"
  <2>1. CASE x = c
    BY <1>1, <1>6, <1>7, <2>1, Zenon
  <2>2. CASE x # c
    BY <1>7, <2>2, MInvParts, Zenon DEF FInv
  <2> QED BY <2>1, <2>2
<1>10. ASSUME NEW x \in Contexts
       PROVE  /\ Stay(x) /\ Handles(x)
              /\ x # mapped[n][r] => Runs(x)
  <2>1. Stopped(y(x)).pc # "idle" => /\ y(x).pc # "idle"
                                     /\ Stopped(y(x)).pc = y(x).pc
                                     /\ Stopped(y(x)).of = y(x).of
                                     /\ Stopped(y(x)).event = y(x).event
    BY <1>9, StopValues
  <2>2. ~Stopped(y(x)).live
    BY <1>9, StopValues
  <2>3. ctx'[x] = y(x) \/ (x = mapped[n][r] /\ ctx'[x] = Stopped(y(x)))
    BY <1>8, Zenon
  <2>4. ctx'[x].pc # "idle" => /\ ctx'[x].of = ctx[x].of /\ ctx'[x].event = ctx[x].event
                               /\ ctx[x].pc # "idle"
                               /\ ctx'[x].pc = "send" => ctx[x].pc = "send"
    BY <1>9, <2>1, <2>3, Zenon
  <2>5. Stay(x)
    BY <1>9, <2>2, <2>3, <2>4, Zenon DEF Stay
  <2>6. Handles(x)
    BY <1>1, <2>4, Zenon DEF Handles, Handled, Stale, Current
  <2>7. x # mapped[n][r] => Runs(x)
    BY <1>9, <2>3, Zenon DEF Runs
  <2> QED BY <2>5, <2>6, <2>7
<1>11. ASSUME NEW k \in Sessions, NEW s \in Subjects, ~(k = n /\ s = r)
       PROVE  mapped'[k][s] = mapped[k][s]
  <2>1. CASE k = n
    BY <1>1, <1>11, <2>1, MInvParts, Zenon DEF FInv
  <2>2. CASE k # n
    BY <1>1, <1>11, <2>2, MInvParts, Zenon DEF FInv
  <2> QED BY <2>1, <2>2
<1>12. mapped'[n][r] = Nothing
  BY <1>1, <1>4, <1>5, MInvParts, Zenon DEF FInv
<1>13. MapShape'
  <2> SUFFICES ASSUME NEW k \in Sessions, NEW s \in Subjects, NEW x \in Contexts,
                      mapped'[k][s] = x
               PROVE  Placed(x, k, s)'
    BY Zenon DEF MapShape
  <2>1. ~(k = n /\ s = r)
    BY <1>12, MInvParts, Zenon DEF FInv
  <2>2. Placed(x, k, s)
    BY <1>11, <2>1, Zenon DEF FInv, MapShape
  <2>3. x # mapped[n][r]
    <3>1. x = mapped[n][r] => Placed(x, n, r)
      BY <1>4, <1>5, Zenon DEF FInv, MapShape
    <3> QED BY <2>1, <2>2, <3>1, Zenon DEF Placed
  <2> QED BY <1>10, <2>2, <2>3, Zenon DEF Placed, Runs
<1>14. PlaceShape'
  BY <1>10, PlaceKept DEF FInv
<1>15. session.pc # "off" => Current \in Sessions
  BY MInvParts DEF FInv
<1>16. SessionShape'
  <2>1. session.pc # "off" => mapped'[Current][Direct] = mapped[Current][Direct]
    BY <1>5, <1>11, <1>15, Zenon
  <2>2. session.pc \in {"loop", "active"} => session.pc # "off"
    BY SMT
  <2> QED BY <1>1, <2>1, <2>2, SessionKept, Zenon DEF FInv, SessionShape
<1>17. ASSUME NEW t \in Rooms PROVE Keeps(t)
  <2>1. CASE session.pc = "off"
    BY <1>1, <2>1, Zenon DEF Keeps, Good
  <2>2. CASE session.pc # "off"
    <3>1. mapped[Current][t] # Nothing => mapped'[Current][t] # Nothing \/ Left(t)
      BY <1>3, <1>5, <1>11, <1>15, <2>2, Zenon
    <3> QED BY <1>1, <3>1, EventsStay, GoodKept
  <2> QED BY <2>1, <2>2
<1> QED BY <1>10, <1>13, <1>14, <1>16, <1>17 DEF Follow

\* Every step.
LEMMA FollowStep ==
  ASSUME FInv, [Next]_vars
  PROVE  Follow
<1>1. ASSUME NEW e \in Events, NEW r \in Rooms,
             \/ JoinRoom(e, r) \/ LeaveRoom(e, r)
             \/ SendMessage(e, r) \/ UpdateRoom(e, r) \/ FanoutEnded(e, r)
      PROVE  Follow
  <2>1. UNCHANGED <<session, ctx, mapped>> /\ astray' = astray
    BY <1>1, Zenon DEF JoinRoom, LeaveRoom, SendMessage, UpdateRoom, FanoutEnded, RoomEvent
  <2> QED BY <2>1, QuietFollow
<1>2. ASSUME NEW e \in Events,
             Publish(e) \/ PublishFails(e) \/ Expire(e) \/ \E s \in Subjects : AckWait(s, e)
      PROVE  Follow
  <2>1. UNCHANGED <<session, ctx, mapped>>
    BY <1>2, Zenon DEF Publish, PublishFails, Expire, AckWait
  <2>2. CASE Publish(e)
    <3>1. astray \subseteq astray'
      BY <2>2, SMT DEF Publish
    <3> QED BY <2>1, <3>1, QuietFollow
  <2>3. CASE astray' = astray
    BY <2>1, <2>3, QuietFollow
  <2> QED BY <1>2, <2>2, <2>3, Zenon DEF PublishFails, Expire, AckWait
<1>3. ASSUME UNCHANGED vars PROVE Follow
  BY <1>3, QuietFollow, SMT DEF vars
<1>4. ASSUME NEW c \in Contexts, CallbackStep(c) PROVE Follow
  BY <1>4, CallbackFollow, ConsumeFollow, LeaveFollow, AckFollow, Zenon DEF CallbackStep
<1> QED BY <1>1, <1>2, <1>3, <1>4, SessionFollow, OpenFollow, CloseFollow, CrashFollow,
           DirectFollow, LoopFollow, TakeFollow, Zenon DEF Next

\* A RoomJoin goes with the membership, and a RoomLeave with its end.
LEMMA MembersKept ==
  ASSUME FInv, [Next]_vars
  PROVE  MembersShape'
<1>1. Settling
  BY EventsStay
<1>2. event \in [Events -> Event]
  BY Zenon DEF FInv, MInv, IInv, TypeOK
<1>3. ASSUME NEW x \in Events, NEW kind, NEW r, Dispatch(x, kind, r)
      PROVE  /\ event'[x].kind = kind /\ event'[x].room = r
             /\ \A e \in Events : e # x => event'[e] = event[e]
  BY <1>2, <1>3, SMT DEF Dispatch
<1>4. ASSUME members \subseteq members',
             \A e \in Events, r \in Rooms : Join(e, r)' => Join(e, r) \/ r \in members'
      PROVE  MembersShape'
  BY <1>1, <1>4, StaysLeft, Zenon DEF FInv, MembersShape
<1>5. ASSUME members' = members, event' = event PROVE MembersShape'
  BY <1>4, <1>5, Zenon DEF Join
<1>6. ASSUME NEW e \in Events, NEW r \in Rooms, JoinRoom(e, r) PROVE MembersShape'
  <2>1. Dispatch(e, "join", r) /\ members' = members \cup {r}
    BY <1>6, Zenon DEF JoinRoom
  <2>2. event'[e].room = r /\ \A x \in Events : x # e => event'[x] = event[x]
    BY <1>3, <2>1
  <2>3. members \subseteq members' /\ r \in members'
    BY <2>1, SMT
  <2>4. \A x \in Events, s \in Rooms : Join(x, s)' => Join(x, s) \/ s \in members'
    BY <2>2, <2>3, Zenon DEF Join
  <2> QED BY <1>4, <2>3, <2>4
<1>7. ASSUME NEW e \in Events, NEW r \in Rooms, LeaveRoom(e, r) PROVE MembersShape'
  <2>1. Dispatch(e, "leave", r) /\ members' = members \ {r}
    BY <1>7, Zenon DEF LeaveRoom
  <2>2. /\ event'[e].kind = "leave" /\ event'[e].room = r
        /\ \A x \in Events : x # e => event'[x] = event[x]
    BY <1>3, <2>1
  <2>3. Left(r)'
    BY <2>2, Zenon DEF Left
  <2> SUFFICES ASSUME NEW x \in Events, NEW s \in Rooms, Join(x, s)'
               PROVE  s \in members' \/ Left(s)'
    BY Zenon DEF MembersShape
  <2>4. Join(x, s)
    BY <2>2, SMT DEF Join
  <2>5. s \in members \/ Left(s)
    BY <2>4, Zenon DEF FInv, MembersShape
  <2>6. Left(s) => Left(s)'
    BY <1>1, StaysLeft
  <2> QED BY <2>1, <2>3, <2>5, <2>6, SMT
<1>8. ASSUME NEW e \in Events, NEW r \in Rooms,
             SendMessage(e, r) \/ UpdateRoom(e, r) \/ FanoutEnded(e, r)
      PROVE  MembersShape'
  <2>1. members' = members
    BY <1>8, Zenon DEF SendMessage, UpdateRoom, FanoutEnded, RoomEvent
  <2>2. PICK kind \in {"message", "update", "foreign"} : Dispatch(e, kind, r)
    BY <1>8, Zenon DEF SendMessage, UpdateRoom, FanoutEnded, RoomEvent
  <2>3. event'[e].kind # "join" /\ \A x \in Events : x # e => event'[x] = event[x]
    BY <1>3, <2>2, SMT
  <2>4. \A x \in Events, s \in Rooms : Join(x, s)' => Join(x, s) \/ s \in members'
    BY <2>3, Zenon DEF Join
  <2> QED BY <1>4, <2>1, <2>4
<1>9. ASSUME NEW e \in Events,
             Publish(e) \/ PublishFails(e) \/ Expire(e) \/ \E s \in Subjects : AckWait(s, e)
      PROVE  MembersShape'
  BY <1>5, <1>9, Zenon DEF Publish, PublishFails, Expire, AckWait, stream
<1>10. ASSUME NEW c \in Contexts, CallbackStep(c) PROVE MembersShape'
  BY <1>5, <1>10, Zenon DEF CallbackStep, SkipForeign, LookupFails, HandleJoin, ConsumeForJoin,
     SubscribeFails, Send, HandleLeave, Ack, stream
<1>11. CASE \/ \E only \in Rooms \cup {Nothing} : Open(only)
            \/ Activate \/ Disconnect \/ Close \/ Crash
            \/ \E d \in Contexts : SubscribeDirect(d)
            \/ \E r \in Rooms, d \in Contexts : SubscribeRoom(r, d)
            \/ \E c \in Contexts, e \in Events : Take(c, e)
            \/ UNCHANGED vars
  <2>1. members' = members /\ event' = event
    BY <1>11, Zenon DEF Open, Activate, Disconnect, Close, Crash, SubscribeDirect, SubscribeRoom,
       Take, stream, vars
  <2> QED BY <1>5, <2>1
<1> QED BY <1>6, <1>7, <1>8, <1>9, <1>10, <1>11, Zenon DEF Next

\* An event that a step sends is one a callback has, of a RoomJoin one it has handled.
LEMMA NewlySent ==
  ASSUME [Next]_vars, NEW e, e \in sent', e \notin sent
  PROVE  \E c \in Contexts : /\ e = ctx[c].event /\ ctx[c].pc # "idle"
                             /\ ctx[c].pc = "send" \/ event[e].kind # "join"
<1>1. ASSUME NEW c \in Contexts, Send(c) \/ HandleLeave(c)
      PROVE  /\ e = ctx[c].event /\ ctx[c].pc # "idle"
             /\ ctx[c].pc = "send" \/ event[e].kind # "join"
  <2>1. Delivered(ctx[c].event)
    BY <1>1, Zenon DEF Send, HandleLeave
  <2>2. e = ctx[c].event
    BY <2>1, SMT DEF Delivered
  <2>3. \/ ctx[c].pc = "send"
        \/ ctx[c].pc = "got" /\ Of(c).kind \in {"update", "message", "leave"}
    BY <1>1, SMT DEF Send, HandleLeave, At
  <2> QED BY <2>2, <2>3, SMT DEF Of
<1>2. \/ \E c \in Contexts : Send(c) \/ HandleLeave(c)
      \/ sent' = sent
  <2>1. ASSUME NEW c \in Contexts, CallbackStep(c)
        PROVE  Send(c) \/ HandleLeave(c) \/ sent' = sent
    BY <2>1, Zenon DEF CallbackStep, SkipForeign, LookupFails, HandleJoin, ConsumeForJoin,
       SubscribeFails, Ack
  <2>2. CASE \E x \in Events : \/ Publish(x) \/ PublishFails(x) \/ Expire(x)
                               \/ \E s \in Subjects : AckWait(s, x)
                               \/ \E c \in Contexts : Take(c, x)
    BY <2>2, Zenon DEF Publish, PublishFails, Expire, AckWait, Take
  <2>3. CASE \E x \in Events, r \in Rooms :
               \/ JoinRoom(x, r) \/ LeaveRoom(x, r)
               \/ SendMessage(x, r) \/ UpdateRoom(x, r) \/ FanoutEnded(x, r)
    BY <2>3, Zenon DEF JoinRoom, LeaveRoom, SendMessage, UpdateRoom, FanoutEnded, RoomEvent
  <2>4. CASE \/ \E only \in Rooms \cup {Nothing} : Open(only)
             \/ Activate \/ Disconnect \/ Close \/ Crash
             \/ \E d \in Contexts : SubscribeDirect(d)
             \/ \E r \in Rooms, d \in Contexts : SubscribeRoom(r, d)
             \/ UNCHANGED vars
    BY <2>4, Zenon DEF Open, Activate, Disconnect, Close, Crash, SubscribeDirect, SubscribeRoom,
       vars
  <2> QED BY <2>1, <2>2, <2>3, <2>4, Zenon DEF Next
<1> QED BY <1>1, <1>2, Zenon

\* A RoomJoin is sent after its room was subscribed, or had a reason not to be.
LEMMA SentKept ==
  ASSUME FInv, [Next]_vars, Follow
  PROVE  SentShape'
<1>1. Settling
  BY EventsStay
<1> SUFFICES ASSUME NEW e \in sent'
             PROVE  Dispatched(e)' /\ \A r \in Rooms : Join(e, r)' => Good(r)'
  BY Zenon DEF SentShape
<1>2. e \in Events /\ Dispatched(e) /\ \A r \in Rooms : Join(e, r) => Good(r)
  <2>1. CASE e \in sent
    <3>1. e \in Events
      BY <2>1, Zenon DEF FInv, MInv, IInv, TypeOK
    <3> QED BY <2>1, <3>1, Zenon DEF FInv, SentShape
  <2>2. CASE e \notin sent
    <3>1. PICK c \in Contexts : /\ e = ctx[c].event /\ ctx[c].pc # "idle"
                                /\ ctx[c].pc = "send" \/ event[e].kind # "join"
      BY <2>2, NewlySent
    <3>2. CallbackOf(c)
      BY <3>1, RunningCallback DEF FInv, MInv
    <3>3. e \in Events /\ Dispatched(e)
      BY <3>1, <3>2, Zenon DEF CallbackOf, FInv, MInv, IInv, EventShape
    <3>4. \A r \in Rooms : Join(e, r) => Good(r)
      BY <3>1, Zenon DEF FInv, HandledShape, Handled, Join
    <3> QED BY <3>3, <3>4
  <2> QED BY <2>1, <2>2
<1>3. event'[e] = event[e]
  BY <1>1, <1>2, Zenon DEF Settling
<1>4. \A r \in Rooms : Join(e, r)' => Good(r)'
  <2> SUFFICES ASSUME NEW r \in Rooms, Join(e, r)' PROVE Good(r)'
    OBVIOUS
  <2>1. Join(e, r)
    BY <1>3, Zenon DEF Join
  <2>2. r \in members \/ Left(r)
    BY <1>2, <2>1, Zenon DEF FInv, MembersShape
  <2> QED BY <1>2, <2>1, <2>2, Zenon DEF Follow, Keeps
<1>5. Dispatched(e)'
  BY <1>2, <1>3, Zenon DEF Dispatched
<1> QED BY <1>4, <1>5

\* An event is published by a worker; its subject's consumer has it then, if it exists.
LEMMA NewlyPublished ==
  ASSUME FInv, [Next]_vars, NEW e, e \in Published', e \notin Published
  PROVE  e \in Events /\ Publish(e)
<1>1. log \in Seq(Events)
  BY Zenon DEF FInv, MInv, IInv, TypeOK
<1>2. log' # log
  BY Zenon DEF Published
<1>3. PICK x \in Events : Publish(x)
  <2>1. ASSUME NEW c \in Contexts, CallbackStep(c) PROVE log' = log
    BY <2>1, Zenon DEF CallbackStep, SkipForeign, LookupFails, HandleJoin, ConsumeForJoin,
       SubscribeFails, Send, HandleLeave, Ack, stream
  <2>2. CASE \E x \in Events : \/ PublishFails(x) \/ Expire(x)
                               \/ \E s \in Subjects : AckWait(s, x)
                               \/ \E c \in Contexts : Take(c, x)
    BY <1>2, <2>2, Zenon DEF PublishFails, Expire, AckWait, Take, stream
  <2>3. CASE \E x \in Events, r \in Rooms :
               \/ JoinRoom(x, r) \/ LeaveRoom(x, r)
               \/ SendMessage(x, r) \/ UpdateRoom(x, r) \/ FanoutEnded(x, r)
    BY <1>2, <2>3, Zenon DEF JoinRoom, LeaveRoom, SendMessage, UpdateRoom, FanoutEnded, RoomEvent
  <2>4. CASE \/ \E only \in Rooms \cup {Nothing} : Open(only)
             \/ Activate \/ Disconnect \/ Close \/ Crash
             \/ \E d \in Contexts : SubscribeDirect(d)
             \/ \E r \in Rooms, d \in Contexts : SubscribeRoom(r, d)
             \/ UNCHANGED vars
    BY <1>2, <2>4, Zenon DEF Open, Activate, Disconnect, Close, Crash, SubscribeDirect,
       SubscribeRoom, stream, vars
  <2> QED BY <1>2, <2>1, <2>2, <2>3, <2>4, Zenon DEF Next
<1>4. log' = Append(log, x)
  BY <1>3, Zenon DEF Publish
<1>5. e = x
  BY <1>1, <1>4, SMT DEF Published
<1> QED BY <1>3, <1>5

\* A RoomJoin that is published waits for the session, unless the session has listed the
\* rooms and has no consumer yet, which is a reason not to follow the room.
LEMMA PublishedJoin ==
  ASSUME FInv, Follow, NEW e \in Events, NEW r \in Rooms, Publish(e), Join(e, r), r \in members
  PROVE  Good(r)' \/ Pending(e)'
<1>1. Subject(e) = Direct /\ Direct \in Subjects
  BY Zenon DEF Join, Subject, Subjects
<1>2. durable \in [Subjects -> Durable] /\ durable[Direct] \in Durable
  BY <1>1, Zenon DEF FInv, MInv, IInv, TypeOK
<1>3. CASE durable[Direct].exists
  <2> DEFINE old == Oldest(Direct)
             A == (durable[Direct].ready \ old) \cup {e}
             B == durable[Direct].out \ old
  <2>1. durable' = [durable EXCEPT ![Direct].ready = A, ![Direct].out = B]
    BY <1>1, <1>3, Zenon DEF Publish
  <2> HIDE DEF old, A, B
  <2>2. durable'[Direct].ready = A
    BY <1>1, <1>2, <2>1, SMT DEF Durable
  <2>3. e \in durable'[Direct].ready
    BY <2>2, SMT DEF A
  <2> QED BY <1>1, <2>3, Zenon DEF Pending
<1>4. CASE ~durable[Direct].exists
  <2>1. session.pc \in {"off", "direct"}
    BY <1>4, SMT DEF FInv, SessionShape, MInv, IInv, TypeOK, Session, SessionPc
  <2>2. CASE session.pc = "off"
    BY <2>2, Zenon DEF Good, Follow, Keeps
  <2>3. CASE session.pc = "direct"
    <3>1. r \in astray'
      BY <1>1, <1>4, <2>3, SMT DEF Publish, Join
    <3> QED BY <3>1, Zenon DEF Good, Covered
  <2> QED BY <2>1, <2>2, <2>3
<1> QED BY <1>3, <1>4

\* What was given up stays so.
LEMMA UnsentGrows ==
  ASSUME [Next]_vars
  PROVE  unsent \subseteq unsent'
<1>1. ASSUME NEW c \in Contexts, CallbackStep(c) PROVE unsent \subseteq unsent'
  <2>1. CASE Send(c) \/ HandleLeave(c)
    <3>1. Delivered(ctx[c].event)
      BY <2>1, Zenon DEF Send, HandleLeave
    <3> QED BY <3>1, SMT DEF Delivered
  <2>2. CASE LookupFails(c)
    BY <2>2, SMT DEF LookupFails
  <2>3. CASE unsent' = unsent
    BY <2>3, SMT
  <2> QED BY <1>1, <2>1, <2>2, <2>3, Zenon DEF CallbackStep, SkipForeign, HandleJoin,
             ConsumeForJoin, SubscribeFails, Ack
<1>2. ASSUME NEW e \in Events, Publish(e) PROVE unsent \subseteq unsent'
  BY <1>2, SMT DEF Publish
<1>3. ASSUME NEW e \in Events, Expire(e) PROVE unsent \subseteq unsent'
  BY <1>3, SMT DEF Expire
<1>4. CASE unsent' = unsent
  BY <1>4, SMT
<1>5. CASE \E x \in Events : \/ PublishFails(x) \/ \E s \in Subjects : AckWait(s, x)
                             \/ \E c \in Contexts : Take(c, x)
  BY <1>4, <1>5, Zenon DEF PublishFails, AckWait, Take
<1>6. CASE \E x \in Events, r \in Rooms :
             \/ JoinRoom(x, r) \/ LeaveRoom(x, r)
             \/ SendMessage(x, r) \/ UpdateRoom(x, r) \/ FanoutEnded(x, r)
  BY <1>4, <1>6, Zenon DEF JoinRoom, LeaveRoom, SendMessage, UpdateRoom, FanoutEnded, RoomEvent
<1>7. CASE \/ \E only \in Rooms \cup {Nothing} : Open(only)
           \/ Activate \/ Disconnect \/ Close \/ Crash
           \/ \E d \in Contexts : SubscribeDirect(d)
           \/ \E r \in Rooms, d \in Contexts : SubscribeRoom(r, d)
           \/ UNCHANGED vars
  BY <1>4, <1>7, Zenon DEF Open, Activate, Disconnect, Close, Crash, SubscribeDirect,
     SubscribeRoom, vars
<1> QED BY <1>1, <1>2, <1>3, <1>5, <1>6, <1>7, Zenon DEF Next

\* A member joins through JoinRoom.
LEMMA NewMember ==
  ASSUME [Next]_vars, NEW r \in members', r \notin members
  PROVE  \E e \in Events, s \in Rooms : JoinRoom(e, s)
<1>1. members' # members
  OBVIOUS
<1>2. ASSUME NEW c \in Contexts, CallbackStep(c) PROVE members' = members
  BY <1>2, Zenon DEF CallbackStep, SkipForeign, LookupFails, HandleJoin, ConsumeForJoin,
     SubscribeFails, Send, HandleLeave, Ack
<1>3. CASE \E x \in Events : \/ Publish(x) \/ PublishFails(x) \/ Expire(x)
                             \/ \E s \in Subjects : AckWait(s, x)
                             \/ \E c \in Contexts : Take(c, x)
  BY <1>1, <1>3, Zenon DEF Publish, PublishFails, Expire, AckWait, Take
<1>4. CASE \E x \in Events, s \in Rooms :
             SendMessage(x, s) \/ UpdateRoom(x, s) \/ FanoutEnded(x, s)
  BY <1>1, <1>4, Zenon DEF SendMessage, UpdateRoom, FanoutEnded, RoomEvent
<1>5. ASSUME NEW x \in Events, NEW s \in Rooms, LeaveRoom(x, s) PROVE FALSE
  BY <1>5, SMT DEF LeaveRoom
<1>6. CASE \/ \E only \in Rooms \cup {Nothing} : Open(only)
           \/ Activate \/ Disconnect \/ Close \/ Crash
           \/ \E d \in Contexts : SubscribeDirect(d)
           \/ \E s \in Rooms, d \in Contexts : SubscribeRoom(s, d)
           \/ UNCHANGED vars
  BY <1>1, <1>6, Zenon DEF Open, Activate, Disconnect, Close, Crash, SubscribeDirect,
     SubscribeRoom, vars
<1> QED BY <1>1, <1>2, <1>3, <1>4, <1>5, <1>6, Zenon DEF Next

\* Every room of the user is followed, or its RoomJoin is on its way or lost.
LEMMA RoomsKept ==
  ASSUME FInv, [Next]_vars, Follow, SentShape'
  PROVE  RoomsShape'
<1> SUFFICES ASSUME NEW r \in members'
             PROVE  Good(r)' \/ \E e \in Events : OnItsWay(e, r)'
  BY Zenon DEF RoomsShape
<1>1. Settling
  BY EventsStay
<1>2. IInv /\ IInv'
  BY Step DEF FInv, MInv
<1>3. r \in Rooms
  BY <1>2, SMT DEF IInv, TypeOK
<1>4. CASE r \in members /\ Good(r)
  BY <1>3, <1>4, Zenon DEF Follow, Keeps
<1>5. ASSUME r \in members, NEW e \in Events, OnItsWay(e, r)
      PROVE  Good(r)' \/ OnItsWay(e, r)'
  <2>1. Join(e, r) /\ Dispatched(e)
    BY <1>5, SMT DEF OnItsWay, Join, Dispatched
  <2>2. Join(e, r)'
    BY <1>1, <2>1, Zenon DEF Settling, Join
  <2>3. CASE e \in unsent
    <3>1. e \in unsent'
      BY <2>3, UnsentGrows
    <3> QED BY <2>2, <3>1, Zenon DEF OnItsWay, Lost
  <2>4. CASE e \notin Published
    <3>1. CASE e \notin Published'
      BY <2>2, <3>1, Zenon DEF OnItsWay, Lost
    <3>2. CASE e \in Published'
      <4>1. Publish(e)
        BY <2>4, <3>2, NewlyPublished
      <4> QED BY <1>3, <1>5, <2>1, <2>2, <4>1, PublishedJoin, Zenon DEF OnItsWay
    <3> QED BY <3>1, <3>2
  <2>5. CASE Pending(e)
    <3>1. CASE Pending(e)'
      BY <2>2, <3>1, Zenon DEF OnItsWay
    <3>2. CASE ~Pending(e)'
      <4>1. e \in sent' \cup unsent' \/ event[e].kind = "foreign"
        BY <1>2, <1>5, <2>5, <3>2, ReasonStep
      <4>2. CASE e \in unsent'
        BY <2>2, <4>2, Zenon DEF OnItsWay, Lost
      <4>3. CASE e \in sent'
        BY <1>3, <2>2, <4>3, Zenon DEF SentShape
      <4>4. event[e].kind # "foreign"
        BY <2>1, SMT DEF Join
      <4> QED BY <4>1, <4>2, <4>3, <4>4, Zenon
    <3> QED BY <3>1, <3>2
  <2> QED BY <1>5, <2>3, <2>4, <2>5, Zenon DEF OnItsWay, Lost
<1>6. CASE r \notin members
  <2>1. PICK e \in Events, s \in Rooms : JoinRoom(e, s)
    BY <1>6, NewMember
  <2>2. members' = members \cup {s} /\ Dispatch(e, "join", s) /\ log' = log
    BY <2>1, Zenon DEF JoinRoom
  <2>3. r = s
    BY <1>6, <2>2, SMT
  <2>4. Join(e, r)'
    BY <1>2, <2>2, <2>3, SMT DEF Dispatch, Join, IInv, TypeOK
  <2>5. event[e] = NoEvent
    BY <2>2, Zenon DEF Dispatch
  <2>6. ~Dispatched(e)
    BY <2>5, SMT DEF NoEvent, Dispatched
  <2>7. e \notin Published'
    BY <1>2, <2>2, <2>6, Zenon DEF IInv, EventShape, Published
  <2> QED BY <2>4, <2>7, Zenon DEF OnItsWay, Lost
<1> QED BY <1>4, <1>5, <1>6, Zenon DEF FInv, RoomsShape

\* Every step keeps the invariant.
LEMMA FollowKeeps == FInv /\ [Next]_vars => FInv'
<1> SUFFICES ASSUME FInv, [Next]_vars PROVE FInv'
  OBVIOUS
<1>1. MInv' /\ IInv'
  BY MapStep, Zenon DEF FInv, MInv
<1>2. Follow
  BY FollowStep
<1>3. Settling
  BY EventsStay
<1>4. HandledShape' /\ MembersShape' /\ SentShape'
  BY <1>1, <1>2, <1>3, HandledKept, MembersKept, SentKept
<1>5. RoomsShape'
  BY <1>2, <1>4, RoomsKept
<1> QED BY <1>1, <1>2, <1>4, <1>5 DEF Follow, FInv

\* A session that has come to rest consumes every room of the user, unless the RoomJoin
\* was lost, could not be acted upon or came too early, or the user has left the room.
THEOREM Follows == Spec => []FollowsItsRooms
<1>1. FInv => FollowsItsRooms
  <2> SUFFICES ASSUME FInv, AtRest, NEW r \in members
               PROVE  \/ mapped[Current][r] # Nothing
                      \/ r \in astray
                      \/ \E e \in Events :
                           /\ event[e].room = r
                           /\ event[e].kind = "leave" \/ (event[e].kind = "join" /\ Lost(e))
    BY Zenon DEF FollowsItsRooms
  <2>1. session.pc = "active" /\ session.pc # "off"
    BY SMT DEF AtRest
  <2>2. session.todo = {} /\ mapped[Current][Direct] # Nothing
    BY <2>1, Zenon DEF FInv, SessionShape
  <2>3. CASE Good(r)
    BY <2>1, <2>2, <2>3, Zenon DEF Good, Covered, Left
  <2>4. ASSUME NEW e \in Events, OnItsWay(e, r) PROVE Join(e, r) /\ Lost(e)
    <3>1. CASE Pending(e)
      <4>1. PICK s \in Subjects : e \in durable[s].ready \cup durable[s].out
        BY <3>1, Zenon DEF Pending
      <4>2. Subject(e) = s
        BY <4>1, Zenon DEF FInv, MInv, IInv, DurableShape
      <4>3. s = Direct
        BY <2>4, <4>2, Zenon DEF OnItsWay, Join, Subject
      <4> QED BY <2>2, <4>1, <4>3, SMT DEF AtRest
    <3> QED BY <2>4, <3>1, Zenon DEF OnItsWay
  <2> QED BY <2>3, <2>4, Zenon DEF FInv, RoomsShape, Join
<1> QED BY <1>1, FollowInit, FollowKeeps, PTL DEF Spec
================================================================================
