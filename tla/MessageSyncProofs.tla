--------------------------- MODULE MessageSyncProofs ---------------------------
(***************************************************************************)
(* MessageSync, for every number of rooms, messages and writers, every page *)
(* size and every resolution of the clock: its types, and that a client does *)
(* not fall behind for good.  IInv adds what is true of a reply on its way.  *)
(***************************************************************************)
EXTENDS MessageSync, TLAPS

\* A write that has begun has its message.
WriteShape == \A w \in Writers : write[w].kind # "none" => write[w].id \in Messages

\* SyncTimestamps do not run ahead of the clock, and do not go back.
TimeShape ==
  /\ since <= Seconds(clock)
  /\ sync.pc # "idle" => since <= Seconds(sync.now) /\ sync.now <= clock

\* What the client will be told with a reply whose messages are selected: what it will
\* not have of them afterwards is later than the timestamp it will get.
ReplyCatchesUp ==
  sync.pc = "reply" =>
    \A m \in Messages \ missed :
      /\ m \in sync.rows /\ Saved(m) /\ sync.copy[m] # msg[m].ver =>
           msg[m].updated > Seconds(sync.now)
      /\ m \notin sync.rows \cup sync.cut /\ MaySee(m) /\ Stale(m) =>
           msg[m].updated > Seconds(sync.now)

IInv == TypeOK /\ WriteShape /\ TimeShape /\ SyncCatchesUp /\ ReplyCatchesUp
------------------------------------------------------------------------------
\* A timestamp cut to the second.
LEMMA SecondsForm ==
  ASSUME NEW a \in Nat, NEW b \in Nat, a <= b
  PROVE  Seconds(a) \in Nat /\ Seconds(a) <= Seconds(b) /\ Seconds(a) <= a
<1> DEFINE T == TicksPerSecond
           q == a \div T
           r == b \div T
<1>1. T \in Nat /\ T > 0
  BY SyncAssumption
<1> HIDE DEF T
<1>2. q \in Nat /\ r \in Nat
  BY <1>1, SMT
<1>3. T * q <= a /\ b < T * (r + 1)
  BY <1>1, SMT
<1>4. q <= r
  <2> SUFFICES ASSUME r + 1 <= q PROVE FALSE
    BY <1>2, SMT
  <2> HIDE DEF q, r
  <2>1. T * (r + 1) <= T * q
    BY <1>1, <1>2, SMT
  <2> QED BY <1>1, <1>2, <1>3, <2>1, SMT
<1> HIDE DEF q, r
<1>5. T * q \in Nat /\ T * r \in Nat /\ T * q <= T * r
  BY <1>1, <1>2, <1>4, SMT
<1> QED BY <1>3, <1>5 DEF Seconds, T, q, r

\* The row after a write is a row, stamped by the write.
LEMMA WrittenForm ==
  ASSUME NEW x \in Write, x.kind # "none", x.id \in Messages, msg \in [Messages -> Message]
  PROVE  Written(x) \in Message /\ Written(x).updated = x.stamp
<1>1. x.kind \in {"save", "edit", "delete"} /\ x.stamp \in Nat /\ x.room \in Rooms \cup {NoRoom}
  BY SMT DEF Write
<1>2. msg[x.id] \in Message
  OBVIOUS
<1>3. CASE x.kind = "save"
  BY <1>1, <1>3, SMT DEF Written, Message, MsgState
<1>4. CASE x.kind = "edit"
  <2> DEFINE y == [msg[x.id] EXCEPT !.updated = x.stamp]
             n == msg[x.id].ver + 1
  <2>1. Written(x) = [y EXCEPT !.ver = n]
    BY <1>4, SMT DEF Written
  <2>2. y \in Message /\ y.updated = x.stamp /\ n \in Nat
    BY <1>1, <1>2, SMT DEF Message
  <2> HIDE DEF y, n
  <2> QED BY <2>1, <2>2, SMT DEF Message
<1>5. CASE x.kind = "delete"
  <2> DEFINE y == [msg[x.id] EXCEPT !.updated = x.stamp]
  <2>1. Written(x) = [y EXCEPT !.state = "deleted"]
    BY <1>5, SMT DEF Written
  <2>2. y \in Message /\ y.updated = x.stamp
    BY <1>1, <1>2, SMT DEF Message
  <2> HIDE DEF y
  <2> QED BY <2>1, <2>2, SMT DEF Message, MsgState
<1> QED BY <1>1, <1>3, <1>4, <1>5

\* What SyncStart and SyncQuery make of the call.
Asked(x, R, C, F) == [x EXCEPT !.pc = "reply", !.rows = R, !.cut = C, !.copy = F]
Begun(n) == [NoSync EXCEPT !.pc = "query", !.now = n]

\* The calls the model makes are calls.
LEMMA SyncForms ==
  /\ NoSync \in Sync
  /\ \A n \in Nat : Begun(n) \in Sync /\ Begun(n).pc = "query" /\ Begun(n).now = n
  /\ \A x \in Sync, R \in SUBSET Messages, C \in SUBSET Messages, F \in [Messages -> Nat] :
       /\ Asked(x, R, C, F) \in Sync /\ Asked(x, R, C, F).pc = "reply" /\ Asked(x, R, C, F).now = x.now
       /\ Asked(x, R, C, F).rows = R /\ Asked(x, R, C, F).cut = C /\ Asked(x, R, C, F).copy = F
<1>1. NoSync \in Sync
  <2>1. NoCopy \in [Messages -> Nat]
    BY SMT DEF NoCopy
  <2> QED BY <2>1, SMT DEF NoSync, Sync
<1>2. ASSUME NEW n \in Nat
      PROVE  Begun(n) \in Sync /\ Begun(n).pc = "query" /\ Begun(n).now = n
  <2> DEFINE y == [NoSync EXCEPT !.pc = "query"]
  <2>1. Begun(n) = [y EXCEPT !.now = n]
    BY SMT DEF Begun
  <2>2. y \in Sync /\ y.pc = "query"
    BY <1>1, SMT DEF Sync
  <2> HIDE DEF y
  <2> QED BY <2>1, <2>2, SMT DEF Sync
<1>3. ASSUME NEW x \in Sync, NEW R \in SUBSET Messages, NEW C \in SUBSET Messages,
             NEW F \in [Messages -> Nat]
      PROVE  /\ Asked(x, R, C, F) \in Sync /\ Asked(x, R, C, F).pc = "reply"
             /\ Asked(x, R, C, F).now = x.now
             /\ Asked(x, R, C, F).rows = R /\ Asked(x, R, C, F).cut = C /\ Asked(x, R, C, F).copy = F
  <2> DEFINE a == [x EXCEPT !.pc = "reply"]
             b == [a EXCEPT !.rows = R]
             c == [b EXCEPT !.cut = C]
             d == [c EXCEPT !.copy = F]
  <2>1. Asked(x, R, C, F) = d
    BY SMT DEF Asked
  <2>2. a \in Sync /\ a.pc = "reply" /\ a.now = x.now
    BY SMT DEF Sync
  <2> HIDE DEF a
  <2>3. b \in Sync /\ b.pc = "reply" /\ b.now = x.now /\ b.rows = R
    BY <2>2, SMT DEF Sync
  <2> HIDE DEF b
  <2>4. c \in Sync /\ c.pc = "reply" /\ c.now = x.now /\ c.rows = R /\ c.cut = C
    BY <2>3, SMT DEF Sync
  <2> HIDE DEF c
  <2>5. d \in Sync /\ d.pc = "reply" /\ d.now = x.now /\ d.rows = R /\ d.cut = C /\ d.copy = F
    BY <2>4, SMT DEF Sync
  <2> HIDE DEF d
  <2> QED BY <2>1, <2>5
<1> QED BY <1>1, <1>2, <1>3

\* Nobody has been sent anything at first, and there is nothing to send.
LEMMA InitInv == Init => IInv
<1> SUFFICES ASSUME Init PROVE IInv
  OBVIOUS
<1> USE SyncAssumption
<1>1. TypeOK
  <2>1. msg \in [Messages -> Message]
    BY SMT DEF Init, NoRow, Message, MsgState
  <2>2. write \in [Writers -> Write]
    BY SMT DEF Init, NoWrite, Write
  <2>3. sync \in Sync
    BY SyncForms, Zenon DEF Init
  <2>4. known \in [Messages -> Nat]
    BY SMT DEF Init, NoCopy
  <2> QED BY <2>1, <2>2, <2>3, <2>4, SMT DEF Init, TypeOK
<1>2. WriteShape
  BY SMT DEF Init, WriteShape, NoWrite
<1>3. sync.pc = "idle"
  BY SMT DEF Init, NoSync
<1>4. TimeShape
  <2>1. clock \in Nat /\ since = 0 /\ clock <= clock
    BY SMT DEF Init
  <2>2. Seconds(clock) \in Nat
    BY <2>1, SecondsForm
  <2> QED BY <1>3, <2>1, <2>2, SMT DEF TimeShape
<1>5. SyncCatchesUp
  BY SMT DEF Init, SyncCatchesUp, MaySee, Saved, NoRow
<1>6. ReplyCatchesUp
  BY <1>3, SMT DEF ReplyCatchesUp
<1> QED BY <1>1, <1>2, <1>4, <1>5, <1>6 DEF IInv
------------------------------------------------------------------------------
\* CommitWrite: one row changes, and its message is missed unless its stamp is still to be found.
LEMMA CommitEffect ==
  ASSUME IInv, NEW w \in Writers, CommitWrite(w)
  PROVE  /\ write[w].id \in Messages /\ write[w].stamp \in Nat
         /\ Written(write[w]) \in Message
         /\ msg' = [msg EXCEPT ![write[w].id] = Written(write[w])]
         /\ msg'[write[w].id].updated = write[w].stamp
         /\ msg'[write[w].id].state = Written(write[w]).state
         /\ \A m \in Messages \ {write[w].id} : msg'[m] = msg[m]
         /\ \A m \in Messages : m \in missed => m \in missed' \/ m = write[w].id
         /\ Written(write[w]).state = "deleted" \/ write[w].id \in missed'
                                             \/ ~(write[w].stamp <= Horizon)
<1>1. msg \in [Messages -> Message] /\ write[w] \in Write /\ write[w].kind # "none"
  BY SMT DEF IInv, TypeOK, CommitWrite
<1>2. write[w].id \in Messages /\ write[w].stamp \in Nat
  BY <1>1, SMT DEF IInv, WriteShape, Write
<1>3. Written(write[w]) \in Message /\ Written(write[w]).updated = write[w].stamp
  BY <1>1, <1>2, WrittenForm
<1>4. msg' = [msg EXCEPT ![write[w].id] = Written(write[w])]
  BY Zenon DEF CommitWrite
<1> DEFINE y == Written(write[w])
<1>5. missed' = IF y.state = "deleted" THEN missed \ {write[w].id}
                ELSE IF write[w].stamp <= Horizon THEN missed \cup {write[w].id} ELSE missed
  BY Zenon DEF CommitWrite
<1> HIDE DEF y
<1>6. /\ \A m \in Messages : m \in missed => m \in missed' \/ m = write[w].id
      /\ y.state = "deleted" \/ write[w].id \in missed' \/ ~(write[w].stamp <= Horizon)
  BY <1>5, SMT
<1>7. /\ msg'[write[w].id].updated = write[w].stamp
      /\ msg'[write[w].id].state = y.state
      /\ \A m \in Messages \ {write[w].id} : msg'[m] = msg[m]
  BY <1>1, <1>2, <1>3, <1>4, SMT DEF y
<1> QED BY <1>2, <1>3, <1>4, <1>6, <1>7, Zenon DEF y

\* The three ways a write begins, with its message.
LEMMA BeginEffect ==
  ASSUME IInv, NEW w \in Writers, NEW m \in Messages,
         \/ \E r \in Rooms : BeginSave(w, m, r)
         \/ BeginEdit(w, m) \/ BeginDelete(w, m)
  PROVE  /\ write' \in [Writers -> Write] /\ WriteShape'
         /\ UNCHANGED <<clock, member, msg, sync, since, known, missed>>
<1>1. /\ write \in [Writers -> Write] /\ clock \in Nat /\ msg[m].room \in Rooms \cup {NoRoom}
  BY SMT DEF IInv, TypeOK, Message
<1>2. UNCHANGED <<clock, member, msg, sync, since, known, missed>>
  BY Zenon DEF BeginSave, BeginEdit, BeginDelete
<1>3. PICK x \in Write : x.id = m /\ write' = [write EXCEPT ![w] = x]
  <2>1. /\ \A r \in Rooms : [kind |-> "save", id |-> m, room |-> r, stamp |-> clock] \in Write
        /\ [kind |-> "edit", id |-> m, room |-> msg[m].room, stamp |-> clock] \in Write
        /\ [kind |-> "delete", id |-> m, room |-> msg[m].room, stamp |-> clock] \in Write
    BY <1>1, SMT DEF Write
  <2> QED BY <2>1, SMT DEF BeginSave, BeginEdit, BeginDelete
<1>4. write' \in [Writers -> Write]
  BY <1>1, <1>3, SMT
<1>5. WriteShape'
  BY <1>1, <1>3, SMT DEF IInv, WriteShape
<1> QED BY <1>2, <1>4, <1>5

\* The write that ends leaves its writer with none.
LEMMA EndEffect ==
  ASSUME IInv, NEW w \in Writers, write' = [write EXCEPT ![w] = NoWrite]
  PROVE  write' \in [Writers -> Write] /\ WriteShape'
<1>1. NoWrite \in Write /\ NoWrite.kind = "none"
  BY SMT DEF NoWrite, Write
<1> QED BY <1>1, SMT DEF IInv, TypeOK, WriteShape

\* SyncQuery: a part of the matching messages is selected, with their contents.
LEMMA QueryEffect ==
  ASSUME IInv, SyncQuery
  PROVE  \E R \in SUBSET Matching :
           /\ sync' \in Sync /\ sync'.pc = "reply" /\ sync'.now = sync.now
           /\ sync'.rows = R /\ sync'.cut = Matching \ R
           /\ \A m \in R : sync'.copy[m] = msg[m].ver
<1>1. PICK R \in SUBSET Matching :
        sync' = Asked(sync, R, Matching \ R, [m \in Messages |-> IF m \in R THEN msg[m].ver ELSE 0])
  BY Zenon DEF SyncQuery, Asked
<1> DEFINE F == [m \in Messages |-> IF m \in R THEN msg[m].ver ELSE 0]
<1>2. F \in [Messages -> Nat]
  BY SMT DEF IInv, TypeOK, Message
<1>3. Matching \subseteq Messages
  BY SMT DEF Matching
<1>4. \A m \in R : F[m] = msg[m].ver
  BY <1>3, SMT
<1> HIDE DEF F
<1>5. R \in SUBSET Messages /\ Matching \ R \in SUBSET Messages
  BY <1>3, SMT
<1>6. sync \in Sync
  BY SMT DEF IInv, TypeOK
<1>7. sync' = Asked(sync, R, Matching \ R, F)
  BY <1>1 DEF F
<1>8. /\ sync' \in Sync /\ sync'.pc = "reply" /\ sync'.now = sync.now
      /\ sync'.rows = R /\ sync'.cut = Matching \ R /\ sync'.copy = F
  <2> DEFINE C == Matching \ R
  <2>1. R \in SUBSET Messages /\ C \in SUBSET Messages /\ sync' = Asked(sync, R, C, F)
    BY <1>5, <1>7
  <2> HIDE DEF C
  <2>2. /\ sync' \in Sync /\ sync'.pc = "reply" /\ sync'.now = sync.now
        /\ sync'.rows = R /\ sync'.cut = C /\ sync'.copy = F
    BY <1>2, <1>6, <2>1, SyncForms
  <2> QED BY <2>2 DEF C
<1> QED BY <1>4, <1>8

\* SyncReply: a message the client does not have afterwards, and does not miss for a reason, was
\* either selected in an older content or not selected at all.
LEMMA ReplyEffect ==
  ASSUME IInv, SyncReply
  PROVE  /\ known' \in [Messages -> Nat] /\ since' = Seconds(sync.now)
         /\ missed' \subseteq Messages /\ sync' = NoSync
         /\ UNCHANGED <<clock, member, msg, write>>
         /\ \A m \in Messages \ missed' :
              Saved(m) /\ known'[m] # msg[m].ver =>
                /\ m \notin missed
                /\ m \in sync.rows => known'[m] = sync.copy[m]
                /\ m \notin sync.rows => m \notin sync.cut /\ known'[m] = known[m]
<1>1. /\ known \in [Messages -> Nat] /\ sync \in Sync /\ missed \subseteq Messages
      /\ sync.copy \in [Messages -> Nat] /\ sync.cut \subseteq Messages
  BY SMT DEF IInv, TypeOK, Sync
<1>2. known' = [m \in Messages |-> IF m \in sync.rows THEN sync.copy[m] ELSE known[m]]
  BY Zenon DEF SyncReply
<1>3. missed' = {m \in (missed \ UpToDate) \cup sync.cut : Saved(m)}
  BY Zenon DEF SyncReply
<1>4. since' = Seconds(sync.now) /\ sync' = NoSync /\ UNCHANGED <<clock, member, msg, write>>
  BY Zenon DEF SyncReply, db
<1>5. known' \in [Messages -> Nat]
  BY <1>1, <1>2, SMT
<1>6. missed' \subseteq Messages
  BY <1>1, <1>3, SMT
<1>7. ASSUME NEW m \in Messages \ missed', Saved(m), known'[m] # msg[m].ver
      PROVE  /\ m \notin missed
             /\ m \in sync.rows => known'[m] = sync.copy[m]
             /\ m \notin sync.rows => m \notin sync.cut /\ known'[m] = known[m]
  BY <1>2, <1>3, <1>7, SMT DEF UpToDate
<1> QED BY <1>4, <1>5, <1>6, <1>7

------------------------------------------------------------------------------
\* Every step keeps the types.
LEMMA TypeStep == IInv /\ [Next]_vars => TypeOK' /\ WriteShape'
<1> SUFFICES ASSUME IInv, [Next]_vars PROVE TypeOK' /\ WriteShape'
  OBVIOUS
<1> USE SyncAssumption
<1>0. TypeOK /\ WriteShape
  BY DEF IInv
<1>1. CASE Tick
  BY <1>0, <1>1, SMT DEF Tick, TypeOK, WriteShape
<1>2. ASSUME NEW w \in Writers, NEW m \in Messages,
             \/ \E r \in Rooms : BeginSave(w, m, r)
             \/ BeginEdit(w, m) \/ BeginDelete(w, m)
      PROVE  TypeOK' /\ WriteShape'
  BY <1>0, <1>2, BeginEffect, SMT DEF TypeOK
<1>3. ASSUME NEW w \in Writers, CommitWrite(w)
      PROVE  TypeOK' /\ WriteShape'
  <2>1. write' = [write EXCEPT ![w] = NoWrite] /\ UNCHANGED <<clock, member, sync, since, known>>
    BY <1>3, Zenon DEF CommitWrite
  <2>2. msg' \in [Messages -> Message]
    BY <1>0, <1>3, CommitEffect, SMT DEF TypeOK
  <2>3. missed' \subseteq Messages
    <3>1. write[w].id \in Messages
      BY <1>3, CommitEffect
    <3>2. \/ missed' = missed \ {write[w].id} \/ missed' = missed \cup {write[w].id}
          \/ missed' = missed
      BY <1>3, Zenon DEF CommitWrite
    <3> QED BY <1>0, <3>1, <3>2, SMT DEF TypeOK
  <2>4. write' \in [Writers -> Write] /\ WriteShape'
    BY <2>1, EndEffect
  <2> QED BY <1>0, <2>1, <2>2, <2>3, <2>4, SMT DEF TypeOK
<1>4. ASSUME NEW w \in Writers, AbortWrite(w)
      PROVE  TypeOK' /\ WriteShape'
  <2>1. /\ write' = [write EXCEPT ![w] = NoWrite]
        /\ UNCHANGED <<clock, member, msg, sync, since, known, missed>>
    BY <1>4, Zenon DEF AbortWrite
  <2>2. write' \in [Writers -> Write] /\ WriteShape'
    BY <2>1, EndEffect
  <2> QED BY <1>0, <2>1, <2>2, SMT DEF TypeOK
<1>5. ASSUME NEW r \in Rooms, Leave(r) \/ Join(r)
      PROVE  TypeOK' /\ WriteShape'
  BY <1>0, <1>5, SMT DEF Leave, Join, TypeOK, WriteShape
<1>6. CASE SyncStart
  <2>1. sync' = Begun(clock) /\ UNCHANGED <<clock, member, msg, write, since, known, missed>>
    BY <1>6, Zenon DEF SyncStart, Begun, db
  <2>2. sync' \in Sync
    BY <1>0, <2>1, SyncForms DEF TypeOK
  <2> QED BY <1>0, <2>1, <2>2, SMT DEF TypeOK, WriteShape
<1>7. CASE SyncQuery
  <2>1. UNCHANGED <<clock, member, msg, write, since, known, missed>>
    BY <1>7, Zenon DEF SyncQuery, db
  <2>2. sync' \in Sync
    BY <1>7, QueryEffect
  <2> QED BY <1>0, <2>1, <2>2, SMT DEF TypeOK, WriteShape
<1>8. CASE SyncReply
  <2>1. Seconds(sync.now) \in Nat
    <3>1. sync.now \in Nat /\ sync.now <= sync.now
      BY <1>0, SMT DEF TypeOK, Sync
    <3> QED BY <3>1, SecondsForm
  <2>2. NoSync \in Sync
    BY SyncForms
  <2>3. Seconds(sync.now) <= clock
    <3>1. sync.pc # "idle"
      BY <1>8, Zenon DEF SyncReply
    <3>2. sync.now <= clock
      BY <3>1, Zenon DEF IInv, TimeShape
    <3>3. sync.now \in Nat /\ clock \in Nat
      BY <1>0, SMT DEF TypeOK, Sync
    <3>4. Seconds(sync.now) <= sync.now
      BY <3>2, <3>3, SecondsForm
    <3> QED BY <2>1, <3>2, <3>3, <3>4, SMT
  <2> QED BY <1>0, <1>8, <2>1, <2>2, <2>3, ReplyEffect, SMT DEF TypeOK, WriteShape
<1>9. CASE SyncFails
  <2>1. sync' = NoSync /\ UNCHANGED <<clock, member, msg, write, since, known, missed>>
    BY <1>9, Zenon DEF SyncFails, db
  <2>2. NoSync \in Sync
    BY SyncForms
  <2> QED BY <1>0, <2>1, <2>2, SMT DEF TypeOK, WriteShape
<1>10. CASE UNCHANGED vars
  BY <1>0, <1>10, SMT DEF vars, TypeOK, WriteShape
<1> QED BY <1>1, <1>2, <1>3, <1>4, <1>5, <1>6, <1>7, <1>8, <1>9, <1>10 DEF Next, BeginReact

\* The clock runs, and a timestamp that is handed out is one of a call that started before.
LEMMA TimeStep == IInv /\ [Next]_vars => TimeShape'
<1> SUFFICES ASSUME IInv, [Next]_vars PROVE TimeShape'
  OBVIOUS
<1>0. /\ TimeShape /\ clock \in Nat /\ since \in Nat /\ sync.now \in Nat
      /\ sync.pc \in {"idle", "query", "reply"}
  BY SMT DEF IInv, TypeOK, Sync
<1>1. /\ Seconds(clock) \in Nat /\ Seconds(clock + 1) \in Nat /\ Seconds(sync.now) \in Nat
      /\ Seconds(clock) <= Seconds(clock + 1)
  <2>1. clock + 1 \in Nat /\ clock <= clock + 1 /\ sync.now <= sync.now
    BY <1>0, SMT
  <2> QED BY <1>0, <2>1, SecondsForm
<1>2. CASE Tick
  <2>1. clock' = clock + 1 /\ UNCHANGED <<since, sync>>
    BY <1>2, Zenon DEF Tick
  <2> QED BY <1>0, <1>1, <2>1, SMT DEF TimeShape
<1>3. CASE UNCHANGED <<clock, since, sync>>
  BY <1>0, <1>3, SMT DEF TimeShape
<1>4. CASE SyncStart
  <2>1. sync' = Begun(clock) /\ UNCHANGED <<clock, since>>
    BY <1>4, Zenon DEF SyncStart, Begun, db
  <2>2. sync'.now = clock
    BY <1>0, <2>1, SyncForms
  <2> QED BY <1>0, <2>1, <2>2, SMT DEF TimeShape
<1>5. CASE SyncQuery
  <2>1. UNCHANGED <<clock, since>> /\ sync.pc = "query"
    BY <1>5, Zenon DEF SyncQuery, db
  <2>2. sync'.now = sync.now
    BY <1>5, QueryEffect
  <2> QED BY <1>0, <2>1, <2>2, SMT DEF TimeShape
<1>6. CASE SyncReply
  <2>1. since' = Seconds(sync.now) /\ sync' = NoSync /\ UNCHANGED clock /\ sync.pc = "reply"
    BY <1>6, Zenon DEF SyncReply, db
  <2>2. sync'.pc = "idle"
    BY <2>1, SMT DEF NoSync
  <2>3. Seconds(sync.now) <= Seconds(clock)
    <3>1. sync.now <= clock
      BY <1>0, <2>1, SMT DEF TimeShape
    <3> QED BY <1>0, <3>1, SecondsForm
  <2> QED BY <2>1, <2>2, <2>3, SMT DEF TimeShape
<1>7. CASE SyncFails
  <2>1. sync' = NoSync /\ UNCHANGED <<clock, since>>
    BY <1>7, Zenon DEF SyncFails, db
  <2>2. sync'.pc = "idle"
    BY <2>1, SMT DEF NoSync
  <2> QED BY <1>0, <2>1, <2>2, SMT DEF TimeShape
<1>8. \/ Tick \/ SyncStart \/ SyncQuery \/ SyncReply \/ SyncFails
      \/ UNCHANGED <<clock, since, sync>>
  BY Zenon DEF Next, vars, BeginSave, BeginEdit, BeginReact, BeginDelete, CommitWrite, AbortWrite,
     Leave, Join
<1> QED BY <1>2, <1>3, <1>4, <1>5, <1>6, <1>7, <1>8
------------------------------------------------------------------------------
\* The timestamp of the client is not after the one it is about to get.
LEMMA HorizonForm ==
  ASSUME IInv
  PROVE  /\ since \in Nat /\ Horizon \in Nat /\ since <= Horizon
         /\ sync.pc = "reply" => Horizon = Seconds(sync.now)
         /\ \A m \in Messages : msg[m].updated \in Nat
<1>1. sync.now \in Nat /\ sync.now <= sync.now /\ since \in Nat
  BY SMT DEF IInv, TypeOK, Sync
<1>2. Seconds(sync.now) \in Nat
  BY <1>1, SecondsForm
<1>3. \A m \in Messages : msg[m].updated \in Nat
  BY SMT DEF IInv, TypeOK, Message
<1> QED BY <1>1, <1>2, <1>3, SMT DEF IInv, TimeShape, Horizon

\* A write is found by the next sync if its stamp is later than the horizon.
LEMMA CommitCatches ==
  ASSUME IInv, NEW w \in Writers, CommitWrite(w)
  PROVE  SyncCatchesUp' /\ ReplyCatchesUp'
<1> DEFINE x == write[w].id
           t == write[w].stamp
<1>1. /\ x \in Messages /\ t \in Nat
      /\ msg'[x].updated = t
      /\ \A m \in Messages \ {x} : msg'[m] = msg[m]
      /\ \A m \in Messages : m \in missed => m \in missed' \/ m = x
      /\ msg'[x].state = "deleted" \/ x \in missed' \/ ~(t <= Horizon)
  BY CommitEffect, Zenon
<1>2. UNCHANGED <<clock, member, sync, since, known>>
  BY Zenon DEF CommitWrite
<1> HIDE DEF x, t
<1>3. /\ since \in Nat /\ Horizon \in Nat /\ since <= Horizon
      /\ sync.pc = "reply" => Horizon = Seconds(sync.now)
  BY HorizonForm
<1>4. SyncCatchesUp /\ ReplyCatchesUp
  BY DEF IInv
<1>5. SyncCatchesUp'
  <2> SUFFICES ASSUME NEW m \in Messages, m \notin missed', MaySee(m)', Stale(m)'
               PROVE  msg'[m].updated > since'
    BY Zenon DEF SyncCatchesUp
  <2>1. CASE m = x
    BY <1>1, <1>2, <1>3, <2>1, SMT DEF MaySee, Saved
  <2>2. CASE m # x
    BY <1>1, <1>2, <1>4, <2>2, SMT DEF SyncCatchesUp, MaySee, Saved, Stale
  <2> QED BY <2>1, <2>2
<1>6. ReplyCatchesUp'
  <2> SUFFICES ASSUME sync'.pc = "reply", NEW m \in Messages, m \notin missed', Saved(m)',
                      \/ m \in sync'.rows /\ sync'.copy[m] # msg'[m].ver
                      \/ m \notin sync'.rows \cup sync'.cut /\ MaySee(m)' /\ Stale(m)'
               PROVE  msg'[m].updated > Seconds(sync'.now)
    BY Zenon DEF ReplyCatchesUp, MaySee, Seconds
  <2>1. CASE m = x
    BY <1>1, <1>2, <1>3, <2>1, SMT DEF Saved
  <2>2. CASE m # x
    BY <1>1, <1>2, <1>4, <2>2, SMT DEF ReplyCatchesUp, MaySee, Saved, Stale
  <2> QED BY <2>1, <2>2
<1> QED BY <1>5, <1>6

\* A joined room shows no message that is before the horizon and not missed.
LEMMA JoinCatches ==
  ASSUME IInv, NEW r \in Rooms, Join(r)
  PROVE  SyncCatchesUp' /\ ReplyCatchesUp'
<1>1. /\ UNCHANGED <<clock, msg, write, sync, since, known>>
      /\ member' = member \cup {r}
      /\ \A m \in Messages : m \notin missed' =>
           m \notin missed /\ (/\ Saved(m) /\ msg[m].room = r /\ Stale(m)
                               => ~(msg[m].updated <= Horizon))
  BY SMT DEF Join
<1>2. /\ since \in Nat /\ Horizon \in Nat /\ since <= Horizon
      /\ sync.pc = "reply" => Horizon = Seconds(sync.now)
      /\ \A m \in Messages : msg[m].updated \in Nat
  BY HorizonForm
<1>3. SyncCatchesUp /\ ReplyCatchesUp
  BY DEF IInv
<1>4. SyncCatchesUp'
  BY <1>1, <1>2, <1>3, SMT DEF SyncCatchesUp, MaySee, Saved, Stale
<1>5. ReplyCatchesUp'
  <2> SUFFICES ASSUME sync.pc = "reply" PROVE ReplyCatchesUp'
    BY <1>1 DEF ReplyCatchesUp
  <2> DEFINE t == Seconds(sync.now)
  <2>1. Seconds(sync.now)' = t /\ Horizon = t
    BY <1>1, <1>2, Zenon DEF Seconds
  <2>2. /\ \A m \in Messages \ missed :
             /\ m \in sync.rows /\ Saved(m) /\ sync.copy[m] # msg[m].ver => msg[m].updated > t
             /\ m \notin sync.rows \cup sync.cut /\ MaySee(m) /\ Stale(m) => msg[m].updated > t
    BY <1>3, Zenon DEF ReplyCatchesUp
  <2> HIDE DEF t
  <2>3. \A m \in Messages \ missed' :
             /\ m \in sync'.rows /\ Saved(m)' /\ sync'.copy[m] # msg'[m].ver => msg'[m].updated > t
             /\ m \notin sync'.rows \cup sync'.cut /\ MaySee(m)' /\ Stale(m)' => msg'[m].updated > t
    BY <1>1, <1>2, <2>1, <2>2, SMT DEF MaySee, Saved, Stale
  <2> QED BY <2>1, <2>3, Zenon DEF ReplyCatchesUp
<1> QED BY <1>4, <1>5

\* What matches is selected or cut, and what does not is what the client has.
LEMMA QueryCatches ==
  ASSUME IInv, SyncQuery
  PROVE  SyncCatchesUp' /\ ReplyCatchesUp'
<1>1. UNCHANGED <<clock, member, msg, write, since, known, missed>>
  BY Zenon DEF SyncQuery, db
<1>2. PICK R \in SUBSET Matching :
        /\ sync'.rows = R /\ sync'.cut = Matching \ R
        /\ \A m \in R : sync'.copy[m] = msg[m].ver
  BY QueryEffect
<1>3. SyncCatchesUp
  BY DEF IInv
<1>4. SyncCatchesUp'
  BY <1>1, <1>3, SMT DEF SyncCatchesUp, MaySee, Saved, Stale
<1>5. \A m \in Messages \ missed' :
        /\ m \in sync'.rows => sync'.copy[m] = msg'[m].ver
        /\ ~(m \notin sync'.rows \cup sync'.cut /\ MaySee(m)' /\ Stale(m)')
  <2>1. \A m \in Messages \ missed : MaySee(m) /\ Stale(m) => m \in Matching
    BY <1>3, Zenon DEF SyncCatchesUp, Matching
  <2> QED BY <1>1, <1>2, <2>1, SMT DEF MaySee, Saved, Stale
<1>6. ReplyCatchesUp'
  BY <1>5, Zenon DEF ReplyCatchesUp
<1> QED BY <1>4, <1>6

\* The timestamp of the reply takes over from the one before.
LEMMA ReplyCatches ==
  ASSUME IInv, SyncReply
  PROVE  SyncCatchesUp' /\ ReplyCatchesUp'
<1>1. /\ since' = Seconds(sync.now) /\ sync' = NoSync
      /\ UNCHANGED <<member, msg>>
      /\ \A m \in Messages \ missed' :
           Saved(m) /\ known'[m] # msg[m].ver =>
             /\ m \notin missed
             /\ m \in sync.rows => known'[m] = sync.copy[m]
             /\ m \notin sync.rows => m \notin sync.cut /\ known'[m] = known[m]
  BY ReplyEffect, Zenon
<1>2. ReplyCatchesUp /\ sync.pc = "reply"
  BY Zenon DEF IInv, SyncReply
<1> DEFINE t == Seconds(sync.now)
<1>3. \A m \in Messages \ missed :
        /\ m \in sync.rows /\ Saved(m) /\ sync.copy[m] # msg[m].ver => msg[m].updated > t
        /\ m \notin sync.rows \cup sync.cut /\ MaySee(m) /\ Stale(m) => msg[m].updated > t
  BY <1>2, Zenon DEF ReplyCatchesUp
<1>4. since' = t
  BY <1>1
<1> HIDE DEF t
<1>5. SyncCatchesUp'
  <2> SUFFICES ASSUME NEW m \in Messages \ missed', MaySee(m)', Stale(m)'
               PROVE  msg[m].updated > t
    BY <1>1, <1>4, Zenon DEF SyncCatchesUp
  <2>1. Saved(m) /\ MaySee(m) /\ known'[m] # msg[m].ver
    BY <1>1, Zenon DEF MaySee, Saved, Stale
  <2>2. CASE m \in sync.rows
    <3>1. sync.copy[m] # msg[m].ver /\ m \notin missed
      BY <1>1, <2>1, <2>2, Zenon
    <3> QED BY <1>3, <2>1, <2>2, <3>1, Zenon
  <2>3. CASE m \notin sync.rows
    <3>1. m \notin sync.rows \cup sync.cut /\ Stale(m) /\ m \notin missed
      BY <1>1, <2>1, <2>3, Zenon DEF Stale
    <3> QED BY <1>3, <2>1, <3>1, Zenon
  <2> QED BY <2>2, <2>3
<1>6. ReplyCatchesUp'
  <2>1. sync'.pc = "idle"
    BY <1>1, SMT DEF NoSync
  <2> QED BY <2>1 DEF ReplyCatchesUp
<1> QED BY <1>5, <1>6

\* No step leaves the client behind for good.
LEMMA CatchStep == IInv /\ [Next]_vars => SyncCatchesUp' /\ ReplyCatchesUp'
<1> SUFFICES ASSUME IInv, [Next]_vars PROVE SyncCatchesUp' /\ ReplyCatchesUp'
  OBVIOUS
<1>0. SyncCatchesUp /\ ReplyCatchesUp
  BY DEF IInv
<1>1. CASE UNCHANGED <<member, msg, sync, since, known, missed>>
  BY <1>0, <1>1, Zenon DEF SyncCatchesUp, ReplyCatchesUp, MaySee, Saved, Stale, Seconds
<1>2. ASSUME NEW w \in Writers, CommitWrite(w) PROVE SyncCatchesUp' /\ ReplyCatchesUp'
  BY <1>2, CommitCatches
<1>3. ASSUME NEW r \in Rooms, Leave(r) PROVE SyncCatchesUp' /\ ReplyCatchesUp'
  <2>1. UNCHANGED <<msg, sync, since, known, missed>> /\ member' \subseteq member
    BY <1>3, SMT DEF Leave
  <2>2. \A m : MaySee(m)' => MaySee(m)
    BY <2>1, Zenon DEF MaySee, Saved
  <2> QED BY <1>0, <2>1, <2>2, Zenon DEF SyncCatchesUp, ReplyCatchesUp, Saved, Stale, Seconds
<1>4. ASSUME NEW r \in Rooms, Join(r) PROVE SyncCatchesUp' /\ ReplyCatchesUp'
  BY <1>4, JoinCatches
<1>5. CASE SyncStart \/ SyncFails
  <2>1. UNCHANGED <<member, msg, since, known, missed>>
    BY <1>5, Zenon DEF SyncStart, SyncFails, db
  <2>2. sync'.pc # "reply"
    <3>1. CASE SyncStart
      <4>1. sync' = Begun(clock) /\ clock \in Nat
        BY <3>1, Zenon DEF SyncStart, Begun, IInv, TypeOK
      <4>2. sync'.pc = "query"
        BY <4>1, SyncForms
      <4> QED BY <4>2
    <3>2. CASE SyncFails
      BY <3>2, SMT DEF SyncFails, NoSync
    <3> QED BY <1>5, <3>1, <3>2
  <2>3. ReplyCatchesUp'
    BY <2>2 DEF ReplyCatchesUp
  <2>4. SyncCatchesUp'
    BY <1>0, <2>1, Zenon DEF SyncCatchesUp, MaySee, Saved, Stale
  <2> QED BY <2>3, <2>4
<1>6. CASE SyncQuery
  BY <1>6, QueryCatches
<1>7. CASE SyncReply
  BY <1>7, ReplyCatches
<1>8. \/ UNCHANGED <<member, msg, sync, since, known, missed>>
      \/ \E w \in Writers : CommitWrite(w)
      \/ \E r \in Rooms : Leave(r) \/ Join(r)
      \/ SyncStart \/ SyncFails \/ SyncQuery \/ SyncReply
  BY Zenon DEF Next, vars, Tick, BeginSave, BeginEdit, BeginReact, BeginDelete, AbortWrite
<1> QED BY <1>1, <1>2, <1>3, <1>4, <1>5, <1>6, <1>7, <1>8
------------------------------------------------------------------------------
\* Every step keeps the inductive invariant.
LEMMA StepKeeps == IInv /\ [Next]_vars => IInv'
<1> SUFFICES ASSUME IInv, [Next]_vars PROVE IInv'
  OBVIOUS
<1> QED BY TypeStep, TimeStep, CatchStep DEF IInv

\* The inductive invariant holds in every reachable state of MessageSync.
THEOREM Invariance == Spec => []IInv
<1> QED BY InitInv, StepKeeps, PTL DEF Spec

\* The rows, writes, calls and copies always have their shape (SaveMessage, UpdateMessage,
\* DeleteMessage and InitialSync).
THEOREM TypeCorrect == Spec => []TypeOK
<1>1. IInv => TypeOK
  BY DEF IInv
<1> QED BY <1>1, Invariance, PTL

\* A message that the client may see and does not have in its latest content is later than the
\* client's timestamp, so that the next InitialSync sends it, whatever the order in which the writes
\* appear; apart from a write that appeared with a stamp the timestamp had passed, a room joined
\* after that, and a row that MessagesPerRoom cut.
THEOREM CatchesUp == Spec => []SyncCatchesUp
<1>1. IInv => SyncCatchesUp
  BY DEF IInv
<1> QED BY <1>1, Invariance, PTL
==============================================================================
