------------------------ MODULE MessageReceiptsProofs ------------------------
(* Proofs about MessageReceipts, for every set of users, messages and        *)
(* requests and every batch size.                                            *)
EXTENDS MessageReceipts, TLAPS

USE DEF RowState, MetaState

\* A batch is taken from the recipients that are left.
LEMMA BatchInTodo ==
  ASSUME NEW m \in Messages, NEW B \in NextBatch(m)
  PROVE  B \subseteq fanout[m].todo
BY DEF NextBatch

\* The fan-outs and requests the steps build from others have their type.
LEMMA FanoutStep ==
  ASSUME NEW f \in Fanout, NEW p \in FanoutPc, NEW t \in SUBSET Users,
         NEW x \in SUBSET (SUBSET Users), NEW b \in SUBSET Users
  PROVE  /\ [f EXCEPT !.pc = p] \in Fanout
         /\ [f EXCEPT !.pc = p, !.todo = t] \in Fanout
         /\ [f EXCEPT !.failed = x] \in Fanout
         /\ [f EXCEPT !.broken = b] \in Fanout
BY DEF Fanout

LEMMA AfterBatchType ==
  ASSUME TypeOK, NEW m \in Messages, NEW B \in NextBatch(m)
  PROVE  AfterBatch(m, B) \in Fanout
<1>1. fanout[m] \in Fanout /\ fanout[m].todo \ B \in SUBSET Users
  BY DEF TypeOK, Fanout
<1>2. (IF fanout[m].todo = B THEN "done" ELSE fanout[m].pc) \in FanoutPc
  BY <1>1 DEF Fanout, FanoutPc
<1> QED BY <1>1, <1>2, FanoutStep DEF AfterBatch

LEMMA CallStep ==
  ASSUME NEW r \in Call, NEW p \in CallPc, NEW i \in SUBSET Messages,
         NEW j \in SUBSET Messages, NEW v \in SUBSET Messages
  PROVE  /\ [r EXCEPT !.pc = p] \in Call
         /\ [r EXCEPT !.pc = p, !.left = i] \in Call
         /\ [r EXCEPT !.pc = p, !.update = i, !.create = j] \in Call
         /\ [r EXCEPT !.pc = p, !.ids = i, !.twice = j, !.visible = v] \in Call
BY DEF Call

\* A step of a request that is running keeps the type of "call".
LEMMA CallsType ==
  ASSUME TypeOK, NEW c \in Callers, NEW next \in Call,
         call[c].pc # "idle", next.user = call[c].user,
         call' = [call EXCEPT ![c] = next]
  PROVE  /\ call' \in [Callers -> Call]
         /\ \A d \in Callers : call'[d].pc # "idle" => call'[d].user \in Users
BY DEF TypeOK

\* Every step keeps the shape of the state: no operation writes a value of
\* another kind into a row, a request or a fan-out.
LEMMA TypeStep ==
  ASSUME TypeOK, [Next]_vars
  PROVE  TypeOK'
<1> USE DEF TypeOK
<1>1. ASSUME NEW u \in Users, Leave(u) \/ Join(u)
      PROVE  TypeOK'
  BY <1>1 DEF Leave, Join
<1>2. ASSUME NEW u \in Users, NEW m \in Messages, BeginSave(u, m)
      PROVE  TypeOK'
  BY <1>2 DEF BeginSave
<1>3. ASSUME NEW m \in Messages, CommitSave(m)
      PROVE  TypeOK'
  <2>1. fanout' \in [Messages -> Fanout]
    <3>1. [fanout[m] EXCEPT !.pc = "pending"] \in Fanout
      BY FanoutStep DEF FanoutPc
    <3> QED BY <1>3, <3>1 DEF CommitSave
  <2>2. meta' \in [Messages -> [Users -> MetaState]]
    <3>1. \A n \in Messages : meta'[n] \in [Users -> MetaState]
      BY <1>3 DEF CommitSave
    <3> QED BY <3>1, <1>3 DEF CommitSave
  <2> QED BY <1>3, <2>1, <2>2 DEF CommitSave
<1>4. ASSUME NEW m \in Messages, AbortSave(m) \/ ExpireSimple(m)
      PROVE  TypeOK'
  BY <1>4 DEF AbortSave, ExpireSimple
<1>5. ASSUME NEW S \in SUBSET Messages, DeleteMessage(S)
      PROVE  TypeOK'
  BY <1>5 DEF DeleteMessage
<1>6. ASSUME NEW m \in Messages, DispatchFanout(m) \/ LoseFanout(m) \/ FanoutError(m)
      PROVE  TypeOK'
  <2>1. \A p \in FanoutPc : [fanout[m] EXCEPT !.pc = p] \in Fanout
    BY FanoutStep
  <2>2. fanout' \in [Messages -> Fanout]
    BY <1>6, <2>1 DEF DispatchFanout, LoseFanout, FanoutError, FanoutPc
  <2> QED BY <1>6, <2>2 DEF DispatchFanout, LoseFanout, FanoutError, store
<1>7. ASSUME NEW m \in Messages, FanoutSnapshot(m)
      PROVE  TypeOK'
  <2>1. Recipients(m) \subseteq Users
    BY DEF Recipients
  <2> QED BY <1>7, <2>1 DEF FanoutSnapshot, store, Fanout, FanoutPc
<1>8. ASSUME NEW m \in Messages, FanoutBatch(m)
      PROVE  TypeOK'
  <2>1. PICK B \in NextBatch(m) :
          /\ meta' = InsertRows(m, B)
          /\ fanout' = [fanout EXCEPT
               ![m] = [AfterBatch(m, B) EXCEPT
                         !.failed = IF Conflict(m, B) THEN @ \cup {B} ELSE @]]
    BY <1>8 DEF FanoutBatch
  <2>2. B \subseteq Users
    BY BatchInTodo DEF Fanout
  <2>3. fanout' \in [Messages -> Fanout]
    <3>1. AfterBatch(m, B) \in Fanout
      BY AfterBatchType
    <3>2. AfterBatch(m, B).failed \cup {B} \in SUBSET (SUBSET Users)
      BY <2>2, <3>1 DEF Fanout
    <3>3. [AfterBatch(m, B) EXCEPT
             !.failed = IF Conflict(m, B) THEN @ \cup {B} ELSE @] \in Fanout
      BY <3>1, <3>2, FanoutStep DEF Fanout
    <3> QED BY <2>1, <3>3
  <2>4. meta' \in [Messages -> [Users -> MetaState]]
    BY <2>1 DEF InsertRows
  <2> QED BY <1>8, <2>3, <2>4 DEF FanoutBatch, store
<1>9. ASSUME NEW m \in Messages, FanoutBatchError(m)
      PROVE  TypeOK'
  <2>1. PICK B \in NextBatch(m) :
          fanout' = [fanout EXCEPT ![m] = [AfterBatch(m, B) EXCEPT
                                            !.broken = @ \cup B]]
    BY <1>9 DEF FanoutBatchError
  <2>2. B \subseteq Users
    BY BatchInTodo DEF Fanout
  <2>3. fanout' \in [Messages -> Fanout]
    <3>1. AfterBatch(m, B) \in Fanout
      BY AfterBatchType
    <3>2. AfterBatch(m, B).broken \cup B \in SUBSET Users
      BY <2>2, <3>1 DEF Fanout
    <3> HIDE DEF TypeOK
    <3>3. [AfterBatch(m, B) EXCEPT !.broken = @ \cup B] \in Fanout
      BY <3>1, <3>2 DEF Fanout
    <3> USE DEF TypeOK
    <3> QED BY <2>1, <3>3
  <2> QED BY <1>9, <2>3 DEF FanoutBatchError, store
<1>10. ASSUME NEW c \in Callers, NEW u \in Users, NEW ids \in SUBSET Committed,
              NEW first \in ids, MarkRequest(c, u, ids, first)
       PROVE  TypeOK'
  <2>1. ids \subseteq Messages
    BY DEF Committed
  <2>2. [NoCall EXCEPT !.pc = "older", !.user = u, !.since = created[first],
                       !.listed = ids, !.ids = ids] \in Call
    BY <2>1 DEF NoCall, Call, CallPc
  <2>3. call' \in [Callers -> Call] /\ call'[c].user \in Users
    BY <1>10, <2>2 DEF MarkRequest, NoCall
  <2> QED BY <1>10, <2>1, <2>3 DEF MarkRequest
<1>11. ASSUME NEW c \in Callers, MarkSelectOlder(c)
       PROVE  TypeOK'
  <2> DEFINE ids  == call[c].ids \cup Older(c)
             both == call[c].listed \cap Older(c)
             next == [call[c] EXCEPT !.pc = "meta", !.ids = ids, !.twice = both,
                                     !.visible = Committed]
  <2>1. Older(c) \in SUBSET Messages /\ Committed \in SUBSET Messages
    BY DEF Older, Committed
  <2>2. ids \in SUBSET Messages /\ both \in SUBSET Messages
    BY <2>1 DEF Call
  <2>3. call' = [call EXCEPT ![c] = next] /\ call[c].pc = "older"
    BY <1>11 DEF MarkSelectOlder
  <2>4. call[c] \in Call /\ "meta" \in CallPc
    BY DEF CallPc
  <2> HIDE DEF ids, both
  <2>5. next \in Call
    BY <2>1, <2>2, <2>4, CallStep
  <2>6. next.user = call[c].user
    BY <2>4 DEF Call
  <2> HIDE DEF next
  <2>7. /\ call' \in [Callers -> Call]
        /\ \A d \in Callers : call'[d].pc # "idle" => call'[d].user \in Users
    BY <2>3, <2>5, <2>6, CallsType
  <2> QED BY <1>11, <2>7 DEF MarkSelectOlder, store
<1>12. ASSUME NEW c \in Callers, MarkSelectMeta(c)
       PROVE  TypeOK'
  <2> DEFINE of(s) == {m \in call[c].ids : meta[m][call[c].user] = s}
             next  == [call[c] EXCEPT !.pc = "write", !.update = of("unread"),
                                      !.create = of("none")]
  <2>1. of("unread") \in SUBSET Messages /\ of("none") \in SUBSET Messages
    BY DEF Call
  <2>2. call' = [call EXCEPT ![c] = next] /\ call[c].pc = "meta"
    BY <1>12 DEF MarkSelectMeta
  <2>3. call[c] \in Call /\ "write" \in CallPc
    BY DEF CallPc
  <2> HIDE DEF of
  <2>4. next \in Call
    BY <2>1, <2>3, CallStep
  <2>5. next.user = call[c].user
    BY <2>3 DEF Call
  <2> HIDE DEF next
  <2>6. /\ call' \in [Callers -> Call]
        /\ \A d \in Callers : call'[d].pc # "idle" => call'[d].user \in Users
    BY <2>2, <2>4, <2>5, CallsType
  <2> QED BY <1>12, <2>6 DEF MarkSelectMeta, store
<1>13. ASSUME NEW c \in Callers, MarkCommit(c)
       PROVE  TypeOK'
  <2> DEFINE next == [call[c] EXCEPT !.pc = "announce", !.left = call[c].listed]
  <2>1. call[c] \in Call /\ "announce" \in CallPc
    BY DEF CallPc
  <2>2. next.user = call[c].user /\ call[c].listed \in SUBSET Messages
    BY <2>1 DEF Call
  <2>3. next \in Call
    BY <2>1, <2>2, CallStep
  <2>4. call' = [call EXCEPT ![c] = next] /\ call[c].pc = "write"
    BY <1>13 DEF MarkCommit
  <2> HIDE DEF next
  <2>5. /\ call' \in [Callers -> Call]
        /\ \A d \in Callers : call'[d].pc # "idle" => call'[d].user \in Users
    BY <2>2, <2>3, <2>4, CallsType
  <2>6. meta' \in [Messages -> [Users -> MetaState]]
    BY <1>13 DEF MarkCommit
  <2>7. status' \in [Messages -> {"SENT", "READ"}]
    BY <1>13 DEF MarkCommit
  <2> QED BY <1>13, <2>5, <2>6, <2>7 DEF MarkCommit, store
<1>14. ASSUME NEW c \in Callers, MarkAbort(c)
       PROVE  TypeOK'
  <2> DEFINE next == [call[c] EXCEPT !.pc = "err"]
  <2>1. call[c] \in Call /\ "err" \in CallPc
    BY DEF CallPc
  <2>2. next.user = call[c].user
    BY <2>1 DEF Call
  <2>3. next \in Call
    BY <2>1, CallStep
  <2>4. call' = [call EXCEPT ![c] = next] /\ call[c].pc # "idle"
    BY <1>14 DEF MarkAbort
  <2> HIDE DEF next
  <2>5. /\ call' \in [Callers -> Call]
        /\ \A d \in Callers : call'[d].pc # "idle" => call'[d].user \in Users
    BY <2>2, <2>3, <2>4, CallsType
  <2> QED BY <1>14, <2>5 DEF MarkAbort, store
<1>15. ASSUME NEW c \in Callers, MarkAnnounce(c)
       PROVE  TypeOK'
  <2>1. call[c].user \in Users
    BY <1>15 DEF MarkAnnounce
  <2>2. PICK m \in call[c].left :
          \/ /\ simple' = simple \cup {m}
             /\ announced' = announced \cup {<<m, call[c].user>>}
             /\ call' = [call EXCEPT
                           ![c].pc = IF call[c].left = {m} THEN "ok" ELSE @,
                           ![c].left = @ \ {m}]
          \/ /\ call' = [call EXCEPT ![c].pc = "err"]
             /\ UNCHANGED <<simple, announced>>
    BY <1>15 DEF MarkAnnounce
  <2>3. m \in Messages /\ call[c].left \ {m} \in SUBSET Messages
    BY DEF Call
  <2> DEFINE rest == call[c].left \ {m}
             p    == IF call[c].left = {m} THEN "ok" ELSE call[c].pc
             next == [call[c] EXCEPT !.pc = p, !.left = rest]
             stop == [call[c] EXCEPT !.pc = "err"]
  <2>4. call[c] \in Call /\ p \in CallPc /\ "err" \in CallPc /\ rest \in SUBSET Messages
    BY <2>3 DEF Call, CallPc
  <2>5. call' = [call EXCEPT ![c] = next] \/ call' = [call EXCEPT ![c] = stop]
    BY <2>2
  <2> HIDE DEF p, rest
  <2>6. next.user = call[c].user /\ stop.user = call[c].user
    BY <2>4 DEF Call
  <2>7. next \in Call /\ stop \in Call
    BY <2>4, CallStep
  <2> HIDE DEF next, stop
  <2>8. /\ call' \in [Callers -> Call]
        /\ \A d \in Callers : call'[d].pc # "idle" => call'[d].user \in Users
    <3>1. call[c].pc # "idle"
      BY <1>15 DEF MarkAnnounce
    <3> QED BY <2>5, <2>6, <2>7, <3>1, CallsType
  <2>9. announced' \subseteq Messages \X Users /\ simple' \subseteq Messages
    BY <2>1, <2>2, <2>3
  <2> QED BY <1>15, <2>8, <2>9 DEF MarkAnnounce
<1>16. CASE UNCHANGED vars
  BY <1>16 DEF vars
<1> QED
  BY <1>1, <1>2, <1>3, <1>4, <1>5, <1>6, <1>7, <1>8, <1>9, <1>10, <1>11, <1>12,
     <1>13, <1>14, <1>15, <1>16 DEF Next

\* The shape of the state holds of every behaviour.
THEOREM TypeCorrect == Spec => []TypeOK
<1>1. Init => TypeOK
  BY DEF Init, TypeOK, NoFanout, Fanout, FanoutPc, NoCall, Call, CallPc
<1>2. TypeOK /\ [Next]_vars => TypeOK'
  BY TypeStep
<1> QED BY <1>1, <1>2, PTL DEF Spec
------------------------------------------------------------------------------
(* The inductive invariant behind the safety properties.                    *)

\* Nobody has a row of a message that is not committed.
NoEarlyRows ==
  \A m \in Messages \ Committed, u \in Users : meta[m][u] = "none"

\* Only a committed message has a fan-out, and its sender is not among the
\* recipients.
FanoutShape ==
  \A m \in Messages :
    /\ fanout[m].pc # "idle" => m \in Committed
    /\ fanout[m].pc \in {"inserting", "done"} =>
         sender[m] \notin fanout[m].audience /\ fanout[m].todo \subseteq fanout[m].audience
    /\ fanout[m].pc = "done" => fanout[m].todo = {}

\* A row with read_at NULL comes from the fan-out: before a recipient's batch
\* nobody else creates one.
UnreadFromFanout ==
  \A m \in Messages :
    /\ fanout[m].pc \in {"idle", "pending", "queued"} =>
         \A u \in Users : meta[m][u] # "unread"
    /\ fanout[m].pc = "inserting" =>
         \A u \in fanout[m].todo : meta[m][u] # "unread"

\* Why a recipient whose batch has been tried may have no row.
Explained(m, u) ==
  \/ u \in fanout[m].broken
  \/ \E B \in fanout[m].failed :
       /\ u \in B
       /\ \E v \in B : v # sender[m] /\ meta[m][v] = "read"

TriedExplained ==
  \A m \in Messages : fanout[m].pc \in {"inserting", "done"} =>
    \A u \in fanout[m].audience \ fanout[m].todo :
      meta[m][u] = "none" => Explained(m, u)

\* What a request works on: committed messages, the listed ones among them.
RequestSets ==
  \A c \in Callers :
    /\ call[c].ids \cup call[c].visible \subseteq Committed
    /\ call[c].listed \subseteq call[c].ids
    /\ call[c].left \subseteq call[c].listed
    /\ call[c].update \cup call[c].create \subseteq call[c].ids

\* No message a request has to mark escapes it: it is read, or among the ids;
\* of the ids every one is read or about to be written; and after the commit
\* all of them are read, with the status set.
RequestCovers ==
  \A c \in Callers :
    LET u == call[c].user
        Read(m) == meta[m][u] = "read"
    IN /\ call[c].pc \in {"meta", "write", "announce", "ok"} =>
            \A m \in call[c].visible :
              created[m] < call[c].since => m \in call[c].ids \/ Read(m)
       /\ call[c].pc = "write" =>
            \A m \in call[c].ids : Read(m) \/ m \in call[c].update \cup call[c].create
       /\ call[c].pc \in {"announce", "ok"} =>
            \A m \in call[c].ids : Read(m) /\ status[m] = "READ"

IInv ==
  /\ TypeOK
  /\ NoEarlyRows
  /\ FanoutShape
  /\ UnreadFromFanout
  /\ TriedExplained
  /\ RequestSets
  /\ RequestCovers
  /\ ReceiptImpliesStatus
  /\ AnnouncedAreRead
------------------------------------------------------------------------------
(* What one step can do to one message, one row, one fan-out, one request.  *)

\* A committed message stays committed, with its sender and its created_at; and
\* a status READ is never taken back.
LEMMA RowStep ==
  ASSUME TypeOK, [Next]_vars, NEW m \in Messages
  PROVE  /\ m \in Committed => /\ m \in Committed'
                               /\ sender'[m] = sender[m]
                               /\ created'[m] = created[m]
         /\ m \in Committed' => sender'[m] = sender[m]
         /\ status[m] = "READ" => status'[m] = "READ"
<1> USE DEF TypeOK, Committed, store
<1>1. ASSUME NEW u \in Users, Leave(u) \/ Join(u)
      PROVE  UNCHANGED <<row, sender, created, status>>
  BY <1>1 DEF Leave, Join
<1>2. ASSUME NEW u \in Users, NEW n \in Messages, BeginSave(u, n)
      PROVE  /\ row[n] = "none" /\ row' = [row EXCEPT ![n] = "open"]
             /\ \A k \in Messages \ {n} : /\ sender'[k] = sender[k]
                                          /\ created'[k] = created[k]
             /\ status' = status
  BY <1>2 DEF BeginSave
<1>3. ASSUME NEW n \in Messages, CommitSave(n)
      PROVE  /\ row' = [row EXCEPT ![n] = "saved"]
             /\ UNCHANGED <<sender, created, status>>
  BY <1>3 DEF CommitSave
<1>4. ASSUME NEW n \in Messages, AbortSave(n)
      PROVE  /\ row[n] = "open" /\ row' = [row EXCEPT ![n] = "aborted"]
             /\ UNCHANGED <<sender, created, status>>
  BY <1>4 DEF AbortSave
<1>5. ASSUME NEW S \in SUBSET Messages, DeleteMessage(S)
      PROVE  /\ row' = [n \in Messages |-> IF n \in S THEN "deleted" ELSE row[n]]
             /\ \A n \in S : row[n] = "saved"
             /\ UNCHANGED <<sender, created, status>>
  BY <1>5 DEF DeleteMessage
<1>6. ASSUME NEW n \in Messages,
             \/ ExpireSimple(n) \/ DispatchFanout(n) \/ LoseFanout(n)
             \/ FanoutSnapshot(n) \/ FanoutError(n) \/ FanoutBatch(n)
             \/ FanoutBatchError(n)
      PROVE  UNCHANGED <<row, sender, created, status>>
  BY <1>6 DEF ExpireSimple, DispatchFanout, LoseFanout, FanoutSnapshot, FanoutError,
              FanoutBatch, FanoutBatchError
<1>7. ASSUME NEW c \in Callers, NEW u \in Users, NEW ids \in SUBSET Committed,
             NEW first \in ids, MarkRequest(c, u, ids, first)
      PROVE  UNCHANGED <<row, sender, created, status>>
  BY <1>7 DEF MarkRequest
<1>8. ASSUME NEW c \in Callers,
             MarkSelectOlder(c) \/ MarkSelectMeta(c) \/ MarkAbort(c) \/ MarkAnnounce(c)
      PROVE  UNCHANGED <<row, sender, created, status>>
  BY <1>8 DEF MarkSelectOlder, MarkSelectMeta, MarkAbort, MarkAnnounce
<1>9. ASSUME NEW c \in Callers, MarkCommit(c)
      PROVE  /\ UNCHANGED <<row, sender, created>>
             /\ status[m] = "READ" => status'[m] = "READ"
  BY <1>9 DEF MarkCommit
<1>10. CASE UNCHANGED vars
  BY <1>10 DEF vars
<1> QED
  BY <1>1, <1>2, <1>3, <1>4, <1>5, <1>6, <1>7, <1>8, <1>9, <1>10 DEF Next

\* A row of room_message_meta changes in three ways only: the sender's own row
\* appears with the message, a request sets read_at together with the message's
\* status, or the fan-out creates the row of a recipient it still had to do.
LEMMA MetaStep ==
  ASSUME TypeOK, FanoutShape, RequestSets, [Next]_vars,
         NEW m \in Messages, NEW u \in Users
  PROVE  \/ meta'[m][u] = meta[m][u]
         \/ /\ meta'[m][u] = "read"
            /\ m \in Committed'
            /\ u = sender[m] \/ status'[m] = "READ"
         \/ /\ meta[m][u] = "none" /\ meta'[m][u] = "unread"
            /\ m \in Committed
            /\ fanout[m].pc = "inserting"
            /\ u \in fanout[m].todo /\ u \notin fanout'[m].todo
<1> USE DEF TypeOK
<1>1. ASSUME NEW w \in Users, Leave(w) \/ Join(w)
      PROVE  meta' = meta
  BY <1>1 DEF Leave, Join
<1>2. ASSUME NEW w \in Users, NEW n \in Messages, BeginSave(w, n)
      PROVE  meta' = meta
  BY <1>2 DEF BeginSave
<1>3. ASSUME NEW n \in Messages, CommitSave(n)
      PROVE  \/ meta'[m][u] = meta[m][u]
             \/ meta'[m][u] = "read" /\ m \in Committed' /\ u = sender[m]
  BY <1>3 DEF CommitSave, Committed
<1>4. ASSUME NEW n \in Messages,
             \/ AbortSave(n) \/ ExpireSimple(n) \/ DispatchFanout(n) \/ LoseFanout(n)
             \/ FanoutSnapshot(n) \/ FanoutError(n) \/ FanoutBatchError(n)
      PROVE  meta' = meta
  BY <1>4 DEF AbortSave, ExpireSimple, DispatchFanout, LoseFanout, FanoutSnapshot,
              FanoutError, FanoutBatchError
<1>5. ASSUME NEW S \in SUBSET Messages, DeleteMessage(S)
      PROVE  meta' = meta
  BY <1>5 DEF DeleteMessage
<1>6. ASSUME NEW n \in Messages, FanoutBatch(n)
      PROVE  \/ meta'[m][u] = meta[m][u]
             \/ /\ meta[m][u] = "none" /\ meta'[m][u] = "unread"
                /\ m \in Committed
                /\ fanout[m].pc = "inserting"
                /\ u \in fanout[m].todo /\ u \notin fanout'[m].todo
  <2>1. PICK B \in NextBatch(n) :
          /\ meta' = InsertRows(n, B)
          /\ fanout' = [fanout EXCEPT
               ![n] = [AfterBatch(n, B) EXCEPT
                         !.failed = IF Conflict(n, B) THEN @ \cup {B} ELSE @]]
    BY <1>6 DEF FanoutBatch
  <2>2. B \subseteq fanout[n].todo /\ fanout[n].pc = "inserting" /\ n \in Committed
    BY <1>6, BatchInTodo DEF FanoutBatch, FanoutShape
  <2>3. AfterBatch(n, B).todo = fanout[n].todo \ B
    BY DEF AfterBatch, Fanout
  <2>4. AfterBatch(n, B) \in Fanout
    BY AfterBatchType
  <2>5. fanout'[n].todo = fanout[n].todo \ B
    BY <2>1, <2>3, <2>4 DEF Fanout
  <2>6. CASE Conflict(n, B)
    BY <2>1, <2>6 DEF InsertRows
  <2>7. CASE ~Conflict(n, B)
    <3>1. \A v \in B : meta[n][v] = "none"
      BY <2>7 DEF Conflict
    <3>2. meta' = [meta EXCEPT ![n] =
            [v \in Users |-> IF v \in B THEN "unread" ELSE meta[n][v]]]
      BY <2>1, <2>7 DEF InsertRows
    <3>3. CASE m = n /\ u \in B
      BY <2>2, <2>5, <3>1, <3>2, <3>3
    <3>4. CASE m # n \/ u \notin B
      BY <3>2, <3>4
    <3> QED BY <3>3, <3>4
  <2> QED BY <2>6, <2>7
<1>7. ASSUME NEW c \in Callers, NEW w \in Users, NEW ids \in SUBSET Committed,
             NEW first \in ids, MarkRequest(c, w, ids, first)
      PROVE  meta' = meta
  BY <1>7 DEF MarkRequest
<1>8. ASSUME NEW c \in Callers,
             MarkSelectOlder(c) \/ MarkSelectMeta(c) \/ MarkAbort(c) \/ MarkAnnounce(c)
      PROVE  meta' = meta
  BY <1>8 DEF MarkSelectOlder, MarkSelectMeta, MarkAbort, MarkAnnounce
<1>9. ASSUME NEW c \in Callers, MarkCommit(c)
      PROVE  \/ meta'[m][u] = meta[m][u]
             \/ meta'[m][u] = "read" /\ m \in Committed' /\ status'[m] = "READ"
  <2>1. CASE m \in call[c].update \cup call[c].create
    <3>1. m \in call[c].ids /\ m \in Committed
      BY <2>1 DEF RequestSets
    <3>2. status'[m] = "READ" /\ m \in Committed'
      BY <1>9, <3>1 DEF MarkCommit, StatusTargets, Committed, store
    <3> QED BY <1>9, <2>1, <3>2 DEF MarkCommit
  <2>2. CASE m \notin call[c].update \cup call[c].create
    BY <1>9, <2>2 DEF MarkCommit
  <2> QED BY <2>1, <2>2
<1>10. CASE UNCHANGED vars
  BY <1>10 DEF vars
<1> QED
  BY <1>1, <1>2, <1>3, <1>4, <1>5, <1>6, <1>7, <1>8, <1>9, <1>10 DEF Next

\* A fan-out is touched by the operations on its own message only.
LEMMA FanoutCases ==
  ASSUME TypeOK, [Next]_vars, NEW m \in Messages
  PROVE  \/ fanout'[m] = fanout[m]
         \/ CommitSave(m) \/ DispatchFanout(m) \/ LoseFanout(m)
         \/ FanoutSnapshot(m) \/ FanoutError(m)
         \/ FanoutBatch(m) \/ FanoutBatchError(m)
<1> USE DEF TypeOK
<1>1. ASSUME NEW w \in Users, Leave(w) \/ Join(w)
      PROVE  fanout' = fanout
  BY <1>1 DEF Leave, Join
<1>2. ASSUME NEW w \in Users, NEW n \in Messages, BeginSave(w, n)
      PROVE  fanout' = fanout
  BY <1>2 DEF BeginSave
<1>3. ASSUME NEW n \in Messages, n # m,
             \/ CommitSave(n) \/ DispatchFanout(n) \/ LoseFanout(n)
             \/ FanoutSnapshot(n) \/ FanoutError(n)
             \/ FanoutBatch(n) \/ FanoutBatchError(n)
      PROVE  fanout'[m] = fanout[m]
  BY <1>3 DEF CommitSave, DispatchFanout, LoseFanout, FanoutSnapshot, FanoutError,
              FanoutBatch, FanoutBatchError
<1>4. ASSUME NEW n \in Messages, AbortSave(n) \/ ExpireSimple(n)
      PROVE  fanout' = fanout
  BY <1>4 DEF AbortSave, ExpireSimple
<1>5. ASSUME NEW S \in SUBSET Messages, DeleteMessage(S)
      PROVE  fanout' = fanout
  BY <1>5 DEF DeleteMessage
<1>6. ASSUME NEW c \in Callers, NEW w \in Users, NEW ids \in SUBSET Committed,
             NEW first \in ids, MarkRequest(c, w, ids, first)
      PROVE  fanout' = fanout
  BY <1>6 DEF MarkRequest
<1>7. ASSUME NEW c \in Callers,
             \/ MarkSelectOlder(c) \/ MarkSelectMeta(c) \/ MarkCommit(c)
             \/ MarkAbort(c) \/ MarkAnnounce(c)
      PROVE  fanout' = fanout
  BY <1>7 DEF MarkSelectOlder, MarkSelectMeta, MarkCommit, MarkAbort, MarkAnnounce
<1>8. CASE UNCHANGED vars
  BY <1>8 DEF vars
<1> QED
  BY <1>1, <1>2, <1>3, <1>4, <1>5, <1>6, <1>7, <1>8 DEF Next

\* A request moves by its own steps only, and only its loop announces.
LEMMA RequestCases ==
  ASSUME TypeOK, [Next]_vars, NEW c \in Callers
  PROVE  \/ call'[c] = call[c]
         \/ \E u \in Users, ids \in SUBSET Committed :
               \E first \in ids : MarkRequest(c, u, ids, first)
         \/ MarkSelectOlder(c) \/ MarkSelectMeta(c) \/ MarkCommit(c)
         \/ MarkAbort(c) \/ MarkAnnounce(c)
<1> USE DEF TypeOK
<1>1. ASSUME NEW w \in Users, Leave(w) \/ Join(w)
      PROVE  call' = call
  BY <1>1 DEF Leave, Join
<1>2. ASSUME NEW w \in Users, NEW n \in Messages, BeginSave(w, n)
      PROVE  call' = call
  BY <1>2 DEF BeginSave
<1>3. ASSUME NEW n \in Messages,
             \/ CommitSave(n) \/ AbortSave(n) \/ ExpireSimple(n)
             \/ DispatchFanout(n) \/ LoseFanout(n) \/ FanoutSnapshot(n)
             \/ FanoutError(n) \/ FanoutBatch(n) \/ FanoutBatchError(n)
      PROVE  call' = call
  BY <1>3 DEF CommitSave, AbortSave, ExpireSimple, DispatchFanout, LoseFanout,
              FanoutSnapshot, FanoutError, FanoutBatch, FanoutBatchError
<1>4. ASSUME NEW S \in SUBSET Messages, DeleteMessage(S)
      PROVE  call' = call
  BY <1>4 DEF DeleteMessage
<1>5. ASSUME NEW d \in Callers, d # c, NEW w \in Users, NEW ids \in SUBSET Committed,
             NEW first \in ids, MarkRequest(d, w, ids, first)
      PROVE  call'[c] = call[c]
  BY <1>5 DEF MarkRequest
<1>6. ASSUME NEW d \in Callers, d # c,
             \/ MarkSelectOlder(d) \/ MarkSelectMeta(d) \/ MarkCommit(d)
             \/ MarkAbort(d) \/ MarkAnnounce(d)
      PROVE  call'[c] = call[c]
  BY <1>6 DEF MarkSelectOlder, MarkSelectMeta, MarkCommit, MarkAbort, MarkAnnounce
<1>7. CASE UNCHANGED vars
  BY <1>7 DEF vars
<1> QED
  BY <1>1, <1>2, <1>3, <1>4, <1>5, <1>6, <1>7 DEF Next

\* What one batch does to the fan-out that tries it.
LEMMA BatchOf ==
  ASSUME TypeOK, NEW m \in Messages, FanoutBatch(m) \/ FanoutBatchError(m)
  PROVE  \E B \in NextBatch(m) :
           /\ fanout[m].pc = "inserting" /\ B \subseteq fanout[m].todo
           /\ fanout'[m].audience = fanout[m].audience
           /\ fanout'[m].todo = fanout[m].todo \ B
           /\ fanout'[m].pc = IF fanout[m].todo = B THEN "done" ELSE "inserting"
           /\ fanout[m].failed \subseteq fanout'[m].failed
           /\ fanout[m].broken \subseteq fanout'[m].broken
           /\ \/ ~Conflict(m, B) /\ \A u \in B : meta'[m][u] = "unread"
              \/ Conflict(m, B) /\ B \in fanout'[m].failed
              \/ B \subseteq fanout'[m].broken
<1> USE DEF TypeOK
<1>1. \A B \in NextBatch(m) :
        /\ B \subseteq fanout[m].todo /\ B \subseteq Users
        /\ AfterBatch(m, B) \in Fanout
        /\ AfterBatch(m, B).audience = fanout[m].audience
        /\ AfterBatch(m, B).todo = fanout[m].todo \ B
        /\ AfterBatch(m, B).pc = IF fanout[m].todo = B THEN "done" ELSE fanout[m].pc
        /\ AfterBatch(m, B).failed = fanout[m].failed
        /\ AfterBatch(m, B).broken = fanout[m].broken
  <2> TAKE B \in NextBatch(m)
  <2>1. B \subseteq fanout[m].todo /\ AfterBatch(m, B) \in Fanout
    BY BatchInTodo, AfterBatchType
  <2>2. fanout[m] \in Fanout
    OBVIOUS
  <2> HIDE DEF TypeOK
  <2> QED BY <2>1, <2>2 DEF Fanout, AfterBatch
<1>2. CASE FanoutBatch(m)
  <2>1. PICK B \in NextBatch(m) :
          /\ meta' = InsertRows(m, B)
          /\ fanout' = [fanout EXCEPT
               ![m] = [AfterBatch(m, B) EXCEPT
                         !.failed = IF Conflict(m, B) THEN @ \cup {B} ELSE @]]
    BY <1>2 DEF FanoutBatch
  <2>2. fanout[m].pc = "inserting"
    BY <1>2 DEF FanoutBatch
  <2>3. AfterBatch(m, B) \in Fanout
    BY <1>1
  <2>4. fanout'[m] = [AfterBatch(m, B) EXCEPT
                        !.failed = IF Conflict(m, B) THEN @ \cup {B} ELSE @]
    BY <2>1
  <2>5. /\ fanout'[m].audience = fanout[m].audience
        /\ fanout'[m].todo = fanout[m].todo \ B
        /\ fanout'[m].pc = IF fanout[m].todo = B THEN "done" ELSE "inserting"
        /\ fanout'[m].broken = fanout[m].broken
        /\ fanout[m].failed \subseteq fanout'[m].failed
        /\ Conflict(m, B) => B \in fanout'[m].failed
    BY <1>1, <2>2, <2>3, <2>4 DEF Fanout
  <2>6. ~Conflict(m, B) => \A u \in B : meta'[m][u] = "unread"
    <3>1. B \subseteq Users
      BY <1>1
    <3> QED BY <2>1, <3>1 DEF InsertRows
  <2> QED BY <1>1, <2>2, <2>5, <2>6
<1>3. CASE FanoutBatchError(m)
  <2>1. PICK B \in NextBatch(m) :
          fanout' = [fanout EXCEPT ![m] = [AfterBatch(m, B) EXCEPT
                                            !.broken = @ \cup B]]
    BY <1>3 DEF FanoutBatchError
  <2>2. fanout[m].pc = "inserting"
    BY <1>3 DEF FanoutBatchError
  <2>3. AfterBatch(m, B) \in Fanout
    BY <1>1
  <2>4. fanout'[m] = [AfterBatch(m, B) EXCEPT !.broken = @ \cup B]
    BY <2>1
  <2>5. /\ fanout'[m].audience = fanout[m].audience
        /\ fanout'[m].todo = fanout[m].todo \ B
        /\ fanout'[m].pc = IF fanout[m].todo = B THEN "done" ELSE "inserting"
        /\ fanout'[m].failed = fanout[m].failed
        /\ fanout'[m].broken = fanout[m].broken \cup B
    BY <1>1, <2>2, <2>3, <2>4 DEF Fanout
  <2> QED BY <1>1, <2>2, <2>5
<1> QED BY <1>2, <1>3
------------------------------------------------------------------------------
(* Every part of the invariant is kept by every step.                       *)

LEMMA NoEarlyRowsStep ==
  ASSUME IInv, [Next]_vars
  PROVE  NoEarlyRows'
<1>1. SUFFICES ASSUME NEW m \in Messages, NEW u \in Users, m \notin Committed'
               PROVE  meta'[m][u] = "none"
  BY DEF NoEarlyRows
<1>2. m \notin Committed
  BY <1>1, RowStep DEF IInv
<1>3. meta[m][u] = "none"
  BY <1>2 DEF IInv, NoEarlyRows
<1>4. meta'[m][u] = meta[m][u]
  BY <1>1, <1>2, MetaStep DEF IInv
<1> QED BY <1>3, <1>4

LEMMA FanoutShapeStep ==
  ASSUME IInv, [Next]_vars
  PROVE  FanoutShape'
<1> USE DEF IInv
<1>1. SUFFICES ASSUME NEW m \in Messages
               PROVE  /\ fanout'[m].pc # "idle" => m \in Committed'
                      /\ fanout'[m].pc \in {"inserting", "done"} =>
                           /\ sender'[m] \notin fanout'[m].audience
                           /\ fanout'[m].todo \subseteq fanout'[m].audience
                      /\ fanout'[m].pc = "done" => fanout'[m].todo = {}
  BY DEF FanoutShape
<1>2. m \in Committed => m \in Committed' /\ sender'[m] = sender[m]
  BY RowStep
<1>3. fanout[m] \in Fanout /\ fanout \in [Messages -> Fanout]
  BY DEF TypeOK
<1>4. CASE fanout'[m] = fanout[m]
  BY <1>2, <1>4 DEF FanoutShape
<1>5. CASE CommitSave(m)
  <2>1. m \in Committed'
    BY <1>5 DEF CommitSave, Committed, TypeOK
  <2>2. fanout'[m].pc = "pending"
    BY <1>3, <1>5 DEF CommitSave, Fanout
  <2> QED BY <2>1, <2>2
<1>6. CASE DispatchFanout(m) \/ LoseFanout(m) \/ FanoutError(m)
  <2>1. fanout[m].pc # "idle" /\ fanout'[m].pc \in {"queued", "lost", "error"}
    BY <1>3, <1>6 DEF DispatchFanout, LoseFanout, FanoutError, Fanout
  <2> QED BY <1>2, <2>1 DEF FanoutShape
<1>7. CASE FanoutSnapshot(m)
  <2>1. /\ fanout[m].pc = "queued"
        /\ fanout'[m].audience = Recipients(m) /\ fanout'[m].todo = Recipients(m)
        /\ fanout'[m].pc = "done" => Recipients(m) = {}
    BY <1>3, <1>7 DEF FanoutSnapshot
  <2>2. m \in Committed
    BY <2>1 DEF FanoutShape
  <2> QED BY <1>2, <2>1, <2>2 DEF Recipients
<1>8. CASE FanoutBatch(m) \/ FanoutBatchError(m)
  <2>1. PICK B \in NextBatch(m) :
          /\ fanout[m].pc = "inserting"
          /\ fanout'[m].audience = fanout[m].audience
          /\ fanout'[m].todo = fanout[m].todo \ B
          /\ fanout'[m].pc = IF fanout[m].todo = B THEN "done" ELSE "inserting"
    BY <1>8, BatchOf
  <2> QED BY <1>2, <2>1 DEF FanoutShape
<1> QED BY <1>4, <1>5, <1>6, <1>7, <1>8, FanoutCases

LEMMA UnreadFromFanoutStep ==
  ASSUME IInv, [Next]_vars
  PROVE  UnreadFromFanout'
<1> USE DEF IInv
<1>1. SUFFICES ASSUME NEW m \in Messages, NEW u \in Users,
                      \/ fanout'[m].pc \in {"idle", "pending", "queued"}
                      \/ fanout'[m].pc = "inserting" /\ u \in fanout'[m].todo
               PROVE  meta'[m][u] # "unread"
  <2>1. \A m \in Messages : fanout'[m].todo \in SUBSET Users
    BY TypeStep DEF TypeOK, Fanout
  <2> QED BY <2>1 DEF UnreadFromFanout
<1>2. fanout[m] \in Fanout /\ fanout \in [Messages -> Fanout]
  BY DEF TypeOK
<1>3. meta[m][u] # "unread" /\ (fanout[m].pc = "inserting" => u \notin fanout[m].todo \ fanout'[m].todo)
  <2>1. CASE fanout'[m] = fanout[m]
    BY <1>1, <2>1 DEF UnreadFromFanout
  <2>2. CASE CommitSave(m)
    <3>1. m \notin Committed
      BY <2>2 DEF CommitSave, Committed
    <3> QED BY <3>1 DEF NoEarlyRows, FanoutShape
  <2>3. CASE DispatchFanout(m)
    BY <2>3 DEF DispatchFanout, UnreadFromFanout
  <2>4. CASE LoseFanout(m) \/ FanoutError(m)
    <3>1. fanout'[m].pc \in {"lost", "error"}
      BY <1>2, <2>4 DEF LoseFanout, FanoutError, Fanout
    <3> QED BY <1>1, <3>1
  <2>5. CASE FanoutSnapshot(m)
    BY <2>5 DEF FanoutSnapshot, UnreadFromFanout
  <2>6. CASE FanoutBatch(m) \/ FanoutBatchError(m)
    <3>1. PICK B \in NextBatch(m) :
            /\ fanout[m].pc = "inserting"
            /\ fanout'[m].todo = fanout[m].todo \ B
            /\ fanout'[m].pc = IF fanout[m].todo = B THEN "done" ELSE "inserting"
      BY <2>6, BatchOf
    <3> QED BY <1>1, <3>1 DEF UnreadFromFanout
  <2> QED BY <2>1, <2>2, <2>3, <2>4, <2>5, <2>6, FanoutCases
<1> QED BY <1>3, MetaStep

\* An explanation stays one: a receipt is not lost, nor is a failure forgotten.
LEMMA ExplainedStays ==
  ASSUME IInv, [Next]_vars, NEW m \in Messages, NEW u \in Users, Explained(m, u),
         m \in Committed, fanout[m].failed \subseteq fanout'[m].failed,
         fanout[m].broken \subseteq fanout'[m].broken
  PROVE  Explained(m, u)'
<1>1. \A v \in Users : meta[m][v] = "read" => meta'[m][v] = "read"
  BY MetaStep DEF IInv
<1>2. sender'[m] = sender[m]
  BY RowStep DEF IInv
<1>3. \A B \in fanout[m].failed : B \subseteq Users
  BY DEF IInv, TypeOK, Fanout
<1> QED BY <1>1, <1>2, <1>3 DEF Explained

LEMMA TriedExplainedStep ==
  ASSUME IInv, [Next]_vars
  PROVE  TriedExplained'
<1> USE DEF IInv
<1>1. SUFFICES ASSUME NEW m \in Messages, fanout'[m].pc \in {"inserting", "done"},
                      NEW u \in fanout'[m].audience \ fanout'[m].todo,
                      meta'[m][u] = "none"
               PROVE  Explained(m, u)'
  BY DEF TriedExplained
<1>2. u \in Users
  BY TypeStep DEF TypeOK, Fanout
<1>3. meta[m][u] = "none"
  BY <1>1, <1>2, MetaStep
<1>4. fanout[m] \in Fanout /\ fanout \in [Messages -> Fanout]
  BY DEF TypeOK
<1>5. CASE fanout'[m] = fanout[m]
  BY <1>1, <1>2, <1>3, <1>5, ExplainedStays DEF TriedExplained, FanoutShape
<1>6. CASE CommitSave(m) \/ DispatchFanout(m) \/ LoseFanout(m) \/ FanoutError(m)
  <2>1. fanout'[m].pc \in {"pending", "queued", "lost", "error"}
    BY <1>4, <1>6 DEF CommitSave, DispatchFanout, LoseFanout, FanoutError, Fanout
  <2> QED BY <1>1, <2>1
<1>7. CASE FanoutSnapshot(m)
  <2>1. fanout'[m].audience = fanout'[m].todo
    BY <1>4, <1>7 DEF FanoutSnapshot
  <2> QED BY <2>1
<1>8. CASE FanoutBatch(m) \/ FanoutBatchError(m)
  <2>1. PICK B \in NextBatch(m) :
          /\ fanout[m].pc = "inserting" /\ B \subseteq fanout[m].todo
          /\ fanout'[m].audience = fanout[m].audience
          /\ fanout'[m].todo = fanout[m].todo \ B
          /\ fanout[m].failed \subseteq fanout'[m].failed
          /\ fanout[m].broken \subseteq fanout'[m].broken
          /\ \/ ~Conflict(m, B) /\ \A v \in B : meta'[m][v] = "unread"
             \/ Conflict(m, B) /\ B \in fanout'[m].failed
             \/ B \subseteq fanout'[m].broken
    BY <1>8, BatchOf
  <2>2. CASE u \notin B
    <3>1. Explained(m, u)
      BY <1>1, <1>3, <2>1, <2>2 DEF TriedExplained
    <3>2. m \in Committed
      BY <2>1 DEF FanoutShape
    <3> QED BY <1>2, <2>1, <3>1, <3>2, ExplainedStays
  <2>3. CASE u \in B /\ Conflict(m, B) /\ B \in fanout'[m].failed
    <3>1. PICK v \in B : meta[m][v] # "none"
      BY <2>3 DEF Conflict
    <3>2. v \in fanout[m].todo /\ v \in Users /\ v # sender[m]
      BY <2>1, <1>4 DEF Fanout, FanoutShape
    <3>3. meta[m][v] = "read"
      BY <2>1, <3>1, <3>2 DEF UnreadFromFanout, TypeOK
    <3>4. meta'[m][v] = "read"
      BY <3>2, <3>3, MetaStep
    <3>5. sender'[m] = sender[m]
      BY <2>1, RowStep DEF FanoutShape
    <3> QED BY <2>3, <3>2, <3>4, <3>5 DEF Explained
  <2>4. CASE u \in B /\ B \subseteq fanout'[m].broken
    BY <2>4 DEF Explained
  <2>5. CASE u \in B /\ \A v \in B : meta'[m][v] = "unread"
    BY <1>1, <2>5
  <2> QED BY <2>1, <2>2, <2>3, <2>4, <2>5
<1> QED BY <1>5, <1>6, <1>7, <1>8, FanoutCases

\* What a request keeps for as long as it runs.
SameRequest(c) == /\ call'[c].user = call[c].user /\ call'[c].since = call[c].since
                  /\ call'[c].listed = call[c].listed

\* What each step of a request does to its record.
LEMMA MarkRequestStep ==
  ASSUME TypeOK, NEW c \in Callers, NEW u \in Users, NEW ids \in SUBSET Committed,
         NEW first \in ids, MarkRequest(c, u, ids, first)
  PROVE  /\ call'[c].pc = "older" /\ call'[c].user = u
         /\ call'[c].ids = ids /\ call'[c].listed = ids
         /\ call'[c].visible = {} /\ call'[c].left = {}
         /\ call'[c].update = {} /\ call'[c].create = {}
BY DEF MarkRequest, NoCall, TypeOK

LEMMA MarkSelectOlderStep ==
  ASSUME TypeOK, NEW c \in Callers, MarkSelectOlder(c)
  PROVE  /\ call[c].pc = "older" /\ call'[c].pc = "meta" /\ SameRequest(c)
         /\ call'[c].ids = call[c].ids \cup Older(c) /\ call'[c].visible = Committed
         /\ call'[c].left = call[c].left
         /\ call'[c].update = call[c].update /\ call'[c].create = call[c].create
<1> DEFINE all  == call[c].ids \cup Older(c)
           both == call[c].listed \cap Older(c)
           next == [call[c] EXCEPT !.pc = "meta", !.ids = all, !.twice = both,
                                   !.visible = Committed]
<1>1. call[c].pc = "older" /\ call' = [call EXCEPT ![c] = next]
  BY DEF MarkSelectOlder
<1>2. call[c] \in Call /\ call'[c] = next
  BY <1>1 DEF TypeOK
<1> HIDE DEF all, both
<1>3. call'[c].pc = "meta" /\ call'[c].ids = all /\ call'[c].visible = Committed
  BY <1>2 DEF Call
<1>4. /\ SameRequest(c) /\ call'[c].left = call[c].left
      /\ call'[c].update = call[c].update /\ call'[c].create = call[c].create
  BY <1>2 DEF Call, SameRequest
<1> QED BY <1>1, <1>3, <1>4 DEF all

LEMMA MarkSelectMetaStep ==
  ASSUME TypeOK, NEW c \in Callers, MarkSelectMeta(c)
  PROVE  /\ call[c].pc = "meta" /\ call'[c].pc = "write" /\ SameRequest(c)
         /\ call'[c].ids = call[c].ids /\ call'[c].visible = call[c].visible
         /\ call'[c].left = call[c].left
         /\ call'[c].update = {m \in call[c].ids : meta[m][call[c].user] = "unread"}
         /\ call'[c].create = {m \in call[c].ids : meta[m][call[c].user] = "none"}
<1> DEFINE of(s) == {m \in call[c].ids : meta[m][call[c].user] = s}
           next  == [call[c] EXCEPT !.pc = "write", !.update = of("unread"),
                                    !.create = of("none")]
<1>1. call[c].pc = "meta" /\ call' = [call EXCEPT ![c] = next]
  BY DEF MarkSelectMeta
<1>2. call[c] \in Call /\ call'[c] = next
  BY <1>1 DEF TypeOK
<1> HIDE DEF of
<1>3. call'[c].update = of("unread") /\ call'[c].create = of("none")
  BY <1>2 DEF Call
<1>4. /\ call'[c].pc = "write" /\ SameRequest(c) /\ call'[c].ids = call[c].ids
      /\ call'[c].visible = call[c].visible /\ call'[c].left = call[c].left
  BY <1>2 DEF Call, SameRequest
<1> QED BY <1>1, <1>3, <1>4 DEF of

LEMMA MarkCommitStep ==
  ASSUME TypeOK, NEW c \in Callers, MarkCommit(c)
  PROVE  /\ call[c].pc = "write" /\ call'[c].pc = "announce" /\ SameRequest(c)
         /\ call'[c].ids = call[c].ids /\ call'[c].visible = call[c].visible
         /\ call'[c].left = call[c].listed
         /\ call'[c].update = call[c].update /\ call'[c].create = call[c].create
<1> DEFINE all  == call[c].listed
           next == [call[c] EXCEPT !.pc = "announce", !.left = all]
<1>1. call[c].pc = "write" /\ call' = [call EXCEPT ![c] = next]
  BY DEF MarkCommit
<1>2. call[c] \in Call /\ call'[c] = next
  BY <1>1 DEF TypeOK
<1> HIDE DEF all
<1>3. call'[c].pc = "announce" /\ call'[c].left = all
  BY <1>2 DEF Call
<1>4. /\ SameRequest(c)
      /\ call'[c].ids = call[c].ids /\ call'[c].visible = call[c].visible
      /\ call'[c].update = call[c].update /\ call'[c].create = call[c].create
  BY <1>2 DEF Call, SameRequest
<1> QED BY <1>1, <1>3, <1>4 DEF all

LEMMA MarkAbortStep ==
  ASSUME TypeOK, NEW c \in Callers, MarkAbort(c)
  PROVE  /\ call'[c].pc = "err" /\ SameRequest(c)
         /\ call'[c].ids = call[c].ids /\ call'[c].visible = call[c].visible
         /\ call'[c].left = call[c].left
         /\ call'[c].update = call[c].update /\ call'[c].create = call[c].create
<1> DEFINE next == [call[c] EXCEPT !.pc = "err"]
<1>1. call' = [call EXCEPT ![c] = next]
  BY DEF MarkAbort
<1>2. call[c] \in Call /\ call'[c] = next
  BY <1>1 DEF TypeOK
<1> QED BY <1>2 DEF Call, SameRequest

LEMMA MarkAnnounceStep ==
  ASSUME TypeOK, NEW c \in Callers, MarkAnnounce(c)
  PROVE  /\ call[c].pc = "announce" /\ call'[c].pc \in {"announce", "ok", "err"}
         /\ SameRequest(c)
         /\ call'[c].ids = call[c].ids /\ call'[c].visible = call[c].visible
         /\ call'[c].left \subseteq call[c].left
         /\ call'[c].update = call[c].update /\ call'[c].create = call[c].create
         /\ \E m \in call[c].left :
              announced' \in {announced, announced \cup {<<m, call[c].user>>}}
<1>1. PICK m \in call[c].left :
        \/ /\ announced' = announced \cup {<<m, call[c].user>>}
           /\ call' = [call EXCEPT ![c].pc = IF call[c].left = {m} THEN "ok" ELSE @,
                                   ![c].left = @ \ {m}]
        \/ /\ announced' = announced
           /\ call' = [call EXCEPT ![c].pc = "err"]
  BY DEF MarkAnnounce
<1> DEFINE p    == IF call[c].left = {m} THEN "ok" ELSE call[c].pc
           rest == call[c].left \ {m}
           next == [call[c] EXCEPT !.pc = p, !.left = rest]
           stop == [call[c] EXCEPT !.pc = "err"]
<1>2. call[c] \in Call /\ call'[c] \in {next, stop} /\ call[c].pc = "announce"
  BY <1>1 DEF TypeOK, MarkAnnounce
<1>3. p \in {"announce", "ok"} /\ rest \subseteq call[c].left
  BY <1>2
<1> HIDE DEF p, rest
<1>4. /\ call'[c].pc \in {p, "err"} /\ call'[c].left \in {rest, call[c].left}
      /\ call'[c].ids = call[c].ids /\ call'[c].visible = call[c].visible
      /\ call'[c].update = call[c].update /\ call'[c].create = call[c].create
      /\ SameRequest(c)
  BY <1>2 DEF Call, SameRequest
<1> QED BY <1>1, <1>2, <1>3, <1>4

LEMMA RequestSetsStep ==
  ASSUME IInv, [Next]_vars
  PROVE  RequestSets'
<1> USE DEF IInv
<1>1. SUFFICES ASSUME NEW c \in Callers
               PROVE  /\ call'[c].ids \cup call'[c].visible \subseteq Committed'
                      /\ call'[c].listed \subseteq call'[c].ids
                      /\ call'[c].left \subseteq call'[c].listed
                      /\ call'[c].update \cup call'[c].create \subseteq call'[c].ids
  BY DEF RequestSets
<1>2. Committed \subseteq Committed'
  BY RowStep DEF Committed
<1>3. /\ call[c].ids \cup call[c].visible \subseteq Committed
      /\ call[c].listed \subseteq call[c].ids
      /\ call[c].left \subseteq call[c].listed
      /\ call[c].update \cup call[c].create \subseteq call[c].ids
  BY DEF RequestSets
<1>4. CASE call'[c] = call[c]
  BY <1>2, <1>3, <1>4
<1>5. ASSUME NEW u \in Users, NEW ids \in SUBSET Committed, NEW first \in ids,
             MarkRequest(c, u, ids, first)
      PROVE  /\ call'[c].ids = ids /\ call'[c].listed = ids
             /\ call'[c].visible = {} /\ call'[c].left = {}
             /\ call'[c].update = {} /\ call'[c].create = {}
  BY <1>5, MarkRequestStep
<1>6. CASE MarkSelectOlder(c)
  <2>1. Older(c) \subseteq Committed
    BY DEF Older
  <2> QED BY <1>2, <1>3, <1>6, <2>1, MarkSelectOlderStep DEF SameRequest
<1>7. CASE MarkSelectMeta(c)
  BY <1>2, <1>3, <1>7, MarkSelectMetaStep DEF SameRequest
<1>8. CASE MarkCommit(c)
  BY <1>2, <1>3, <1>8, MarkCommitStep DEF SameRequest
<1>9. CASE MarkAbort(c)
  BY <1>2, <1>3, <1>9, MarkAbortStep DEF SameRequest
<1>10. CASE MarkAnnounce(c)
  BY <1>2, <1>3, <1>10, MarkAnnounceStep DEF SameRequest
<1> QED BY <1>2, <1>4, <1>5, <1>6, <1>7, <1>8, <1>9, <1>10, RequestCases

\* What one step leaves to a committed message.
LEMMA Stays ==
  ASSUME IInv, [Next]_vars, NEW m \in Committed
  PROVE  /\ created'[m] = created[m]
         /\ status[m] = "READ" => status'[m] = "READ"
         /\ \A u \in Users : meta[m][u] = "read" => meta'[m][u] = "read"
<1>1. m \in Messages
  BY DEF Committed
<1> QED BY <1>1, RowStep, MetaStep DEF IInv

LEMMA RequestCoversStep ==
  ASSUME IInv, [Next]_vars
  PROVE  RequestCovers'
<1> USE DEF IInv
<1>1. SUFFICES ASSUME NEW c \in Callers,
                      call'[c].pc \in {"meta", "write", "announce", "ok"}
               PROVE  /\ \A m \in call'[c].visible :
                           created'[m] < call'[c].since =>
                             m \in call'[c].ids \/ meta'[m][call'[c].user] = "read"
                      /\ call'[c].pc = "write" =>
                           \A m \in call'[c].ids :
                             \/ meta'[m][call'[c].user] = "read"
                             \/ m \in call'[c].update \cup call'[c].create
                      /\ call'[c].pc \in {"announce", "ok"} =>
                           \A m \in call'[c].ids :
                             meta'[m][call'[c].user] = "read" /\ status'[m] = "READ"
  BY DEF RequestCovers
<1>2. call[c].ids \cup call[c].visible \subseteq Committed
  BY DEF RequestSets
<1>3. call[c].pc # "idle" => call[c].user \in Users
  BY DEF TypeOK
<1>4. \A m \in Committed :
        /\ created'[m] = created[m]
        /\ status[m] = "READ" => status'[m] = "READ"
        /\ \A u \in Users : meta[m][u] = "read" => meta'[m][u] = "read"
  BY Stays
<1>5. /\ call[c].pc \in {"meta", "write", "announce", "ok"} =>
           \A m \in call[c].visible :
             created[m] < call[c].since => m \in call[c].ids \/ meta[m][call[c].user] = "read"
      /\ call[c].pc = "write" =>
           \A m \in call[c].ids :
             meta[m][call[c].user] = "read" \/ m \in call[c].update \cup call[c].create
      /\ call[c].pc \in {"announce", "ok"} =>
           \A m \in call[c].ids : meta[m][call[c].user] = "read" /\ status[m] = "READ"
  BY DEF RequestCovers
<1> HIDE DEF IInv
<1>6. CASE call'[c] = call[c]
  BY <1>1, <1>2, <1>3, <1>4, <1>5, <1>6
<1>7. CASE MarkSelectOlder(c)
  <2>1. /\ call[c].pc = "older" /\ call'[c].pc = "meta" /\ SameRequest(c)
        /\ call'[c].ids = call[c].ids \cup Older(c) /\ call'[c].visible = Committed
    BY <1>7, MarkSelectOlderStep DEF IInv
  <2>2. \A m \in Committed : created[m] < call[c].since =>
          m \in Older(c) \/ meta[m][call[c].user] = "read"
    BY DEF Older
  <2> QED BY <1>3, <1>4, <2>1, <2>2 DEF SameRequest
<1>8. CASE MarkSelectMeta(c)
  <2>1. /\ call[c].pc = "meta" /\ call'[c].pc = "write" /\ SameRequest(c)
        /\ call'[c].ids = call[c].ids /\ call'[c].visible = call[c].visible
        /\ call'[c].update = {m \in call[c].ids : meta[m][call[c].user] = "unread"}
        /\ call'[c].create = {m \in call[c].ids : meta[m][call[c].user] = "none"}
    BY <1>8, MarkSelectMetaStep DEF IInv
  <2>2. \A m \in call[c].ids :
          meta[m][call[c].user] = "read" \/ m \in call'[c].update \cup call'[c].create
    <3>1. \A m \in call[c].ids : meta[m][call[c].user] \in {"none", "unread", "read"}
      BY <1>2, <1>3, <2>1 DEF IInv, TypeOK, Committed
    <3> QED BY <2>1, <3>1
  <2> QED BY <1>2, <1>3, <1>4, <1>5, <2>1, <2>2 DEF SameRequest
<1>9. CASE MarkCommit(c)
  <2>1. /\ call[c].pc = "write" /\ call'[c].pc = "announce" /\ SameRequest(c)
        /\ call'[c].ids = call[c].ids /\ call'[c].visible = call[c].visible
    BY <1>9, MarkCommitStep DEF IInv
  <2>2. call[c].user \in Users
    BY <1>3, <2>1
  <2>3. \A m \in call[c].ids : meta'[m][call[c].user] = "read" /\ status'[m] = "READ"
    <3>1. SUFFICES ASSUME NEW m \in call[c].ids
                   PROVE  meta'[m][call[c].user] = "read" /\ status'[m] = "READ"
      OBVIOUS
    <3>2. m \in Committed /\ m \in Messages
      BY <1>2 DEF Committed
    <3>3. status'[m] = "READ"
      BY <1>9, <3>2 DEF MarkCommit, StatusTargets
    <3>4. meta[m][call[c].user] = "read" => meta'[m][call[c].user] = "read"
      BY <1>4, <2>2, <3>2
    <3>5. m \in call[c].update \cup call[c].create => meta'[m][call[c].user] = "read"
      BY <1>9, <2>2, <3>2 DEF MarkCommit, IInv, TypeOK
    <3>6. meta'[m][call'[c].user] = "read"
      BY <1>5, <2>1, <3>4, <3>5 DEF SameRequest
    <3> QED BY <2>1, <3>3, <3>6 DEF SameRequest
  <2> QED BY <1>2, <1>4, <1>5, <2>1, <2>2, <2>3 DEF SameRequest
<1>10. CASE MarkAbort(c)
  <2>1. call'[c].pc = "err"
    BY <1>10, MarkAbortStep DEF IInv
  <2> QED BY <1>1, <2>1
<1>11. CASE MarkAnnounce(c)
  <2>1. /\ call[c].pc = "announce" /\ call'[c].pc \in {"announce", "ok", "err"}
        /\ SameRequest(c)
        /\ call'[c].ids = call[c].ids /\ call'[c].visible = call[c].visible
    BY <1>11, MarkAnnounceStep DEF IInv
  <2> QED BY <1>2, <1>3, <1>4, <1>5, <2>1 DEF SameRequest
<1>12. ASSUME NEW u \in Users, NEW ids \in SUBSET Committed, NEW first \in ids,
              MarkRequest(c, u, ids, first)
       PROVE  call'[c].pc = "older"
  BY <1>12, MarkRequestStep DEF IInv
<1> QED BY <1>1, <1>6, <1>7, <1>8, <1>9, <1>10, <1>11, <1>12, RequestCases DEF IInv

LEMMA ReceiptImpliesStatusStep ==
  ASSUME IInv, [Next]_vars
  PROVE  ReceiptImpliesStatus'
<1> USE DEF IInv
<1>1. SUFFICES ASSUME NEW m \in Messages, NEW u \in Users,
                      meta'[m][u] = "read", u # sender'[m]
               PROVE  status'[m] = "READ"
  BY DEF ReceiptImpliesStatus
<1>2. CASE meta[m][u] = "read"
  <2>1. m \in Committed
    BY <1>2 DEF NoEarlyRows
  <2>2. sender'[m] = sender[m] /\ (status[m] = "READ" => status'[m] = "READ")
    BY <2>1, RowStep
  <2> QED BY <1>1, <1>2, <2>2 DEF ReceiptImpliesStatus
<1>3. CASE meta[m][u] # "read"
  <2>1. m \in Committed' /\ (u = sender[m] \/ status'[m] = "READ")
    BY <1>1, <1>3, MetaStep
  <2>2. sender'[m] = sender[m]
    BY <2>1, RowStep
  <2> QED BY <1>1, <2>1, <2>2
<1> QED BY <1>2, <1>3

LEMMA AnnouncedAreReadStep ==
  ASSUME IInv, [Next]_vars
  PROVE  AnnouncedAreRead'
<1> USE DEF IInv
<1>1. SUFFICES ASSUME NEW m \in Messages, NEW u \in Users, <<m, u>> \in announced'
               PROVE  meta'[m][u] = "read" /\ status'[m] = "READ"
  BY DEF AnnouncedAreRead
<1>2. CASE <<m, u>> \in announced
  <2>1. meta[m][u] = "read" /\ status[m] = "READ"
    BY <1>2 DEF AnnouncedAreRead
  <2>2. m \in Committed
    BY <2>1 DEF NoEarlyRows
  <2> QED BY <2>1, <2>2, Stays
<1>3. CASE <<m, u>> \notin announced
  <2>1. PICK c \in Callers : MarkAnnounce(c)
    <3>1. announced' # announced
      BY <1>1, <1>3
    <3> QED
      BY <3>1 DEF Next, vars, Leave, Join, BeginSave, CommitSave, AbortSave,
         DeleteMessage, ExpireSimple, DispatchFanout, LoseFanout, FanoutSnapshot,
         FanoutError, FanoutBatch, FanoutBatchError, MarkRequest, MarkSelectOlder,
         MarkSelectMeta, MarkCommit, MarkAbort
  <2>2. PICK n \in call[c].left :
          announced' \in {announced, announced \cup {<<n, call[c].user>>}}
    BY <2>1, MarkAnnounceStep
  <2>3. m = n /\ u = call[c].user
    BY <1>1, <1>3, <2>2
  <2>4. m \in call[c].ids /\ m \in Committed
    BY <2>3 DEF RequestSets
  <2>5. call[c].pc = "announce"
    BY <2>1 DEF MarkAnnounce
  <2>6. meta[m][u] = "read" /\ status[m] = "READ"
    BY <2>3, <2>4, <2>5 DEF RequestCovers
  <2> QED BY <2>4, <2>6, Stays
<1> QED BY <1>2, <1>3

\* IInv holds of every behaviour: it holds at first, and every step keeps it.
THEOREM InvariantCorrect == Spec => []IInv
<1>1. Init => IInv
  <2>1. Init => TypeOK
    BY DEF Init, TypeOK, NoFanout, Fanout, FanoutPc, NoCall, Call, CallPc
  <2>2. ASSUME Init
        PROVE  /\ NoEarlyRows /\ FanoutShape /\ UnreadFromFanout /\ TriedExplained
               /\ ReceiptImpliesStatus /\ AnnouncedAreRead
    BY <2>2 DEF Init, NoEarlyRows, FanoutShape, UnreadFromFanout, TriedExplained,
       ReceiptImpliesStatus, AnnouncedAreRead, NoFanout
  <2>3. ASSUME Init
        PROVE  RequestSets /\ RequestCovers
    BY <2>3 DEF Init, RequestSets, RequestCovers, NoCall
  <2> QED BY <2>1, <2>2, <2>3 DEF IInv
<1>2. ASSUME IInv, [Next]_vars
      PROVE  IInv'
  <2>1. TypeOK'
    BY <1>2, TypeStep DEF IInv
  <2> QED BY <1>2, <2>1, NoEarlyRowsStep, FanoutShapeStep, UnreadFromFanoutStep,
             TriedExplainedStep, RequestSetsStep, RequestCoversStep,
             ReceiptImpliesStatusStep, AnnouncedAreReadStep DEF IInv
<1> QED BY <1>1, <1>2, PTL DEF Spec
------------------------------------------------------------------------------
(* What the inductive invariant gives.                                      *)

\* No interleaving of fan-outs, requests, rollbacks and deletions ever takes
\* back a read_at that MarkMessagesAsRead or SaveMessage has written.
THEOREM ReceiptsAreNeverLost == Spec => ReceiptsNeverLost
<1>1. ASSUME IInv, [Next]_vars
      PROVE  [\A m \in Messages, u \in Users :
                meta[m][u] = "read" => meta'[m][u] = "read"]_vars
  BY <1>1, MetaStep DEF IInv
<1> QED BY <1>1, InvariantCorrect, PTL DEF Spec, ReceiptsNeverLost

\* The status column that a sender sees follows the receipts: the last UPDATE of
\* MarkMessagesAsRead leaves none of the messages it marked behind.
THEOREM ReceiptsImplyStatus == Spec => []ReceiptImpliesStatus
<1>1. IInv => ReceiptImpliesStatus
  BY DEF IInv
<1> QED BY <1>1, InvariantCorrect, PTL

\* However the batches of CreateMessageMetaForParticipants are cut and whoever
\* reads in between, the only recipients it leaves out are those it can explain.
THEOREM MissingRowsAreExplained == Spec => []MissingRowsExplained
<1>1. ASSUME IInv
      PROVE  MissingRowsExplained
  <2>1. SUFFICES ASSUME NEW m \in Messages, fanout[m].pc = "done",
                        NEW u \in fanout[m].audience, meta[m][u] = "none"
                 PROVE  Explained(m, u)
    BY DEF MissingRowsExplained, Explained
  <2>2. fanout[m].todo = {}
    BY <1>1, <2>1 DEF IInv, FanoutShape
  <2> QED BY <1>1, <2>1, <2>2 DEF IInv, TriedExplained
<1> QED BY <1>1, InvariantCorrect, PTL

\* A MarkMessagesAsRead that committed has left no message out, whatever other
\* requests, fan-outs and late commits did between its SELECTs and its writes.
THEOREM MarkedAreCovered == Spec => []MarkedCovers
<1>1. ASSUME IInv
      PROVE  MarkedCovers
  <2>1. SUFFICES ASSUME NEW c \in Callers, call[c].pc \in {"announce", "ok"},
                        NEW m \in call[c].listed \cup
                             {n \in call[c].visible : created[n] < call[c].since}
                 PROVE  meta[m][call[c].user] = "read"
    BY DEF MarkedCovers
  <2>2. m \in call[c].ids => meta[m][call[c].user] = "read"
    BY <1>1, <2>1 DEF IInv, RequestCovers
  <2>3. CASE m \in call[c].listed
    BY <1>1, <2>2, <2>3 DEF IInv, RequestSets
  <2>4. CASE m \in call[c].visible /\ created[m] < call[c].since
    BY <1>1, <2>1, <2>2, <2>4 DEF IInv, RequestCovers
  <2> QED BY <2>1, <2>3, <2>4
<1> QED BY <1>1, InvariantCorrect, PTL

\* The handler publishes a READ update only for what its transaction, or another,
\* has committed: no client is told of a receipt that is not there.
THEOREM AnnouncedAreReadAlways == Spec => []AnnouncedAreRead
<1>1. IInv => AnnouncedAreRead
  BY DEF IInv
<1> QED BY <1>1, InvariantCorrect, PTL
==============================================================================
