---------------------------- MODULE RoomCacheProofs ----------------------------
(***************************************************************************)
(* RoomCache, for every number of keys, calls and processes and every       *)
(* assignment of calls to processes: its types, and that invalidations and  *)
(* sweeps do what they are for.  IInv is the inductive invariant; a lemma   *)
(* for each kind of call shows that its steps keep what IInv says of a key. *)
(***************************************************************************)
EXTENDS RoomCache, TLAPS

FillHas(f, k)  == fill[f].key = k /\ fill[f].pc \in {"set", "add"}
SaverHas(s, k) == saver[s].key = k /\ saver[s].pc \in {"set", "add"}
Works(s)       == saver[s].pc \in {"members", "get", "set", "add"}

\* What the steps add to TypeOK: a call that is under way knows its key, a sweep that
\* writes carries its message, and one that works holds the lock of its process.
FillShape  == \A f \in Fills : fill[f].pc # "idle" => fill[f].key \in Keys
SaverShape ==
  \A s \in Savers :
    /\ saver[s].pc # "idle" => saver[s].msg <= messages
    /\ saver[s].pc \in {"set", "add"} => /\ saver[s].key \in Keys
                                         /\ saver[s].val.last = saver[s].msg
LockHeld   == \A s \in Savers : Works(s) => lock[InstanceOf[s]] = s

\* A key that is not suspect.  While nobody invalidates, its entry and every value that
\* is held for it are current, and whatever is in Redis, or about to be written by a
\* sweep, is registered or about to be registered by the fill that wrote it.  While
\* somebody does, nobody holds a value, and its entry is found: by those that are still
\* to read the registry, and by those that have read it and are still to delete.
Quiet(k) ==
  /\ Cached(k) => cache[k].val.rev = changes
  /\ \A f \in Fills : FillHas(f, k) => fill[f].val.rev = changes
  /\ \A s \in Savers : SaverHas(s, k) => saver[s].val.rev = changes
  /\ Cached(k) \/ SweepHolds(k) => k \in registry \/ FillHolds(k)
Found(k) ==
  /\ ~Held(k)
  /\ Cached(k) => /\ k \in registry
                  /\ \A w \in Writers : /\ writer[w].pc = "del" => k \in writer[w].keys
                                        /\ writer[w].pc # "delset"
Fresh(k) == k \notin suspect => IF Invalidating THEN Found(k) ELSE Quiet(k)

\* The sweep of the latest message is still to come to the key.
Comes(s, k) ==
  /\ saver[s].msg = messages
  /\ \/ saver[s].pc \in {"lock", "members"} /\ k \in registry
     \/ saver[s].pc \in {"get", "set", "add"} /\ k \in saver[s].todo
     \/ saver[s].pc = "set" /\ saver[s].key = k

\* A key that is not lagging: no older value of it is held or about to be swept in, and
\* its entry has the latest message or will get it.
Swept(k) ==
  /\ k \notin lagging => ~FillLags(k) /\ (Live(k) => ~SweepBehind)
  /\ Cached(k) /\ k \notin suspect \cup lagging =>
       cache[k].val.last = messages \/ \E s \in Savers : Comes(s, k)

IInv ==
  /\ TypeOK /\ FillShape /\ SaverShape /\ LockHeld
  /\ \A k \in Keys : Fresh(k) /\ Swept(k)
------------------------------------------------------------------------------
\* What an entry of the cache, read or made, is.
LEMMA SlotForms ==
  /\ Absent \in Slot
  /\ \A v \in Entry : Present(v) \in Slot
  /\ \A x \in Slot : x.val \in Entry
<1>1. NoEntry \in Entry
  BY SMT DEF NoEntry, Entry
<1> QED BY <1>1, Zenon DEF Slot, Absent, Present

\* The values that the steps make of a sweep.
LEMMA SaverForms ==
  ASSUME NEW x \in Saver
  PROVE  /\ \A p \in SaverPc : [x EXCEPT !.pc = p] \in Saver
         /\ \A k \in Keys : [x EXCEPT !.key = k] \in Saver
         /\ \A T \in SUBSET Keys : [x EXCEPT !.todo = T] \in Saver
         /\ \A v \in Entry : [x EXCEPT !.val = v] \in Saver
BY Zenon DEF Saver

\* A sweep that has found the entry v of a key.
Hit(x, k, T, v) == [x EXCEPT !.pc = "set", !.key = k, !.todo = T, !.val = v]
\* What SaveGet makes of the sweep x when it finds the entry v of the key k.
LEMMA SaverHit ==
  ASSUME NEW x \in Saver, NEW k \in Keys, NEW T \in SUBSET Keys, NEW v \in Entry
  PROVE  /\ Hit(x, k, T, v) \in Saver /\ Hit(x, k, T, v).pc = "set" /\ Hit(x, k, T, v).key = k
         /\ Hit(x, k, T, v).todo = T /\ Hit(x, k, T, v).val = v /\ Hit(x, k, T, v).msg = x.msg
<1> DEFINE a == [x EXCEPT !.pc = "set"]
           b == [a EXCEPT !.key = k]
           c == [b EXCEPT !.todo = T]
           d == [c EXCEPT !.val = v]
<1> DEFINE hit == Hit(x, k, T, v)
<1>1. hit = d
  BY SMT DEF Hit
<1>2. hit.pc = "set" /\ hit.key = k /\ hit.todo = T /\ hit.val = v /\ hit.msg = x.msg
  BY SMT DEF Saver, Hit
<1>3. a \in Saver
  BY SaverForms, Zenon DEF SaverPc
<1> HIDE DEF a
<1>4. b \in Saver
  BY <1>3, SaverForms, Zenon
<1> HIDE DEF b
<1>5. c \in Saver
  BY <1>4, SaverForms, Zenon
<1> HIDE DEF c
<1>6. d \in Saver
  BY <1>5, SaverForms, Zenon
<1> HIDE DEF d
<1>7. hit \in Saver
  BY <1>1, <1>6
<1> QED BY <1>2, <1>7

\* Nothing is cached, held or under way at first.
LEMMA InitInv == Init => IInv
<1> SUFFICES ASSUME Init PROVE IInv
  OBVIOUS
<1> USE RoomCacheAssumption
<1>1. TypeOK
  <2>1. cache \in [Keys -> Slot]
    BY SlotForms, Zenon DEF Init
  <2>2. fill \in [Fills -> Fill]
    BY SMT DEF Init, NoFill, Fill, FillPc, NoEntry, Entry
  <2>3. writer \in [Writers -> Writer]
    BY SMT DEF Init, NoWriter, Writer, WriterPc
  <2>4. saver \in [Savers -> Saver]
    BY SMT DEF Init, NoSaver, Saver, SaverPc, NoEntry, Entry
  <2> QED BY <2>1, <2>2, <2>3, <2>4, SMT DEF Init, TypeOK
<1>2. FillShape /\ SaverShape /\ LockHeld
  BY SMT DEF Init, FillShape, SaverShape, LockHeld, Works, NoFill, NoSaver
<1>3. ASSUME NEW k \in Keys PROVE Fresh(k) /\ Swept(k)
  <2>1. ~Cached(k)
    BY Zenon DEF Init, Cached, Absent
  <2>2. ~Held(k) /\ ~FillLags(k) /\ ~Invalidating
    BY SMT DEF Init, Held, FillHolds, SweepHolds, FillLags, Invalidating, NoFill, NoSaver, NoWriter
  <2> QED BY <2>1, <2>2, Zenon DEF Fresh, Quiet, Swept, Live, Held, FillHolds, SweepHolds, FillHas,
             SaverHas
<1> QED BY <1>1, <1>2, <1>3 DEF IInv
------------------------------------------------------------------------------
\* A fill changes the cache and the registry, and knows its key as long as it runs.
LEMMA FillTypes ==
  ASSUME TypeOK, FillShape, NEW f \in Fills,
         \/ \E k \in Keys : FillMiss(f, k)
         \/ FillStep(f) \/ FillAddFails(f)
  PROVE  /\ fill' \in [Fills -> Fill] /\ FillShape'
         /\ cache' \in [Keys -> Slot] /\ registry' \subseteq Keys
         /\ UNCHANGED <<changes, messages, writer, saver, lock>>
<1>1. ASSUME NEW k \in Keys, FillMiss(f, k)
      PROVE  /\ fill' \in [Fills -> Fill] /\ FillShape'
             /\ UNCHANGED <<cache, registry, changes, messages, writer, saver, lock>>
  <2> DEFINE new == [NoFill EXCEPT !.pc = "query", !.key = k]
             some == [NoFill EXCEPT !.pc = "query"]
             same == [some EXCEPT !.key = k]
  <2>1. new = same
    BY SMT
  <2>4. NoFill \in Fill
    BY SMT DEF NoFill, Fill, FillPc, NoEntry, Entry
  <2>5. some \in Fill
    BY <2>4, Zenon DEF Fill, FillPc
  <2> HIDE DEF some
  <2>2. same \in Fill /\ same.key = k
    BY <2>5, SMT DEF Fill
  <2>3. /\ fill' = [fill EXCEPT ![f] = new]
        /\ UNCHANGED <<cache, registry, changes, messages, writer, saver, lock>>
    BY <1>1, Zenon DEF FillMiss, db
  <2> HIDE DEF new, same
  <2> QED BY <2>1, <2>2, <2>3, SMT DEF TypeOK, FillShape
<1>2. ASSUME FillQuery(f)
      PROVE  /\ fill' \in [Fills -> Fill] /\ FillShape'
             /\ UNCHANGED <<cache, registry, changes, messages, writer, saver, lock>>
  <2>1. PICK n \in LastShown :
          fill' = [fill EXCEPT ![f].pc = "set", ![f].val = [rev |-> changes, last |-> n]]
    BY <1>2, Zenon DEF FillQuery
  <2> DEFINE v == [rev |-> changes, last |-> n]
             mid == [fill EXCEPT ![f].pc = "set"]
  <2>2. v \in Entry
    BY SMT DEF Entry, LastShown, TypeOK
  <2>3. fill' = [mid EXCEPT ![f].val = v]
    BY <2>1, SMT
  <2>4. mid \in [Fills -> Fill] /\ \A g \in Fills : mid[g].key = fill[g].key
    BY SMT DEF TypeOK, Fill, FillPc
  <2> HIDE DEF v, mid
  <2>5. fill' \in [Fills -> Fill] /\ \A g \in Fills : fill'[g].key = mid[g].key
    BY <2>2, <2>3, <2>4, SMT DEF Fill
  <2>6. fill[f].pc # "idle" /\ \A g \in Fills \ {f} : fill'[g] = fill[g]
    BY <1>2, <2>1, SMT DEF FillQuery, TypeOK
  <2>7. FillShape'
    BY <2>4, <2>5, <2>6, SMT DEF FillShape
  <2> QED BY <1>2, <2>5, <2>7, Zenon DEF FillQuery, db
<1>3. ASSUME FillNone(f) \/ FillAddFails(f)
      PROVE  /\ fill' \in [Fills -> Fill] /\ FillShape'
             /\ UNCHANGED <<cache, registry, changes, messages, writer, saver, lock>>
  BY <1>3, SMT DEF FillNone, FillAddFails, TypeOK, Fill, FillPc, FillShape, NoFill, NoEntry, Entry,
     db
<1>4. ASSUME FillSetFails(f)
      PROVE  /\ fill' \in [Fills -> Fill] /\ FillShape'
             /\ UNCHANGED <<cache, registry, changes, messages, writer, saver, lock>>
  BY <1>4, SMT DEF FillSetFails, TypeOK, Fill, FillPc, FillShape, Entry, db
<1>5. ASSUME FillSet(f)
      PROVE  /\ fill' \in [Fills -> Fill] /\ FillShape' /\ cache' \in [Keys -> Slot] 
             /\ UNCHANGED <<registry, changes, messages, writer, saver, lock>>
  <2>1. Present(fill[f].val) \in Slot
    BY SlotForms, Zenon DEF TypeOK, Fill
  <2>2. cache' \in [Keys -> Slot]
    BY <1>5, <2>1, Zenon DEF FillSet, TypeOK
  <2> QED BY <1>5, <2>2, SMT DEF FillSet, TypeOK, Fill, FillPc, FillShape, Entry, db
<1>6. ASSUME FillAdd(f)
      PROVE  /\ fill' \in [Fills -> Fill] /\ FillShape' /\ registry' \subseteq Keys
             /\ UNCHANGED <<cache, changes, messages, writer, saver, lock>>
  BY <1>6, SMT DEF FillAdd, TypeOK, Fill, FillPc, FillShape, NoFill, NoEntry, Entry, db
<1> QED BY <1>1, <1>2, <1>3, <1>4, <1>5, <1>6, SMT DEF FillStep, TypeOK

\* An invalidation changes the database's counter, the cache and the registry.
LEMMA WriterTypes ==
  ASSUME TypeOK, NEW w \in Writers,
         WriteCommit(w) \/ WriteStep(w) \/ WriteMembersFails(w) \/ WriteDelFails(w)
  PROVE  /\ writer' \in [Writers -> Writer] /\ changes' \in Nat
         /\ cache' \in [Keys -> Slot] /\ registry' \subseteq Keys
         /\ UNCHANGED <<messages, fill, saver, lock>>
<1>1. ASSUME WriteDel(w) PROVE cache' \in [Keys -> Slot]
  BY <1>1, SlotForms, Zenon DEF WriteDel, TypeOK
<1>2. ASSUME ~WriteDel(w) PROVE cache' = cache
  BY <1>2, Zenon DEF WriteCommit, WriteStep, WriteMembers, WriteDelSet, WriteMembersFails,
     WriteDelFails, WriteDelSetFails
<1>3. cache' \in [Keys -> Slot]
  BY <1>1, <1>2, Zenon DEF TypeOK
<1>4. writer' \in [Writers -> Writer]
  BY SMT DEF TypeOK, Writer, WriterPc, NoWriter, WriteCommit, WriteStep, WriteMembers, WriteDel,
     WriteDelSet, WriteMembersFails, WriteDelFails, WriteDelSetFails
<1>5. /\ changes' \in Nat /\ registry' \subseteq Keys
      /\ UNCHANGED <<messages, fill, saver, lock>>
  BY SMT DEF TypeOK, WriteCommit, WriteStep, WriteMembers, WriteDel, WriteDelSet,
     WriteMembersFails, WriteDelFails, WriteDelSetFails, db
<1> QED BY <1>3, <1>4, <1>5

\* A sweep changes all but the invalidations and fills, and carries its own message.
LEMMA SaverTypes ==
  ASSUME TypeOK, SaverShape, NEW s \in Savers,
         SaveCommit(s) \/ SaveStep(s) \/ SaveMembersFails(s) \/ SaveSetFails(s)
  PROVE  /\ saver' \in [Savers -> Saver] /\ SaverShape' /\ messages' \in Nat
         /\ cache' \in [Keys -> Slot] /\ registry' \subseteq Keys
         /\ lock' \in [Instances -> Savers \cup {Nothing}]
         /\ UNCHANGED <<changes, fill, writer>>
<1>1. ASSUME SaveSet(s) PROVE cache' \in [Keys -> Slot]
  <2>1. Present(saver[s].val) \in Slot
    BY SlotForms, Zenon DEF TypeOK, Saver
  <2> QED BY <1>1, <2>1, Zenon DEF SaveSet, TypeOK
<1>2. ASSUME ~SaveSet(s) PROVE cache' = cache
  BY <1>2, Zenon DEF SaveCommit, SaveStep, SaveLock, SaveMembers, SaveGet, SaveAdd, SaveUnlock,
     SaveAddFails, SaveMembersFails, SaveSetFails
<1>3. cache' \in [Keys -> Slot]
  BY <1>1, <1>2, Zenon DEF TypeOK
<1>4. registry' \subseteq Keys
  <2>1. CASE SaveAdd(s)
    BY <2>1, SMT DEF SaveAdd, TypeOK, SaverShape
  <2>2. CASE ~SaveAdd(s)
    <3>1. registry' = registry
      BY <2>2, Zenon DEF SaveCommit, SaveStep, SaveLock, SaveMembers, SaveGet, SaveSet, SaveUnlock,
         SaveAddFails, SaveMembersFails, SaveSetFails
    <3> QED BY <3>1, Zenon DEF TypeOK
  <2> QED BY <2>1, <2>2
<1>10. messages' \in Nat
  <2>1. messages' = messages \/ messages' = messages + 1
    BY Zenon DEF SaveCommit, SaveStep, SaveLock, SaveMembers, SaveGet, SaveSet, SaveAdd,
       SaveUnlock, SaveAddFails, SaveMembersFails, SaveSetFails, db
  <2> QED BY <2>1, SMT DEF TypeOK
<1>11. UNCHANGED <<changes, fill, writer>>
  BY Zenon DEF SaveCommit, SaveStep, SaveLock, SaveMembers, SaveGet, SaveSet, SaveAdd, SaveUnlock,
     SaveAddFails, SaveMembersFails, SaveSetFails, db
<1>5. lock' \in [Instances -> Savers \cup {Nothing}]
  <2>1. CASE SaveLock(s)
    BY <2>1, Zenon DEF SaveLock, TypeOK
  <2>2. CASE SaveUnlock(s) \/ SaveMembersFails(s)
    BY <2>2, Zenon DEF SaveUnlock, SaveMembersFails, Release, TypeOK
  <2>3. CASE ~(SaveLock(s) \/ SaveUnlock(s) \/ SaveMembersFails(s))
    <3>1. lock' = lock
      BY <2>3, Zenon DEF SaveCommit, SaveStep, SaveMembers, SaveGet, SaveSet, SaveAdd,
         SaveAddFails, SaveSetFails
    <3> QED BY <3>1, Zenon DEF TypeOK
  <2> QED BY <2>1, <2>2, <2>3
<1>6. ASSUME SaveGet(s) PROVE saver' \in [Savers -> Saver] /\ SaverShape'
  <2>1. PICK k \in saver[s].todo : 
          saver' = [saver EXCEPT
         ![s] = IF Cached(k)
                THEN [@ EXCEPT !.pc = "set", !.key = k, !.todo = saver[s].todo \ {k},
                               !.val = [cache[k].val EXCEPT !.last = saver[s].msg]]
                ELSE [@ EXCEPT !.todo = saver[s].todo \ {k}]]
    BY <1>6, Zenon DEF SaveGet
  <2> DEFINE v == [cache[k].val EXCEPT !.last = saver[s].msg]
             T == saver[s].todo \ {k}
             hit == Hit(saver[s], k, T, v)
             miss == [saver[s] EXCEPT !.todo = T]
  <2>2. saver' = [saver EXCEPT ![s] = IF Cached(k) THEN hit ELSE miss]
    <3>1. CASE Cached(k)
      BY <2>1, <3>1, Zenon DEF Hit
    <3>2. CASE ~Cached(k)
      BY <2>1, <3>2, Zenon
    <3> QED BY <3>1, <3>2
  <2>3. k \in Keys /\ T \in SUBSET Keys
    BY SMT DEF TypeOK, Saver
  <2>4. v \in Entry /\ v.last = saver[s].msg
    <3>1. cache[k].val \in Entry
      BY <2>3, SlotForms, Zenon DEF TypeOK
    <3> QED BY <3>1, SMT DEF TypeOK, Saver, Entry
  <2>5. miss \in Saver /\ miss.pc = "get" /\ miss.msg = saver[s].msg
    BY <1>6, <2>3, SMT DEF TypeOK, Saver, SaveGet
  <2> HIDE DEF v, T
  <2>6. /\ hit \in Saver /\ hit.pc = "set" /\ hit.key = k /\ hit.todo = T /\ hit.val = v
        /\ hit.msg = saver[s].msg
    <3>1. saver[s] \in Saver
      BY SMT DEF TypeOK
    <3>3. k \in Keys
      BY <2>3
    <3>4. T \in SUBSET Keys
      BY <2>3
    <3>5. v \in Entry
      BY <2>4
    <3> HIDE DEF miss
    <3> QED BY <3>1, <3>3, <3>4, <3>5, SaverHit
  <2>7. messages' = messages /\ saver[s].pc = "get"
    BY <1>6, Zenon DEF SaveGet, db
  <2> HIDE DEF hit, miss
  <2>8. saver' \in [Savers -> Saver]
    BY <2>2, <2>5, <2>6, SMT DEF TypeOK
  <2>9. SaverShape'
    BY <2>2, <2>3, <2>4, <2>5, <2>6, <2>7, SMT DEF SaverShape, TypeOK
  <2> QED BY <2>8, <2>9
<1>7. ASSUME ~SaveGet(s) PROVE saver' \in [Savers -> Saver]
  BY <1>7, SMT DEF SaveCommit, SaveStep, SaveLock, SaveMembers, SaveSet, SaveAdd, SaveUnlock,
     SaveAddFails, SaveMembersFails, SaveSetFails, TypeOK, Release, Saver, SaverPc, NoSaver,
     NoEntry, Entry
<1>8. ASSUME ~SaveGet(s) PROVE SaverShape'
  BY <1>8, SMT DEF SaveCommit, SaveStep, SaveLock, SaveMembers, SaveSet, SaveAdd, SaveUnlock,
     SaveAddFails, SaveMembersFails, SaveSetFails, TypeOK, Release, Saver, NoSaver, NoEntry, Entry,
     SaverShape, db
<1> QED BY <1>3, <1>4, <1>11, <1>10, <1>5, <1>6, <1>7, <1>8
------------------------------------------------------------------------------
\* What Track says of a key with an entry or a value that is not suspect after a step.
LEMMA TrackedSuspect ==
  ASSUME NEW k \in Keys, NEW M, NEW U, Track(M, U), k \notin suspect', Live(k)'
  PROVE  k \notin suspect /\ k \notin M /\ ~(Held(k)' /\ Invalidating')
BY Zenon DEF Track

\* What Track says of a key with an entry or a value that is not lagging after a step.
LEMMA TrackedLagging ==
  ASSUME NEW k \in Keys, NEW M, NEW U, Track(M, U), k \notin lagging', Live(k)'
  PROVE  k \notin lagging /\ k \notin U /\ ~FillLags(k)' /\ ~SweepBehind'
BY Zenon DEF Track

\* Nothing is to be shown of a key that has no entry and of which nobody holds a value.
LEMMA DeadFresh ==
  ASSUME NEW k \in Keys, ~Live(k)'
  PROVE  Fresh(k)'
BY SMT DEF Live, Held, FillHolds, SweepHolds, Fresh, Found, Quiet, FillHas, SaverHas

\* What GetRoom reads is current, and stays so unless an invalidation begins, which makes the
\* key suspect.
LEMMA FillFresh ==
  ASSUME TypeOK, FillShape, NEW k \in Keys, Fresh(k), NEW f \in Fills,
         NEW M, Track(M, {}),
         \/ (\E l \in Keys : FillMiss(f, l)) \/ FillStep(f)
         \/ FillAddFails(f) /\ M = {fill[f].key}
  PROVE  Fresh(k)'
<1> SUFFICES ASSUME k \notin suspect', Live(k)' PROVE Fresh(k)'
  BY DeadFresh, Zenon DEF Fresh
<1>0. k \notin suspect /\ k \notin M /\ ~(Held(k)' /\ Invalidating')
  BY TrackedSuspect
<1>1. UNCHANGED <<changes, messages, writer, saver, lock>>
  BY FillTypes, Zenon DEF FillMiss, FillStep, FillQuery, FillNone, FillSet, FillAdd, FillSetFails,
     FillAddFails, db
<1>2. \A g \in Fills \ {f} : fill'[g] = fill[g]
  <2>1. ASSUME NEW l \in Keys, FillMiss(f, l) PROVE \A g \in Fills \ {f} : fill'[g] = fill[g]
    BY <2>1, Zenon DEF TypeOK, FillMiss
  <2> QED BY <2>1, SMT DEF TypeOK, FillStep, FillQuery, FillNone, FillSet, FillAdd, FillSetFails,
             FillAddFails
<1>3. CASE (\E l \in Keys : FillMiss(f, l)) \/ FillNone(f)
  <2>1. fill'[f].pc \notin {"set", "add"} /\ fill[f].pc \notin {"set", "add"}
    <3>1. ASSUME NEW l \in Keys, FillMiss(f, l)
          PROVE  fill'[f].pc = "query" /\ fill[f].pc = "idle"
      <4>1. fill'[f] = [NoFill EXCEPT !.pc = "query", !.key = l] /\ fill[f].pc = "idle"
        BY <3>1, Zenon DEF TypeOK, FillMiss
      <4>2. [NoFill EXCEPT !.pc = "query", !.key = l].pc = "query"
        BY SMT DEF NoFill
      <4> QED BY <4>1, <4>2
    <3>2. ASSUME FillNone(f)
          PROVE  fill'[f].pc = "idle" /\ fill[f].pc = "query"
      BY <3>2, SMT DEF TypeOK, FillNone, NoFill
    <3> QED BY <1>3, <3>1, <3>2, SMT
  <2>2. UNCHANGED <<cache, registry>>
    BY <1>3, Zenon DEF FillMiss, FillNone
  <2> QED BY <1>0, <1>1, <1>2, <2>1, <2>2, SMT DEF Fresh, Quiet, Found, Held, FillHolds,
             SweepHolds, FillHas, SaverHas, Invalidating, Cached
<1>4. CASE FillQuery(f)
  <2>1. /\ fill[f].pc = "query" /\ fill'[f].pc = "set" /\ fill'[f].key = fill[f].key 
        /\ fill'[f].val.rev = changes
    BY <1>4, SMT DEF TypeOK, FillQuery, Fill
  <2>2. UNCHANGED <<cache, registry>>
    BY <1>4, Zenon DEF FillQuery
  <2> QED BY <1>0, <1>1, <1>2, <2>1, <2>2, SMT DEF Fresh, Quiet, Found, Held, FillHolds,
             SweepHolds, FillHas, SaverHas, Invalidating, Cached
<1>5. CASE FillSet(f) \/ FillSetFails(f)
  <2>1. /\ fill[f].pc = "set" /\ fill'[f].pc = "add" /\ fill'[f].key = fill[f].key 
        /\ fill'[f].val = fill[f].val
    BY <1>5, SMT DEF TypeOK, FillSet, FillSetFails, Fill
  <2>2. UNCHANGED registry
    BY <1>5, Zenon DEF FillSet, FillSetFails
  <2>3. \/ cache'[k] = cache[k]
        \/ fill[f].key = k /\ cache'[k] = Present(fill[f].val)
    BY <1>5, SMT DEF TypeOK, FillSet, FillSetFails
  <2> QED BY <1>0, <1>1, <1>2, <2>1, <2>2, <2>3, SMT DEF Fresh, Quiet, Found, Held, FillHolds,
             SweepHolds, FillHas, SaverHas, Invalidating, Cached, Present
<1>6. CASE FillAdd(f)
  <2>1. /\ fill[f].pc = "add" /\ fill'[f].pc = "idle" 
        /\ registry' = registry \cup {fill[f].key}
    BY <1>6, SMT DEF TypeOK, FillAdd, NoFill
  <2>2. UNCHANGED cache
    BY <1>6, Zenon DEF FillAdd
  <2> QED BY <1>0, <1>1, <1>2, <2>1, <2>2, SMT DEF Fresh, Quiet, Found, Held, FillHolds,
             SweepHolds, FillHas, SaverHas, Invalidating, Cached
<1>7. CASE FillAddFails(f) /\ M = {fill[f].key}
  <2>1. /\ fill[f].pc = "add" /\ fill'[f].pc = "idle" /\ fill[f].key # k
    BY <1>7, <1>0, SMT DEF TypeOK, FillAddFails, NoFill
  <2>2. UNCHANGED <<cache, registry>>
    BY <1>7, Zenon DEF FillAddFails
  <2> QED BY <1>0, <1>1, <1>2, <2>1, <2>2, SMT DEF Fresh, Quiet, Found, Held, FillHolds,
             SweepHolds, FillHas, SaverHas, Invalidating, Cached
<1> QED BY <1>3, <1>4, <1>5, <1>6, <1>7 DEF FillStep

\* An entry that expires leaves no other behind.
LEMMA ExpireFresh ==
  ASSUME TypeOK, NEW k \in Keys, Fresh(k), NEW l \in Keys, Expire(l), Track({}, {})
  PROVE  Fresh(k)'
<1> SUFFICES ASSUME k \notin suspect', Live(k)' PROVE Fresh(k)'
  BY DeadFresh, Zenon DEF Fresh
<1>0. k \notin suspect /\ ~(Held(k)' /\ Invalidating')
  BY TrackedSuspect
<1>1. UNCHANGED <<changes, messages, registry, fill, writer, saver, lock>>
  BY Zenon DEF Expire, db
<1>2. cache'[k] = cache[k] \/ cache'[k] = Absent
  BY SMT DEF Expire, TypeOK
<1>3. Cached(k)' => cache'[k] = cache[k]
  <2>1. Absent.present = FALSE
    BY SMT DEF Absent
  <2> QED BY <1>2, <2>1, Zenon DEF Cached
<1> QED BY <1>0, <1>1, <1>3, SMT DEF Fresh, Quiet, Found, Held, FillHolds, SweepHolds, FillHas,
           SaverHas, Invalidating, Cached

\* An invalidation deletes every entry of a key that is not suspect before it ends.
LEMMA WriterFresh ==
  ASSUME TypeOK, NEW k \in Keys, Fresh(k), NEW w \in Writers,
         NEW M, Track(M, {}),
         \/ WriteCommit(w) \/ WriteStep(w)
         \/ WriteMembersFails(w) /\ M = Keys
         \/ WriteDelFails(w) /\ M = writer[w].keys
  PROVE  Fresh(k)'
<1> SUFFICES ASSUME k \notin suspect', Live(k)' PROVE Fresh(k)'
  BY DeadFresh, Zenon DEF Fresh
<1>0. k \notin suspect /\ k \notin M /\ ~(Held(k)' /\ Invalidating')
  BY TrackedSuspect
<1>1. UNCHANGED <<messages, fill, saver, lock>>
  BY WriterTypes, Zenon
<1>2. \A v \in Writers \ {w} : writer'[v] = writer[v]
  BY SMT DEF TypeOK, WriteCommit, WriteStep, WriteMembers, WriteDel, WriteDelSet, WriteDelSetFails,
     WriteMembersFails, WriteDelFails
<1>3. Held(k)' <=> Held(k)
  BY <1>1, Zenon DEF Held, FillHolds, SweepHolds
<1>4. CASE WriteCommit(w)
  <2>1. writer[w].pc = "idle" /\ writer'[w].pc = "members" /\ UNCHANGED <<cache, registry>>
    BY <1>4, SMT DEF TypeOK, WriteCommit, Writer
  <2>2. Invalidating' /\ ~Held(k) /\ ~FillHolds(k) /\ ~SweepHolds(k)
    BY <1>0, <1>3, <2>1, SMT DEF Invalidating, Held
  <2>3. CASE Invalidating
    <3>1. Found(k)
      BY <1>0, <2>3, Zenon DEF Fresh
    <3> QED BY <1>2, <1>3, <2>1, <2>2, <3>1, SMT DEF Fresh, Found, Cached
  <2>4. CASE ~Invalidating
    <3>1. Cached(k) => k \in registry
      BY <1>0, <2>2, <2>4, Zenon DEF Fresh, Quiet
    <3>2. \A v \in Writers : writer'[v].pc \in {"idle", "members"}
      BY <1>2, <2>1, <2>4, SMT DEF Invalidating
    <3> QED BY <1>3, <2>1, <2>2, <3>1, <3>2, SMT DEF Fresh, Found, Cached
  <2> QED BY <2>3, <2>4
<1>5. ASSUME ~WriteCommit(w) PROVE writer[w].pc # "idle"
  BY <1>5, Zenon DEF WriteStep, WriteMembers, WriteDel, WriteDelSet, WriteDelSetFails,
     WriteMembersFails, WriteDelFails
<1>6. ASSUME ~WriteCommit(w) PROVE Found(k)
  BY <1>0, <1>5, <1>6, Zenon DEF Fresh, Invalidating
<1>7. CASE WriteMembers(w)
  <2>1. /\ writer'[w].pc = "del" /\ writer'[w].keys = registry
        /\ UNCHANGED <<cache, registry>> /\ writer[w].pc = "members"
    BY <1>7, SMT DEF TypeOK, WriteMembers
  <2>2. Found(k)
    BY <1>6, <2>1, SMT DEF WriteCommit
  <2> QED BY <1>2, <1>3, <2>1, <2>2, SMT DEF Fresh, Found, Cached, Invalidating
<1>8. CASE WriteDel(w)
  <2>1. writer[w].pc = "del" /\ (k \in writer[w].keys => cache'[k] = Absent)
        /\ (k \notin writer[w].keys => cache'[k] = cache[k])
    BY <1>8, Zenon DEF WriteDel
  <2>2. Absent.present = FALSE
    BY SMT DEF Absent
  <2>3. Found(k)
    BY <1>6, <2>1, SMT DEF WriteCommit
  <2>4. ~Live(k)'
    BY <1>3, <2>1, <2>2, <2>3, Zenon DEF Live, Found, Cached
  <2> QED BY <2>4
<1>9. CASE ~(WriteCommit(w) \/ WriteMembers(w) \/ WriteDel(w))
  <2>1. UNCHANGED cache
    BY <1>9, Zenon DEF WriteStep, WriteDelSet, WriteDelSetFails, WriteMembersFails, WriteDelFails
  <2>2. Cached(k) /\ Found(k)
    BY <1>3, <1>6, <1>9, <2>1, Zenon DEF Live, Found, Cached
  <2>3. ASSUME writer[w].pc = "delset" PROVE FALSE
    BY <2>2, <2>3, Zenon DEF Found
  <2>4. ASSUME WriteDelFails(w), M = writer[w].keys PROVE FALSE
    BY <1>0, <2>2, <2>4, Zenon DEF Found, WriteDelFails
  <2>5. ASSUME WriteMembersFails(w), M = Keys PROVE FALSE
    BY <1>0, <2>5
  <2> QED BY <1>9, <2>3, <2>4, <2>5, Zenon DEF WriteStep, WriteDelSet, WriteDelSetFails
<1> QED BY <1>4, <1>7, <1>8, <1>9

\* A step of a sweep leaves the other sweeps alone.
LEMMA SaverOthers ==
  ASSUME TypeOK, NEW s \in Savers,
         SaveCommit(s) \/ SaveStep(s) \/ SaveMembersFails(s) \/ SaveSetFails(s)
  PROVE  \A t \in Savers \ {s} : saver'[t] = saver[t]
<1>1. CASE SaveGet(s)
  BY <1>1, SMT DEF TypeOK, SaveGet
<1>2. CASE SaveAdd(s) \/ SaveAddFails(s)
  BY <1>2, SMT DEF TypeOK, SaveAdd, SaveAddFails
<1>3. CASE \/ SaveCommit(s) \/ SaveLock(s) \/ SaveMembers(s) \/ SaveSet(s)
           \/ SaveUnlock(s) \/ SaveMembersFails(s) \/ SaveSetFails(s)
  BY <1>3, SMT DEF TypeOK, SaveCommit, SaveLock, SaveMembers, SaveSet, SaveUnlock,
     SaveMembersFails, SaveSetFails, Release
<1> QED BY <1>1, <1>2, <1>3, Zenon DEF SaveStep

\* SaveCommit: the next message.
LEMMA CommitEffect ==
  ASSUME TypeOK, NEW s \in Savers, SaveCommit(s)
  PROVE  /\ saver[s].pc = "idle" /\ saver'[s].pc = "lock" /\ saver'[s].msg = messages + 1
         /\ messages' = messages + 1 /\ UNCHANGED <<changes, cache, registry, fill, writer, lock>>
BY SMT DEF TypeOK, SaveCommit, Saver

\* SaveLock: a free lock is taken.
LEMMA LockEffect ==
  ASSUME TypeOK, NEW s \in Savers, SaveLock(s)
  PROVE  /\ saver[s].pc = "lock" /\ saver'[s].pc = "members" /\ saver'[s].msg = saver[s].msg
         /\ lock[InstanceOf[s]] = Nothing /\ lock' = [lock EXCEPT ![InstanceOf[s]] = s]
         /\ UNCHANGED <<changes, messages, cache, registry, fill, writer>>
BY SMT DEF TypeOK, SaveLock, Saver, db

\* SaveMembers: the registered keys are to be swept.
LEMMA MembersEffect ==
  ASSUME TypeOK, NEW s \in Savers, SaveMembers(s)
  PROVE  /\ saver[s].pc = "members" /\ saver'[s].pc = "get" /\ saver'[s].msg = saver[s].msg
         /\ saver'[s].todo = registry
         /\ UNCHANGED <<changes, messages, cache, registry, fill, writer, lock>>
BY SMT DEF TypeOK, SaveMembers, Saver, db

\* SaveGet finds the entry of a key, or misses one.
LEMMA GetEffect ==
  ASSUME TypeOK, NEW s \in Savers, SaveGet(s)
  PROVE  /\ saver[s].pc = "get" /\ saver'[s].msg = saver[s].msg
         /\ UNCHANGED <<changes, messages, cache, registry, fill, writer, lock>>
         /\ \E k \in saver[s].todo :
              /\ k \in Keys /\ saver'[s].todo = saver[s].todo \ {k}
              /\ IF Cached(k) THEN /\ saver'[s].pc = "set" /\ saver'[s].key = k
                                   /\ saver'[s].val.rev = cache[k].val.rev
                                   /\ saver'[s].val.last = saver[s].msg
                 ELSE saver'[s].pc = "get"
<1>1. PICK k \in saver[s].todo : 
        saver' = [saver EXCEPT
         ![s] = IF Cached(k)
                THEN [@ EXCEPT !.pc = "set", !.key = k, !.todo = saver[s].todo \ {k},
                               !.val = [cache[k].val EXCEPT !.last = saver[s].msg]]
                ELSE [@ EXCEPT !.todo = saver[s].todo \ {k}]]
  BY Zenon DEF SaveGet
<1>2. saver[s].pc = "get" /\ UNCHANGED <<changes, messages, cache, registry, fill, writer, lock>>
  BY Zenon DEF SaveGet, db
<1> DEFINE v == [cache[k].val EXCEPT !.last = saver[s].msg]
           T == saver[s].todo \ {k}
           hit == Hit(saver[s], k, T, v)
           miss == [saver[s] EXCEPT !.todo = T]
<1>3. k \in Keys /\ saver[s] \in Saver
  BY SMT DEF TypeOK, Saver
<1>4. v.rev = cache[k].val.rev /\ v.last = saver[s].msg /\ v \in Entry
  <2>1. cache[k].val \in Entry
    BY <1>3, SlotForms, Zenon DEF TypeOK
  <2> QED BY <2>1, SMT DEF TypeOK, Saver, Entry
<1>5. T \in SUBSET Keys
  BY <1>3, SMT DEF Saver
<1>6. miss.todo = T /\ miss.pc = "get" /\ miss.msg = saver[s].msg
  BY <1>2, <1>3, SMT DEF Saver
<1>7. saver'[s] = IF Cached(k) THEN hit ELSE miss
  BY <1>1, Zenon DEF Hit, TypeOK
<1> HIDE DEF v, T, miss
<1>8. hit.pc = "set" /\ hit.key = k /\ hit.todo = T /\ hit.val = v /\ hit.msg = saver[s].msg
  BY <1>3, <1>4, <1>5, SaverHit
<1> HIDE DEF hit
<1>9. saver'[s].msg = saver[s].msg /\ saver'[s].todo = T
  BY <1>6, <1>7, <1>8, SMT
<1>10. IF Cached(k) THEN /\ saver'[s].pc = "set" /\ saver'[s].key = k
                         /\ saver'[s].val.rev = cache[k].val.rev
                         /\ saver'[s].val.last = saver[s].msg
       ELSE saver'[s].pc = "get"
  BY <1>4, <1>6, <1>7, <1>8, SMT
<1> QED BY <1>2, <1>3, <1>9, <1>10 DEF T

\* SaveSet, and its failure, which leaves the cache as it was.
LEMMA SetEffect ==
  ASSUME TypeOK, NEW s \in Savers, SaveSet(s) \/ SaveSetFails(s)
  PROVE  /\ saver[s].pc = "set" /\ saver'[s].pc = "add" /\ saver'[s].msg = saver[s].msg
         /\ saver'[s].todo = saver[s].todo /\ saver'[s].key = saver[s].key
         /\ saver'[s].val = saver[s].val
         /\ UNCHANGED <<changes, messages, registry, fill, writer, lock>>
         /\ SaveSet(s) => cache' = [cache EXCEPT ![saver[s].key] = Present(saver[s].val)]
         /\ SaveSetFails(s) => UNCHANGED cache
<1>1. /\ saver[s].pc = "set" /\ saver'[s].pc = "add" /\ saver'[s].msg = saver[s].msg
      /\ saver'[s].todo = saver[s].todo /\ saver'[s].key = saver[s].key
      /\ saver'[s].val = saver[s].val
  BY SMT DEF TypeOK, SaveSet, SaveSetFails, Saver
<1>2. /\ UNCHANGED <<changes, messages, registry, fill, writer, lock>>
      /\ SaveSet(s) => cache' = [cache EXCEPT ![saver[s].key] = Present(saver[s].val)]
      /\ SaveSetFails(s) => UNCHANGED cache
  BY Zenon DEF SaveSet, SaveSetFails, db
<1> QED BY <1>1, <1>2

\* SaveAdd, and its failure, which leaves the registry as it was.
LEMMA AddEffect ==
  ASSUME TypeOK, NEW s \in Savers, SaveAdd(s) \/ SaveAddFails(s)
  PROVE  /\ saver[s].pc = "add" /\ saver'[s].pc = "get" /\ saver'[s].msg = saver[s].msg
         /\ saver'[s].todo = saver[s].todo
         /\ UNCHANGED <<changes, messages, cache, fill, writer, lock>>
         /\ registry \subseteq registry'
<1>1. /\ saver[s].pc = "add" /\ saver'[s].pc = "get" /\ saver'[s].msg = saver[s].msg
      /\ saver'[s].todo = saver[s].todo
  BY SMT DEF TypeOK, SaveAdd, SaveAddFails, Saver
<1>2. UNCHANGED <<changes, messages, cache, fill, writer, lock>>
  BY Zenon DEF SaveAdd, SaveAddFails, db
<1>3. registry \subseteq registry'
  BY SMT DEF SaveAdd, SaveAddFails
<1> QED BY <1>1, <1>2, <1>3

\* The two ways a sweep ends.
LEMMA ReleaseEffect ==
  ASSUME TypeOK, NEW s \in Savers, SaveUnlock(s) \/ SaveMembersFails(s)
  PROVE  /\ saver[s].pc \in {"get", "members"} /\ saver'[s].pc = "idle"
         /\ lock' = [lock EXCEPT ![InstanceOf[s]] = Nothing]
         /\ UNCHANGED <<changes, messages, cache, registry, fill, writer>>
         /\ SaveUnlock(s) => saver[s].pc = "get" /\ saver[s].todo = {}
<1>1. saver[s].pc \in {"get", "members"} /\ saver'[s].pc = "idle"
  BY SMT DEF TypeOK, SaveUnlock, SaveMembersFails, Release, NoSaver
<1>2. /\ lock' = [lock EXCEPT ![InstanceOf[s]] = Nothing]
      /\ UNCHANGED <<changes, messages, cache, registry, fill, writer>>
      /\ SaveUnlock(s) => saver[s].pc = "get" /\ saver[s].todo = {}
  BY Zenon DEF SaveUnlock, SaveMembersFails, Release, db
<1> QED BY <1>1, <1>2

\* A sweep writes the revision that it has read of an entry.
LEMMA SaverFresh ==
  ASSUME TypeOK, SaverShape, NEW k \in Keys, Fresh(k), NEW s \in Savers,
         NEW U, Track({}, U),
         SaveCommit(s) \/ SaveStep(s) \/ SaveMembersFails(s) \/ SaveSetFails(s)
  PROVE  Fresh(k)'
<1> SUFFICES ASSUME k \notin suspect', Live(k)' PROVE Fresh(k)'
  BY DeadFresh, Zenon DEF Fresh
<1>0. k \notin suspect /\ ~(Held(k)' /\ Invalidating')
  BY TrackedSuspect
<1>1. \A t \in Savers \ {s} : saver'[t] = saver[t]
  BY SaverOthers
<1>2. UNCHANGED <<changes, fill, writer>>
  BY SaverTypes, Zenon
<1>3. FillHolds(k)' <=> FillHolds(k)
  BY <1>2, Zenon DEF FillHolds
<1>4. Invalidating' <=> Invalidating
  BY <1>2, Zenon DEF Invalidating
<1>5. CASE /\ UNCHANGED <<cache, registry>>
           /\ saver[s].pc \notin {"set", "add"} /\ saver'[s].pc \notin {"set", "add"}
  <2>1. SweepHolds(k)' <=> SweepHolds(k)
    BY <1>1, <1>5, SMT DEF SweepHolds
  <2>2. \A t \in Savers : SaverHas(t, k)' => SaverHas(t, k) /\ saver'[t].val = saver[t].val
    BY <1>1, <1>5, SMT DEF SaverHas
  <2> QED BY <1>0, <1>2, <1>3, <1>4, <1>5, <2>1, <2>2, SMT DEF Fresh, Quiet, Found, Held, FillHas,
             Cached
<1>6. CASE SaveCommit(s) \/ SaveLock(s) \/ SaveMembers(s) \/ SaveUnlock(s) \/ SaveMembersFails(s)
  BY <1>5, <1>6, CommitEffect, LockEffect, MembersEffect, ReleaseEffect, SMT
<1>7. CASE SaveGet(s)
  <2>1. /\ saver[s].pc = "get" /\ UNCHANGED <<cache, registry>>
    BY <1>7, GetEffect
  <2>2. SaverHas(s, k)' => saver'[s].val.rev = cache[k].val.rev /\ Cached(k)
    BY <1>7, GetEffect, SMT DEF SaverHas
  <2>3. \A t \in Savers : SaverHas(t, k)' => \/ SaverHas(t, k) /\ saver'[t].val = saver[t].val
                                             \/ saver'[t].val.rev = cache[k].val.rev /\ Cached(k)
    BY <1>1, <2>2, SMT DEF SaverHas
  <2>4. SweepHolds(k)' => SweepHolds(k) \/ Cached(k)
    BY <2>3, SMT DEF SweepHolds, SaverHas
  <2> QED BY <1>0, <1>2, <1>3, <1>4, <2>1, <2>3, <2>4, SMT DEF Fresh, Quiet, Found, Held, FillHas,
             Cached
<1>8. CASE SaveSet(s) \/ SaveSetFails(s)
  <2>1. /\ saver[s].pc = "set" /\ saver'[s].pc = "add" /\ saver'[s].key = saver[s].key
        /\ saver'[s].val = saver[s].val /\ UNCHANGED registry
    BY <1>8, SetEffect
  <2>2. \A t \in Savers : /\ SaverHas(t, k)' <=> SaverHas(t, k)
                          /\ saver'[t].val = saver[t].val
    BY <1>1, <2>1, SMT DEF SaverHas
  <2>3. SweepHolds(k)' <=> SweepHolds(k)
    BY <2>2, SMT DEF SweepHolds, SaverHas
  <2>4. \/ cache'[k] = cache[k]
        \/ SaverHas(s, k) /\ cache'[k] = Present(saver[s].val)
    BY <1>8, <2>1, SetEffect, SMT DEF SaverHas, TypeOK
  <2> QED BY <1>0, <1>2, <1>3, <1>4, <2>1, <2>2, <2>3, <2>4, SMT
          DEF Fresh, Quiet, Found, Held, SweepHolds, SaverHas, FillHas, Cached, Present
<1>9. CASE SaveAdd(s) \/ SaveAddFails(s)
  <2>1. /\ saver[s].pc = "add" /\ saver'[s].pc = "get" /\ UNCHANGED cache
        /\ registry \subseteq registry'
    BY <1>9, AddEffect
  <2>2. \A t \in Savers : SaverHas(t, k)' => SaverHas(t, k) /\ saver'[t].val = saver[t].val
    BY <1>1, <2>1, SMT DEF SaverHas
  <2>3. SweepHolds(k)' => SweepHolds(k)
    BY <2>2, SMT DEF SweepHolds, SaverHas
  <2>4. k \in registry => k \in registry'
    BY <2>1
  <2> QED BY <1>0, <1>2, <1>3, <1>4, <2>1, <2>2, <2>3, <2>4, SMT DEF Fresh, Quiet, Found, Held,
             FillHas, Cached
<1> QED BY <1>6, <1>7, <1>8, <1>9 DEF SaveStep
------------------------------------------------------------------------------
\* What is left to show of a step, as Track makes the other keys lagging.
LEMMA SweptFrom ==
  ASSUME NEW k \in Keys, NEW M, NEW U, Track(M, U),
         k \notin suspect' /\ k \notin lagging' /\ Cached(k)' =>
           (cache[k].val.last)' = messages' \/ \E s \in Savers : Comes(s, k)'
  PROVE  Swept(k)'
<1>1. FillLags(k)' => Live(k)'
  BY Zenon DEF FillLags, Live, Held, FillHolds
<1>2. k \notin lagging' => ~FillLags(k)' /\ (Live(k)' => ~SweepBehind')
  BY <1>1, TrackedLagging
<1> QED BY <1>2, SMT DEF Swept, Live

\* A GetRoom whose value lacks the latest message makes its key lagging.
LEMMA FillSwept ==
  ASSUME TypeOK, FillShape, NEW k \in Keys, Swept(k), NEW f \in Fills,
         NEW M, Track(M, {}),
         (\E l \in Keys : FillMiss(f, l)) \/ FillStep(f) \/ FillAddFails(f)
  PROVE  Swept(k)'
<1> SUFFICES ASSUME k \notin suspect', k \notin lagging', Cached(k)'
             PROVE  (cache[k].val.last)' = messages' \/ \E s \in Savers : Comes(s, k)'
  BY SweptFrom
<1>1. k \notin suspect /\ k \notin lagging
  BY TrackedSuspect, TrackedLagging DEF Live
<1>2. UNCHANGED <<messages, saver>>
  BY FillTypes, Zenon DEF FillMiss, FillStep, FillQuery, FillNone, FillSet, FillAdd, FillSetFails,
     FillAddFails, db
<1>3. k \in registry => k \in registry'
  <2>1. CASE FillAdd(f)
    BY <2>1, SMT DEF FillAdd
  <2>2. CASE ~FillAdd(f)
    BY <2>2, Zenon DEF FillMiss, FillStep, FillQuery, FillNone, FillSet, FillSetFails, FillAddFails
  <2> QED BY <2>1, <2>2
<1>4. CASE FillSet(f)
  <2>1. CASE fill[f].key = k
    <3>1. fill[f].pc = "set" /\ cache'[k] = Present(fill[f].val)
      BY <1>4, <2>1, SMT DEF FillSet, TypeOK
    <3>2. fill[f].val.last = messages
      BY <1>1, <2>1, <3>1, SMT DEF Swept, FillLags
    <3> QED BY <1>2, <3>1, <3>2, SMT DEF Present
  <2>2. CASE fill[f].key # k
    <3>1. cache'[k] = cache[k] /\ registry' = registry
      BY <1>4, <2>2, SMT DEF FillSet, TypeOK
    <3> QED BY <1>1, <1>2, <3>1, SMT DEF Swept, Comes, Cached
  <2> QED BY <2>1, <2>2
<1>5. CASE ~FillSet(f)
  <2>1. UNCHANGED cache
    BY <1>5, Zenon DEF FillMiss, FillStep, FillQuery, FillNone, FillAdd, FillSetFails, FillAddFails
  <2> QED BY <1>1, <1>2, <1>3, <2>1, SMT DEF Swept, Comes, Cached
<1> QED BY <1>4, <1>5

\* An entry that expires needs no sweep.
LEMMA ExpireSwept ==
  ASSUME TypeOK, NEW k \in Keys, Swept(k), NEW l \in Keys, Expire(l), Track({}, {})
  PROVE  Swept(k)'
<1> SUFFICES ASSUME k \notin suspect', k \notin lagging', Cached(k)'
             PROVE  (cache[k].val.last)' = messages' \/ \E s \in Savers : Comes(s, k)'
  BY SweptFrom
<1>1. k \notin suspect /\ k \notin lagging
  BY TrackedSuspect, TrackedLagging DEF Live
<1>2. UNCHANGED <<messages, saver, registry>>
  BY Zenon DEF Expire, db
<1>3. cache'[k] = cache[k]
  <2>1. Absent.present = FALSE
    BY SMT DEF Absent
  <2>2. cache'[k] = cache[k] \/ cache'[k] = Absent
    BY SMT DEF Expire, TypeOK
  <2> QED BY <2>1, <2>2, Zenon DEF Cached
<1> QED BY <1>1, <1>2, <1>3, SMT DEF Swept, Comes, Cached

\* The registry loses a key only when no entry of it is left, or a suspect one.
LEMMA WriterSwept ==
  ASSUME TypeOK, NEW k \in Keys, Fresh(k), Swept(k), NEW w \in Writers,
         NEW M, Track(M, {}),
         WriteCommit(w) \/ WriteStep(w) \/ WriteMembersFails(w) \/ WriteDelFails(w)
  PROVE  Swept(k)'
<1> SUFFICES ASSUME k \notin suspect', k \notin lagging', Cached(k)'
             PROVE  (cache[k].val.last)' = messages' \/ \E s \in Savers : Comes(s, k)'
  BY SweptFrom
<1>1. k \notin suspect /\ k \notin lagging
  BY TrackedSuspect, TrackedLagging DEF Live
<1>2. UNCHANGED <<messages, saver>>
  BY WriterTypes, Zenon
<1>3. cache'[k] = cache[k]
  <2>1. Absent.present = FALSE
    BY SMT DEF Absent
  <2>2. cache'[k] = cache[k] \/ cache'[k] = Absent
    BY SMT DEF WriteCommit, WriteStep, WriteMembers, WriteDel, WriteDelSet, WriteDelSetFails,
       WriteMembersFails, WriteDelFails, TypeOK
  <2> QED BY <2>1, <2>2, Zenon DEF Cached
<1>4. ~WriteDelSet(w)
  <2> SUFFICES ASSUME WriteDelSet(w) PROVE FALSE
    OBVIOUS
  <2>1. writer[w].pc = "delset" /\ Invalidating
    BY SMT DEF WriteDelSet, Invalidating
  <2>2. Found(k)
    BY <1>1, <2>1, Zenon DEF Fresh
  <2> QED BY <1>3, <2>1, <2>2, Zenon DEF Found, Cached
<1>5. registry' = registry
  BY <1>4, Zenon DEF WriteCommit, WriteStep, WriteMembers, WriteDel, WriteDelSetFails,
     WriteMembersFails, WriteDelFails
<1> QED BY <1>1, <1>2, <1>3, <1>5, SMT DEF Swept, Comes, Cached

\* A sweep writes its message to every registered key, and the key of an entry that lacks a
\* message when it is committed is registered.
LEMMA SaverSwept ==
  ASSUME TypeOK, SaverShape, NEW k \in Keys, Fresh(k), Swept(k), NEW s \in Savers,
         NEW U, Track({}, U),
         \/ SaveCommit(s) \/ SaveStep(s)
         \/ SaveMembersFails(s) /\ U = Keys
         \/ SaveSetFails(s) /\ U = {saver[s].key}
  PROVE  Swept(k)'
<1> SUFFICES ASSUME k \notin suspect', k \notin lagging', Cached(k)'
             PROVE  (cache[k].val.last)' = messages' \/ \E t \in Savers : Comes(t, k)'
  BY SweptFrom
<1>0. k \notin suspect
  BY TrackedSuspect DEF Live
<1>1. k \notin lagging /\ k \notin U /\ ~FillLags(k)' /\ ~SweepBehind'
  BY TrackedLagging DEF Live
<1>2. \A t \in Savers \ {s} : saver'[t] = saver[t]
  BY SaverOthers
<1>3. Cached(k) => cache[k].val.last = messages \/ \E t \in Savers : Comes(t, k)
  BY <1>0, <1>1, SMT DEF Swept
<1>4. ASSUME cache'[k] = cache[k], messages' = messages, registry \subseteq registry',
             Comes(s, k) => Comes(s, k)'
      PROVE  (cache[k].val.last)' = messages' \/ \E t \in Savers : Comes(t, k)'
  <2>1. \A t \in Savers \ {s} : Comes(t, k) => Comes(t, k)'
    BY <1>2, <1>4, SMT DEF Comes
  <2> QED BY <1>3, <1>4, <2>1, SMT DEF Cached
<1>5. CASE SaveCommit(s)
  <2>1. /\ messages' = messages + 1 /\ UNCHANGED <<cache, registry, fill, writer>>
        /\ saver'[s].pc = "lock" /\ saver'[s].msg = messages'
    BY <1>5, CommitEffect
  <2>2. ~FillHolds(k)
    <3>1. messages \in Nat
      BY DEF TypeOK
    <3> QED BY <1>1, <2>1, <3>1, SMT DEF Swept, FillLags, FillHolds
  <2>3. k \in registry
    BY <1>0, <2>1, <2>2, SMT DEF Fresh, Found, Quiet, Cached
  <2> QED BY <2>1, <2>3, SMT DEF Comes
<1>6. CASE SaveLock(s) \/ SaveMembers(s)
  <2>1. /\ UNCHANGED <<cache, messages, registry>>
    BY <1>6, LockEffect, MembersEffect, SMT
  <2>2. Comes(s, k) => Comes(s, k)'
    BY <1>6, LockEffect, MembersEffect, SMT DEF Comes
  <2> QED BY <1>4, <2>1, <2>2, SMT
<1>7. CASE SaveGet(s)
  <2>1. /\ UNCHANGED <<cache, messages, registry>>
    BY <1>7, GetEffect
  <2>2. Comes(s, k) => Comes(s, k)'
    BY <1>7, <2>1, GetEffect, SMT DEF Comes, Cached
  <2> QED BY <1>4, <2>1, <2>2, SMT
<1>8. CASE SaveSet(s) /\ saver[s].key = k
  <2>1. /\ cache'[k] = Present(saver[s].val) /\ saver[s].pc = "set" /\ saver'[s].pc = "add"
        /\ saver'[s].msg = saver[s].msg
    BY <1>8, SetEffect, SMT DEF TypeOK
  <2>2. saver[s].val.last = messages'
    BY <1>1, <2>1, SMT DEF SweepBehind, SaverShape
  <2> QED BY <2>1, <2>2, SMT DEF Present
<1>9. CASE /\ saver[s].key # k
           /\ SaveSet(s) \/ SaveSetFails(s)
  <2>1. cache'[k] = cache[k] /\ UNCHANGED <<messages, registry>>
    BY <1>9, SetEffect, SMT DEF TypeOK
  <2>2. Comes(s, k) => Comes(s, k)'
    BY <1>9, <2>1, SetEffect, SMT DEF Comes
  <2> QED BY <1>4, <2>1, <2>2, SMT
<1>10. CASE SaveSetFails(s) /\ U = {saver[s].key} /\ saver[s].key = k
  BY <1>1, <1>10
<1>11. CASE SaveAdd(s) \/ SaveAddFails(s)
  <2>1. /\ UNCHANGED <<cache, messages>> /\ registry \subseteq registry'
    BY <1>11, AddEffect
  <2>2. Comes(s, k) => Comes(s, k)'
    BY <1>11, <2>1, AddEffect, SMT DEF Comes
  <2> QED BY <1>4, <2>1, <2>2, SMT
<1>12. CASE SaveUnlock(s)
  <2>1. UNCHANGED <<cache, messages, registry>>
    BY <1>12, ReleaseEffect
  <2>2. ~Comes(s, k)
    BY <1>12, ReleaseEffect, SMT DEF Comes
  <2> QED BY <1>4, <2>1, <2>2, SMT
<1>13. CASE SaveMembersFails(s) /\ U = Keys
  BY <1>1, <1>13
<1> QED BY <1>5, <1>6, <1>7, <1>8, <1>9, <1>10, <1>11, <1>12, <1>13 DEF SaveStep
------------------------------------------------------------------------------
\* The lock is given to one sweep, and kept until its end.
LEMMA SaverLock ==
  ASSUME TypeOK, LockHeld, NEW s \in Savers,
         SaveCommit(s) \/ SaveStep(s) \/ SaveMembersFails(s) \/ SaveSetFails(s)
  PROVE  LockHeld'
<1> USE RoomCacheAssumption
<1>1. \A t \in Savers \ {s} : saver'[t] = saver[t]
  BY SaverOthers
<1>2. CASE SaveLock(s)
  <2>1. lock[InstanceOf[s]] = Nothing /\ lock' = [lock EXCEPT ![InstanceOf[s]] = s]
    BY <1>2, LockEffect
  <2> QED BY <1>1, <2>1, SMT DEF LockHeld, Works, TypeOK
<1>3. CASE SaveUnlock(s) \/ SaveMembersFails(s)
  <2>1. /\ saver[s].pc \in {"get", "members"} /\ saver'[s].pc = "idle"
        /\ lock' = [lock EXCEPT ![InstanceOf[s]] = Nothing]
    BY <1>3, ReleaseEffect
  <2>2. lock[InstanceOf[s]] = s
    BY <2>1, SMT DEF LockHeld, Works
  <2> QED BY <1>1, <2>1, <2>2, SMT DEF LockHeld, Works, TypeOK
<1>4. CASE SaveCommit(s)
  BY <1>1, <1>4, CommitEffect, SMT DEF LockHeld, Works
<1>5. CASE \/ SaveMembers(s) \/ SaveGet(s) \/ SaveSet(s) \/ SaveSetFails(s)
           \/ SaveAdd(s) \/ SaveAddFails(s)
  <2>1. lock' = lock /\ saver[s].pc \in {"members", "get", "set", "add"}
    BY <1>5, MembersEffect, GetEffect, SetEffect, AddEffect, SMT
  <2> QED BY <1>1, <2>1, SMT DEF LockHeld, Works
<1> QED BY <1>2, <1>3, <1>4, <1>5 DEF SaveStep

\* The history is about keys.
LEMMA TrackTypes ==
  ASSUME NEW M, NEW U, Track(M, U)
  PROVE  suspect' \subseteq Keys /\ lagging' \subseteq Keys
BY SMT DEF Track

\* The steps of GetRoom keep the invariant.
LEMMA FillKeeps ==
  ASSUME IInv, NEW f \in Fills, NEW M, Track(M, {}),
         \/ (\E l \in Keys : FillMiss(f, l)) \/ FillStep(f)
         \/ FillAddFails(f) /\ M = {fill[f].key}
  PROVE  IInv'
<1>1. TypeOK /\ FillShape /\ SaverShape /\ LockHeld
  BY DEF IInv
<1>2. /\ fill' \in [Fills -> Fill] /\ FillShape'
      /\ cache' \in [Keys -> Slot] /\ registry' \subseteq Keys
      /\ UNCHANGED <<changes, messages, writer, saver, lock>>
  BY <1>1, FillTypes
<1>3. TypeOK'
  BY <1>1, <1>2, TrackTypes, SMT DEF TypeOK
<1>4. SaverShape' /\ LockHeld'
  BY <1>1, <1>2, SMT DEF SaverShape, LockHeld, Works
<1>5. ASSUME NEW k \in Keys PROVE Fresh(k)' /\ Swept(k)'
  <2>1. Fresh(k) /\ Swept(k)
    BY DEF IInv
  <2>2. Fresh(k)'
    BY <1>1, <2>1, FillFresh
  <2>3. Swept(k)'
    BY <1>1, <2>1, FillSwept
  <2> QED BY <2>2, <2>3
<1> QED BY <1>2, <1>3, <1>4, <1>5 DEF IInv

\* The expiry of an entry keeps the invariant.
LEMMA ExpireKeeps ==
  ASSUME IInv, NEW l \in Keys, Expire(l), Track({}, {})
  PROVE  IInv'
<1>1. TypeOK /\ FillShape /\ SaverShape /\ LockHeld
  BY DEF IInv
<1>2. UNCHANGED <<changes, messages, registry, fill, writer, saver, lock>>
  BY Zenon DEF Expire, db
<1>3. cache' \in [Keys -> Slot]
  BY <1>1, SlotForms, Zenon DEF Expire, TypeOK
<1>4. TypeOK'
  BY <1>1, <1>2, <1>3, TrackTypes, SMT DEF TypeOK
<1>5. FillShape' /\ SaverShape' /\ LockHeld'
  BY <1>1, <1>2, SMT DEF FillShape, SaverShape, LockHeld, Works
<1>6. ASSUME NEW k \in Keys PROVE Fresh(k)' /\ Swept(k)'
  <2>1. Fresh(k) /\ Swept(k)
    BY DEF IInv
  <2>2. Fresh(k)'
    BY <1>1, <2>1, ExpireFresh
  <2>3. Swept(k)'
    BY <1>1, <2>1, ExpireSwept
  <2> QED BY <2>2, <2>3
<1> QED BY <1>4, <1>5, <1>6 DEF IInv

\* The steps of an invalidation keep the invariant.
LEMMA WriterKeeps ==
  ASSUME IInv, NEW w \in Writers, NEW M, Track(M, {}),
         \/ WriteCommit(w) \/ WriteStep(w)
         \/ WriteMembersFails(w) /\ M = Keys
         \/ WriteDelFails(w) /\ M = writer[w].keys
  PROVE  IInv'
<1>1. TypeOK /\ FillShape /\ SaverShape /\ LockHeld
  BY DEF IInv
<1>2. /\ writer' \in [Writers -> Writer] /\ changes' \in Nat
      /\ cache' \in [Keys -> Slot] /\ registry' \subseteq Keys
      /\ UNCHANGED <<messages, fill, saver, lock>>
  BY <1>1, WriterTypes
<1>3. TypeOK'
  BY <1>1, <1>2, TrackTypes, SMT DEF TypeOK
<1>4. FillShape' /\ SaverShape' /\ LockHeld'
  BY <1>1, <1>2, SMT DEF FillShape, SaverShape, LockHeld, Works
<1>5. ASSUME NEW k \in Keys PROVE Fresh(k)' /\ Swept(k)'
  <2>1. Fresh(k) /\ Swept(k)
    BY DEF IInv
  <2>2. Fresh(k)'
    BY <1>1, <2>1, WriterFresh
  <2>3. Swept(k)'
    BY <1>1, <2>1, WriterSwept
  <2> QED BY <2>2, <2>3
<1> QED BY <1>3, <1>4, <1>5 DEF IInv

\* The steps of SaveMessage keep the invariant.
LEMMA SaverKeeps ==
  ASSUME IInv, NEW s \in Savers, NEW U, Track({}, U),
         \/ SaveCommit(s) \/ SaveStep(s)
         \/ SaveMembersFails(s) /\ U = Keys
         \/ SaveSetFails(s) /\ U = {saver[s].key}
  PROVE  IInv'
<1>1. TypeOK /\ FillShape /\ SaverShape /\ LockHeld
  BY DEF IInv
<1>2. /\ saver' \in [Savers -> Saver] /\ SaverShape' /\ messages' \in Nat
      /\ cache' \in [Keys -> Slot] /\ registry' \subseteq Keys
      /\ lock' \in [Instances -> Savers \cup {Nothing}]
      /\ UNCHANGED <<changes, fill, writer>>
  BY <1>1, SaverTypes
<1>3. TypeOK'
  BY <1>1, <1>2, TrackTypes, SMT DEF TypeOK
<1>4. FillShape'
  BY <1>1, <1>2, SMT DEF FillShape
<1>5. LockHeld'
  BY <1>1, SaverLock
<1>6. ASSUME NEW k \in Keys PROVE Fresh(k)' /\ Swept(k)'
  <2>1. Fresh(k) /\ Swept(k)
    BY DEF IInv
  <2>2. Fresh(k)'
    BY <1>1, <2>1, SaverFresh
  <2>3. Swept(k)'
    BY <1>1, <2>1, SaverSwept
  <2> QED BY <2>2, <2>3
<1> QED BY <1>2, <1>3, <1>4, <1>5, <1>6 DEF IInv

\* A step of something else keeps the invariant.
LEMMA StutterKeeps ==
  ASSUME IInv, UNCHANGED vars
  PROVE  IInv'
<1>1. UNCHANGED <<changes, messages, cache, registry, fill, writer, saver, lock, suspect, lagging>>
  BY Zenon DEF vars
<1>2. TypeOK' /\ FillShape' /\ SaverShape' /\ LockHeld'
  BY <1>1, SMT DEF IInv, TypeOK, FillShape, SaverShape, LockHeld, Works
<1>3. ASSUME NEW k \in Keys PROVE Fresh(k)' /\ Swept(k)'
  <2>1. Fresh(k) /\ Swept(k)
    BY DEF IInv
  <2>2. Fresh(k)'
    BY <1>1, <2>1, SMT DEF Fresh, Quiet, Found, Cached, Held, FillHolds, SweepHolds, Invalidating,
       FillHas, SaverHas
  <2>3. Swept(k)'
    BY <1>1, <2>1, SMT DEF Swept, Comes, Cached, Live, Held, FillHolds, SweepHolds, FillLags,
       SweepBehind
  <2> QED BY <2>2, <2>3
<1> QED BY <1>2, <1>3 DEF IInv

\* Every step keeps the invariant.
LEMMA StepKeeps == IInv /\ [Next]_vars => IInv'
<1> SUFFICES ASSUME IInv, [Next]_vars PROVE IInv'
  OBVIOUS
<1>1. ASSUME Regular, Track({}, {}) PROVE IInv'
  <2>1. ASSUME NEW f \in Fills, (\E k \in Keys : FillMiss(f, k)) \/ FillStep(f) PROVE IInv'
    BY <1>1, <2>1, FillKeeps
  <2>2. ASSUME NEW k \in Keys, Expire(k) PROVE IInv'
    BY <1>1, <2>2, ExpireKeeps
  <2>3. ASSUME NEW w \in Writers, WriteCommit(w) \/ WriteStep(w) PROVE IInv'
    BY <1>1, <2>3, WriterKeeps
  <2>4. ASSUME NEW s \in Savers, SaveCommit(s) \/ SaveStep(s) PROVE IInv'
    BY <1>1, <2>4, SaverKeeps
  <2> QED BY <1>1, <2>1, <2>2, <2>3, <2>4, Zenon DEF Regular
<1>2. ASSUME NEW f \in Fills, FillAddFails(f), Track({fill[f].key}, {}) PROVE IInv'
  BY <1>2, FillKeeps
<1>3. ASSUME NEW w \in Writers, WriteMembersFails(w), Track(Keys, {}) PROVE IInv'
  BY <1>3, WriterKeeps
<1>4. ASSUME NEW w \in Writers, WriteDelFails(w), Track(writer[w].keys, {}) PROVE IInv'
  BY <1>4, WriterKeeps
<1>5. ASSUME NEW s \in Savers, SaveMembersFails(s), Track({}, Keys) PROVE IInv'
  BY <1>5, SaverKeeps
<1>6. ASSUME NEW s \in Savers, SaveSetFails(s), Track({}, {saver[s].key}) PROVE IInv'
  BY <1>6, SaverKeeps
<1>7. CASE UNCHANGED vars
  BY <1>7, StutterKeeps
<1> QED BY <1>1, <1>2, <1>3, <1>4, <1>5, <1>6, <1>7, Zenon DEF Next
------------------------------------------------------------------------------
\* The inductive invariant, in every reachable state.
THEOREM Invariance == Spec => []IInv
BY InitInv, StepKeeps, PTL DEF Spec

\* Redis, the calls and the locks hold what they can hold, whatever fails.
THEOREM TypeCorrect == Spec => []TypeOK
<1>1. IInv => TypeOK
  BY DEF IInv
<1> QED BY <1>1, Invariance, PTL

\* Two sweeps of a process never work at the same time: roomCacheLocks.
THEOREM SweepsExclude == Spec => []SweepExclusive
<1>1. IInv => SweepExclusive
  BY SMT DEF IInv, LockHeld, Works, SweepExclusive
<1> QED BY <1>1, Invariance, PTL

\* DeleteRoomCacheByRoomID leaves no outdated entry, and none that the next one would miss,
\* of a key that nobody carried a value across it for and no Redis error touched.
THEOREM FreshAlways == Spec => []FreshUnlessSuspect
<1>1. IInv => FreshUnlessSuspect
  BY SMT DEF IInv, Fresh, Quiet, Held, FreshUnlessSuspect
<1> QED BY <1>1, Invariance, PTL

\* UpdateRoomCacheWithNewMessage brings the latest message to every entry that is neither
\* suspect nor lagging.
THEOREM LastMessageAlways == Spec => []LastMessageCurrent
<1>1. IInv => LastMessageCurrent
  BY SMT DEF IInv, Swept, Comes, Saving, LastMessageCurrent
<1> QED BY <1>1, Invariance, PTL
==============================================================================
