------------------------------ MODULE RoomCache ------------------------------
(***************************************************************************)
(* The Redis cache of one room, as the SQL repository uses it.  The room is *)
(* cached once per user and variant (shim or full): one key each, and a set *)
(* that registers the keys.  Three kinds of handler work on it at once, one *)
(* Redis command at a time:                                                 *)
(*   - GetRoom fills a key it misses (query, Set, SAdd);                    *)
(*   - the operations that change the room, a membership or a read receipt  *)
(*     commit and then invalidate (SMembers, Del keys, Del set);            *)
(*   - SaveMessage commits and then sweeps the registered keys under a lock *)
(*     of its process, patching LastMessage (Get, Set, SAdd for each key).  *)
(*                                                                          *)
(* The database is two counters: committed changes and committed messages   *)
(* (numbered in commit order; created_at is the start of the transaction,   *)
(* which the cache never compares).                                         *)
(***************************************************************************)
EXTENDS Naturals, FiniteSets

CONSTANTS Keys,        \* the cache keys of the room
          Fills,       \* concurrent GetRoom calls
          Writers,     \* concurrent operations that change the room
          Savers,      \* concurrent SaveMessage calls
          Instances,   \* processes of the service
          InstanceOf,  \* the process a SaveMessage call runs in
          RedisFaults, \* may a Redis command fail
          RowsLate,    \* may a reader's meta row of a message be missing
          MaxChanges,  \* bound on the committed changes
          MaxMessages, \* bound on the committed messages
          Nothing      \* no entry, no value, no key, no lock holder

ASSUME RoomCacheAssumption ==
  /\ InstanceOf \in [Savers -> Instances]
  /\ RedisFaults \in BOOLEAN /\ RowsLate \in BOOLEAN
  /\ MaxChanges \in Nat /\ MaxMessages \in Nat
  /\ Nothing \notin Keys \cup Savers

VARIABLES
  changes,   \* committed changes of the room, its members or read receipts
  messages,  \* committed messages
  cache,     \* Redis: the entry of each key
  registry,  \* Redis: the set "endpoint:chat:room:{id}:members"
  fill,      \* GetRoom calls
  writer,    \* operations that change the room
  saver,     \* SaveMessage calls
  lock,      \* roomCacheLocks of each process
  suspect,   \* history: keys an invalidation may have missed
  lagging    \* history: keys a sweep may have missed

db   == <<changes, messages>>
vars == <<changes, messages, cache, registry, fill, writer, saver, lock,
          suspect, lagging>>
------------------------------------------------------------------------------
\* What a cached room says: the room as of so many changes, and the number of its
\* LastMessage.
Entry   == [rev : Nat, last : Nat]

\* A record cannot be compared with a model value: "no entry" is NoEntry.
NoEntry == [rev |-> 0, last |-> 0]
Slot    == [present : BOOLEAN, val : Entry]
Absent  == [present |-> FALSE, val |-> NoEntry]
Present(v) == [present |-> TRUE, val |-> v]
Cached(k)  == cache[k].present

FillPc   == {"idle", "query", "set", "add"}
Fill     == [pc : FillPc, key : Keys \cup {Nothing}, val : Entry]
NoFill   == [pc |-> "idle", key |-> Nothing, val |-> NoEntry]

WriterPc == {"idle", "members", "del", "delset"}
Writer   == [pc : WriterPc, keys : SUBSET Keys]
NoWriter == [pc |-> "idle", keys |-> {}]

SaverPc  == {"idle", "lock", "members", "get", "set", "add"}
Saver    == [pc : SaverPc, msg : Nat, todo : SUBSET Keys,
             key : Keys \cup {Nothing}, val : Entry]
NoSaver  == [pc |-> "idle", msg |-> 0, todo |-> {}, key |-> Nothing,
             val |-> NoEntry]

Init ==
  /\ changes = 0 /\ messages = 0
  /\ cache = [k \in Keys |-> Absent]
  /\ registry = {}
  /\ fill = [f \in Fills |-> NoFill]
  /\ writer = [w \in Writers |-> NoWriter]
  /\ saver = [s \in Savers |-> NoSaver]
  /\ lock = [i \in Instances |-> Nothing]
  /\ suspect = {} /\ lagging = {}
------------------------------------------------------------------------------
(* History.  A key is suspect from the moment somebody holds a value for it *)
(* (read but not yet registered) while a committed change is still being    *)
(* invalidated, or from a Redis error of an invalidation or a registration, *)
(* until the entry is gone and nobody holds a value.  It is lagging from    *)
(* the moment a GetRoom holds a value without the latest message; a sweep   *)
(* that is still to write an older message, and a Redis error of a sweep,   *)
(* make the keys lagging too.                                               *)

FillHolds(k)  == \E f \in Fills : fill[f].key = k /\ fill[f].pc \in {"set", "add"}
FillLags(k)   == \E f \in Fills : /\ fill[f].key = k
                                  /\ fill[f].pc \in {"set", "add"}
                                  /\ fill[f].val.last # messages
SweepHolds(k) == \E s \in Savers : saver[s].key = k /\ saver[s].pc \in {"set", "add"}
Held(k)       == FillHolds(k) \/ SweepHolds(k)
Live(k)       == Cached(k) \/ Held(k)
Invalidating  == \E w \in Writers : writer[w].pc # "idle"
Saving        == \E s \in Savers : saver[s].pc # "idle"
SweepBehind   == \E s \in Savers : saver[s].pc # "idle" /\ saver[s].msg # messages

Track(missed, unswept) ==
  /\ suspect' = {k \in Keys : /\ Live(k)'
                              /\ \/ k \in suspect \cup missed
                                 \/ Held(k)' /\ Invalidating'}
  /\ lagging' = {k \in Keys : /\ Live(k)'
                              /\ \/ k \in lagging \cup unswept
                                 \/ FillLags(k)'
                                 \/ SweepBehind'}
------------------------------------------------------------------------------
(* GetRoom and SetCachedRoom.                                               *)

FillMiss(f, k) ==
  /\ fill[f].pc = "idle"
  /\ ~Cached(k)
  /\ fill' = [fill EXCEPT ![f] = [NoFill EXCEPT !.pc = "query", !.key = k]]
  /\ UNCHANGED <<db, cache, registry, writer, saver, lock>>

\* What the query shows as the last message: only messages that have a
\* room_message_meta row of the reader are looked at, and the fan-out that
\* creates the rows may be late or may have missed this reader.
LastShown == IF RowsLate THEN 0 .. messages ELSE {messages}

FillQuery(f) ==
  /\ fill[f].pc = "query"
  /\ \E n \in LastShown :
       fill' = [fill EXCEPT ![f].pc = "set",
                            ![f].val = [rev |-> changes, last |-> n]]
  /\ UNCHANGED <<db, cache, registry, writer, saver, lock>>

\* The query finds no room, no membership, or fails: nothing is cached.
FillNone(f) ==
  /\ fill[f].pc = "query"
  /\ fill' = [fill EXCEPT ![f] = NoFill]
  /\ UNCHANGED <<db, cache, registry, writer, saver, lock>>

FillSet(f) ==
  /\ fill[f].pc = "set"
  /\ cache' = [cache EXCEPT ![fill[f].key] = Present(fill[f].val)]
  /\ fill' = [fill EXCEPT ![f].pc = "add"]
  /\ UNCHANGED <<db, registry, writer, saver, lock>>

\* Mutant: the key is cached and never registered.
FillAddForgotten(f) ==
  /\ fill[f].pc = "add"
  /\ fill' = [fill EXCEPT ![f] = NoFill]
  /\ UNCHANGED <<db, cache, registry, writer, saver, lock>>

FillAdd(f) ==
  /\ fill[f].pc = "add"
  /\ registry' = registry \cup {fill[f].key}
  /\ fill' = [fill EXCEPT ![f] = NoFill]
  /\ UNCHANGED <<db, cache, writer, saver, lock>>

\* The error of either command is dropped; the other one still runs.
FillSetFails(f) ==
  /\ RedisFaults
  /\ fill[f].pc = "set"
  /\ fill' = [fill EXCEPT ![f].pc = "add"]
  /\ UNCHANGED <<db, cache, registry, writer, saver, lock>>

FillAddFails(f) ==
  /\ RedisFaults
  /\ fill[f].pc = "add"
  /\ fill' = [fill EXCEPT ![f] = NoFill]
  /\ UNCHANGED <<db, cache, registry, writer, saver, lock>>

\* The one-hour TTL of an entry; the registry has none.
Expire(k) ==
  /\ Cached(k)
  /\ cache' = [cache EXCEPT ![k] = Absent]
  /\ UNCHANGED <<db, registry, fill, writer, saver, lock>>
------------------------------------------------------------------------------
(* DeleteRoomCacheByRoomID, after the commit of the operation it follows.   *)

WriteCommit(w) ==
  /\ writer[w].pc = "idle"
  /\ changes < MaxChanges
  /\ changes' = changes + 1
  /\ writer' = [writer EXCEPT ![w].pc = "members"]
  /\ UNCHANGED <<messages, cache, registry, fill, saver, lock>>

WriteMembers(w) ==
  /\ writer[w].pc = "members"
  /\ writer' = [writer EXCEPT ![w] = [pc |-> "del", keys |-> registry]]
  /\ UNCHANGED <<db, cache, registry, fill, saver, lock>>

WriteDel(w) ==
  /\ writer[w].pc = "del"
  /\ cache' = [k \in Keys |-> IF k \in writer[w].keys THEN Absent ELSE cache[k]]
  /\ writer' = [writer EXCEPT ![w].pc = "delset"]
  /\ UNCHANGED <<db, registry, fill, saver, lock>>

WriteDelSet(w) ==
  /\ writer[w].pc = "delset"
  /\ registry' = {}
  /\ writer' = [writer EXCEPT ![w] = NoWriter]
  /\ UNCHANGED <<db, cache, fill, saver, lock>>

\* SMembers fails (Redis is away, or the client has cancelled the request whose
\* context the command runs under): the invalidation returns at once.
WriteMembersFails(w) ==
  /\ RedisFaults
  /\ writer[w].pc = "members"
  /\ writer' = [writer EXCEPT ![w] = NoWriter]
  /\ UNCHANGED <<db, cache, registry, fill, saver, lock>>

\* A failing Del is printed and the set is deleted all the same.
WriteDelFails(w) ==
  /\ RedisFaults
  /\ writer[w].pc = "del"
  /\ writer' = [writer EXCEPT ![w].pc = "delset"]
  /\ UNCHANGED <<db, cache, registry, fill, saver, lock>>

WriteDelSetFails(w) ==
  /\ RedisFaults
  /\ writer[w].pc = "delset"
  /\ writer' = [writer EXCEPT ![w] = NoWriter]
  /\ UNCHANGED <<db, cache, registry, fill, saver, lock>>
------------------------------------------------------------------------------
(* UpdateRoomCacheWithNewMessage, after the commit of SaveMessage.          *)

SaveCommit(s) ==
  /\ saver[s].pc = "idle"
  /\ messages < MaxMessages
  /\ messages' = messages + 1
  /\ saver' = [saver EXCEPT ![s].pc = "lock", ![s].msg = messages + 1]
  /\ UNCHANGED <<changes, cache, registry, fill, writer, lock>>

\* Mutant: the lock is not waited for.
SaveLockFree(s) ==
  /\ saver[s].pc = "lock"
  /\ lock' = [lock EXCEPT ![InstanceOf[s]] = s]
  /\ saver' = [saver EXCEPT ![s].pc = "members"]
  /\ UNCHANGED <<db, cache, registry, fill, writer>>

SaveLock(s) ==
  /\ saver[s].pc = "lock"
  /\ lock[InstanceOf[s]] = Nothing
  /\ lock' = [lock EXCEPT ![InstanceOf[s]] = s]
  /\ saver' = [saver EXCEPT ![s].pc = "members"]
  /\ UNCHANGED <<db, cache, registry, fill, writer>>

SaveMembers(s) ==
  /\ saver[s].pc = "members"
  /\ saver' = [saver EXCEPT ![s].pc = "get", ![s].todo = registry]
  /\ UNCHANGED <<db, cache, registry, fill, writer, lock>>

\* Mutant: the first miss ends the loop.
SaveGetUntilMiss(s) ==
  /\ saver[s].pc = "get"
  /\ \E k \in saver[s].todo :
       saver' = [saver EXCEPT
         ![s] = IF Cached(k)
                THEN [@ EXCEPT !.pc = "set", !.key = k, !.todo = saver[s].todo \ {k},
                               !.val = [cache[k].val EXCEPT !.last = saver[s].msg]]
                ELSE [@ EXCEPT !.todo = {}]]
  /\ UNCHANGED <<db, cache, registry, fill, writer, lock>>

\* One turn of the loop: a miss goes on to the next key.
SaveGet(s) ==
  /\ saver[s].pc = "get"
  /\ \E k \in saver[s].todo :
       saver' = [saver EXCEPT
         ![s] = IF Cached(k)
                THEN [@ EXCEPT !.pc = "set", !.key = k, !.todo = saver[s].todo \ {k},
                               !.val = [cache[k].val EXCEPT !.last = saver[s].msg]]
                ELSE [@ EXCEPT !.todo = saver[s].todo \ {k}]]
  /\ UNCHANGED <<db, cache, registry, fill, writer, lock>>

SaveSet(s) ==
  /\ saver[s].pc = "set"
  /\ cache' = [cache EXCEPT ![saver[s].key] = Present(saver[s].val)]
  /\ saver' = [saver EXCEPT ![s].pc = "add"]
  /\ UNCHANGED <<db, registry, fill, writer, lock>>

\* Mutant: the registration runs after the key was cleared.
SaveAddCleared(s) ==
  /\ saver[s].pc = "add"
  /\ registry' = registry \cup {Nothing}
  /\ saver' = [saver EXCEPT ![s].pc = "get", ![s].key = Nothing, ![s].val = NoEntry]
  /\ UNCHANGED <<db, cache, fill, writer, lock>>

SaveAdd(s) ==
  /\ saver[s].pc = "add"
  /\ registry' = registry \cup {saver[s].key}
  /\ saver' = [saver EXCEPT ![s].pc = "get", ![s].key = Nothing, ![s].val = NoEntry]
  /\ UNCHANGED <<db, cache, fill, writer, lock>>

\* The deferred Unlock and the return of SaveMessage.
Release(s) ==
  /\ lock' = [lock EXCEPT ![InstanceOf[s]] = Nothing]
  /\ saver' = [saver EXCEPT ![s] = NoSaver]

SaveUnlock(s) ==
  /\ saver[s].pc = "get"
  /\ saver[s].todo = {}
  /\ Release(s)
  /\ UNCHANGED <<db, cache, registry, fill, writer>>

\* Mutant: the early return keeps the lock.
SaveMembersKeepsLock(s) ==
  /\ RedisFaults
  /\ saver[s].pc = "members"
  /\ saver' = [saver EXCEPT ![s] = NoSaver]
  /\ UNCHANGED <<db, cache, registry, fill, writer, lock>>

SaveMembersFails(s) ==
  /\ RedisFaults
  /\ saver[s].pc = "members"
  /\ Release(s)
  /\ UNCHANGED <<db, cache, registry, fill, writer>>

SaveSetFails(s) ==
  /\ RedisFaults
  /\ saver[s].pc = "set"
  /\ saver' = [saver EXCEPT ![s].pc = "add"]
  /\ UNCHANGED <<db, cache, registry, fill, writer, lock>>

SaveAddFails(s) ==
  /\ RedisFaults
  /\ saver[s].pc = "add"
  /\ saver' = [saver EXCEPT ![s].pc = "get", ![s].key = Nothing, ![s].val = NoEntry]
  /\ UNCHANGED <<db, cache, registry, fill, writer, lock>>
------------------------------------------------------------------------------
FillStep(f)  == FillQuery(f) \/ FillNone(f) \/ FillSet(f) \/ FillAdd(f)
                  \/ FillSetFails(f)
WriteStep(w) == WriteMembers(w) \/ WriteDel(w) \/ WriteDelSet(w)
                  \/ WriteDelSetFails(w)
SaveStep(s)  == SaveLock(s) \/ SaveMembers(s) \/ SaveGet(s) \/ SaveSet(s)
                  \/ SaveAdd(s) \/ SaveUnlock(s) \/ SaveAddFails(s)

\* The steps after which no key is missed.
Regular ==
  \/ \E f \in Fills, k \in Keys : FillMiss(f, k)
  \/ \E f \in Fills : FillStep(f)
  \/ \E k \in Keys : Expire(k)
  \/ \E w \in Writers : WriteCommit(w) \/ WriteStep(w)
  \/ \E s \in Savers : SaveCommit(s) \/ SaveStep(s)

Next ==
  \/ Regular /\ Track({}, {})
  \/ \E f \in Fills : FillAddFails(f) /\ Track({fill[f].key}, {})
  \/ \E w \in Writers : WriteMembersFails(w) /\ Track(Keys, {})
  \/ \E w \in Writers : WriteDelFails(w) /\ Track(writer[w].keys, {})
  \/ \E s \in Savers : SaveMembersFails(s) /\ Track({}, Keys)
  \/ \E s \in Savers : SaveSetFails(s) /\ Track({}, {saver[s].key})

Spec == Init /\ [][Next]_vars

\* A call that runs keeps running, and a mutex that is free is handed on: with
\* finitely many saves no waiter is overtaken for ever.
SavesFair ==
  \A s \in Savers :
    /\ WF_vars(SaveLock(s) /\ Track({}, {}))
    /\ WF_vars((SaveMembers(s) \/ SaveGet(s) \/ SaveSet(s) \/ SaveAdd(s)
                  \/ SaveUnlock(s)) /\ Track({}, {}))
FairSpec == Spec /\ SavesFair
------------------------------------------------------------------------------
(* Properties.                                                              *)

\* Every variable has the shape of the Redis data and calls it stands for.
TypeOK ==
  /\ changes \in Nat /\ messages \in Nat
  /\ cache \in [Keys -> Slot]
  /\ registry \subseteq Keys
  /\ fill \in [Fills -> Fill]
  /\ writer \in [Writers -> Writer]
  /\ saver \in [Savers -> Saver]
  /\ lock \in [Instances -> Savers \cup {Nothing}]
  /\ suspect \subseteq Keys /\ lagging \subseteq Keys

\* DeleteRoomCacheByRoomID does its work whenever nobody interferes: once no
\* invalidation is under way, every entry that no fill or sweep carried across
\* one and no Redis error touched shows the latest committed change, and is
\* registered (or about to be), so the next invalidation will find it too.
FreshUnlessSuspect ==
  \A k \in Keys : Cached(k) /\ ~Invalidating /\ k \notin suspect =>
    /\ cache[k].val.rev = changes
    /\ k \in registry \/ Held(k)

\* UpdateRoomCacheWithNewMessage does its work unless a later save overtakes it:
\* with no sweep under way, every entry that is not suspect and that no GetRoom
\* filled without the latest message shows it.
LastMessageCurrent ==
  \A k \in Keys : Cached(k) /\ ~Saving /\ k \notin suspect \cup lagging =>
    cache[k].val.last = messages

\* Two sweeps of the room in one process never work at the same time.
SweepExclusive ==
  \A s, t \in Savers : s # t /\ InstanceOf[s] = InstanceOf[t] =>
    ~ /\ saver[s].pc \in {"members", "get", "set", "add"}
      /\ saver[t].pc \in {"members", "get", "set", "add"}

\* SaveMessage always returns: whatever Redis answers, a sweep gives the lock
\* of its room back and the next one gets it.
SavesEnd == \A s \in Savers : saver[s].pc = "lock" ~> saver[s].pc = "idle"
==============================================================================
