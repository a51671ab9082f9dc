-------------------------------- MODULE Paging --------------------------------
(***************************************************************************)
(* A client that reads a list of the SQL repository page by page while the  *)
(* list changes.  The lists are the rooms of a user, the participants of a  *)
(* room, the history of a room and the reads and reactions of a message.  A *)
(* page is a query with OFFSET and LIMIT and the number of pages a second   *)
(* query; a page of history may also be asked for by the last message of    *)
(* the one before.                                                          *)
(***************************************************************************)
EXTENDS Integers, Sequences, FiniteSets, SequencesExt

CONSTANTS Items,       \* what the lists are made of
          Ranks,       \* where a row can be in the order of the query
          MaxLimit,    \* bound on the size of a page
          MaxChanges,  \* bound on the changes of the list during a walk
          Word,        \* the number of values of a uint32
          NoItem

ASSUME PagingAssumption ==
  /\ IsFiniteSet(Items) /\ NoItem \notin Items
  /\ MaxLimit \in Nat \ {0} /\ MaxChanges \in Nat
  /\ Ranks \subseteq Nat \ {0}
  /\ Word \in Nat /\ Word > (Cardinality(Items) + 1) * MaxLimit

VARIABLES
  kind,       \* which list
  here,       \* the rows
  rank,       \* what the ORDER BY compares; a row that is gone keeps it
  pinned,     \* is_pinned of room_member
  uncounted,  \* messages without a row of room_message_meta for the user
  changes,    \* the number of changes so far
  walk,       \* the client
  moved,      \* history: rows that came, left or moved during the walk
  loose,      \* history: rows that one before them, which the client had the page of,
              \* pulled forward, or that a page could have in another place than the
              \* page before it
  short       \* history: the walk ended because a total left out messages

vars == <<kind, here, rank, pinned, uncounted, changes, walk, moved, loose, short>>
------------------------------------------------------------------------------
Kinds == {"rooms", "participants", "history", "reads", "reactions"}
Walk  == [pc : {"fetch", "count", "done"}, byCursor : BOOLEAN, page : 1..Word - 1,
          limit : 1..MaxLimit, last : Items \cup {NoItem}, got : SUBSET Items,
          full : BOOLEAN]

\* What can happen to the rows of a list: that the user pins one, that it is renamed, that
\* it leaves and that it returns; and whether the total counts every row of the pages.

\* rooms: is_pinned DESC, lastMessageAt DESC, created_at DESC; no statement sets
\* lastMessageAt.  A room that the user returns to has its row of room_member again.
GetRoomList ==
  [pins |-> TRUE, renames |-> FALSE, leaves |-> TRUE, returns |-> TRUE, counted |-> TRUE]

\* participants: name ASC.  The users are another service's.
GetRoomParticipants ==
  [pins |-> FALSE, renames |-> TRUE, leaves |-> TRUE, returns |-> TRUE, counted |-> TRUE]

\* history: created_at DESC; a deleted message is in no query, and none is while the user
\* is not a member.  The page is a LEFT JOIN with room_message_meta and its total an INNER
\* JOIN.
GetMessagesFromRoom ==
  [pins |-> FALSE, renames |-> FALSE, leaves |-> TRUE, returns |-> TRUE, counted |-> FALSE]

\* reads: read_at ASC, and a read receipt stays.
GetMessageRead ==
  [pins |-> FALSE, renames |-> FALSE, leaves |-> FALSE, returns |-> FALSE, counted |-> TRUE]

\* reactions: created_at DESC; a reaction that is taken back is never revived.
GetMessageReactions ==
  [pins |-> FALSE, renames |-> FALSE, leaves |-> TRUE, returns |-> FALSE, counted |-> TRUE]

Query ==
  CASE kind = "rooms"        -> GetRoomList
    [] kind = "participants" -> GetRoomParticipants
    [] kind = "history"      -> GetMessagesFromRoom
    [] kind = "reads"        -> GetMessageRead
    [] kind = "reactions"    -> GetMessageReactions

\* ORDER BY: i is before j.
Precedes(i, j) ==
  \/ i \in pinned /\ j \notin pinned
  \/ (i \in pinned <=> j \in pinned) /\ rank[i] < rank[j]

\* The rows that are before i whatever the order of equals is.
Ahead(i) == {j \in here : Precedes(j, i)}

Init ==
  /\ kind \in Kinds
  /\ here \in SUBSET Items
  /\ \E f \in [here -> Ranks] : rank = [i \in Items |-> IF i \in here THEN f[i] ELSE 0]
  /\ pinned \in IF Query.pins THEN SUBSET here ELSE {{}}
  /\ uncounted \in IF Query.counted THEN {{}} ELSE SUBSET here
  /\ changes = 0
  /\ \E limit \in 1..MaxLimit, byCursor \in BOOLEAN :
       /\ byCursor => kind = "history"
       /\ walk = [pc |-> "fetch", byCursor |-> byCursor, page |-> 1, limit |-> limit,
                  last |-> NoItem, got |-> {}, full |-> FALSE]
  /\ moved = {} /\ loose = {} /\ short = FALSE
------------------------------------------------------------------------------
(* The list changes.                                                        *)

\* The rows of the pages that the client has.
Reached == (IF walk.pc = "fetch" THEN walk.page - 1 ELSE walk.page) * walk.limit

\* A row that leaves, or moves back, from a page the client has pulls forward those that
\* it was before.
Changes(i) ==
  /\ changes < MaxChanges /\ changes' = changes + 1 /\ walk.pc # "done"
  /\ moved' = moved \cup {i}
  /\ loose' = loose \cup {j \in here : /\ i \in Ahead(j) /\ Cardinality(Ahead(i)) < Reached
                                       /\ ~(i \in here' /\ Precedes(i, j)')}
  /\ UNCHANGED <<kind, walk, short>>

\* Whoever has just come into a history is counted if the message is his own; the others
\* get their rows of room_message_meta from the fan-out.
Counted(i) == IF Query.counted THEN {uncounted} ELSE {uncounted, uncounted \cup {i}}

\* A new row may come in anywhere: created_at and read_at are from the beginning of the
\* transaction, and a list of rooms by "since" takes in a room that has changed.
Enter(i) ==
  /\ i \notin here \cup moved
  /\ here' = here \cup {i}
  /\ \E n \in Ranks : rank' = [rank EXCEPT ![i] = n]
  /\ pinned' \in IF Query.pins THEN {pinned, pinned \cup {i}} ELSE {pinned}
  /\ uncounted' \in Counted(i)
  /\ Changes(i)

Return(i) ==
  /\ Query.returns /\ i \in moved \ here
  /\ here' = here \cup {i}
  /\ uncounted' \in Counted(i)
  /\ UNCHANGED <<rank, pinned>>
  /\ Changes(i)

Leave(i) ==
  /\ Query.leaves /\ i \in here
  /\ here' = here \ {i}
  /\ uncounted' = uncounted \ {i}
  /\ UNCHANGED <<rank, pinned>>
  /\ Changes(i)

PinRoom(i) ==
  /\ Query.pins /\ i \in here
  /\ pinned' = IF i \in pinned THEN pinned \ {i} ELSE pinned \cup {i}
  /\ UNCHANGED <<here, rank, uncounted>>
  /\ Changes(i)

Rename(i) ==
  /\ Query.renames /\ i \in here
  /\ \E n \in Ranks : rank' = [rank EXCEPT ![i] = n]
  /\ UNCHANGED <<here, pinned, uncounted>>
  /\ Changes(i)

\* CreateMessageMetaForParticipants, or MarkMessagesAsRead before it.
CountMessage(i) ==
  /\ i \in uncounted
  /\ uncounted' = uncounted \ {i}
  /\ UNCHANGED <<kind, here, rank, pinned, changes, walk, moved, loose, short>>
------------------------------------------------------------------------------
(* The walk.                                                                *)

\* The orders in which the query may return the rows: equal ones in any.
Orders(S) ==
  {s \in SetToSeqs(S) : \A n, m \in 1..Len(s) : n < m => ~Precedes(s[m], s[n])}

\* Mutant: pages counted from 0.
OffsetFromZero(page, limit) == (page * limit) % Word
Offset(page, limit) == ((page - 1) * limit) % Word

\* OFFSET and LIMIT.
Window(s, page, limit) ==
  LET start == Offset(page, limit)
      end   == start + limit
  IN IF start > Len(s) THEN <<>>
     ELSE SubSeq(s, start + 1, IF end > Len(s) THEN Len(s) ELSE end)

\* Mutants: on from the last message itself, and in the other direction.
BeforeOrAt == {i \in here : walk.last = NoItem \/ rank[i] >= rank[walk.last]}
After      == {i \in here : walk.last = NoItem \/ rank[i] < rank[walk.last]}

\* The messages created before the last one of the page before, there still or not.
Before == {i \in here : walk.last = NoItem \/ rank[i] > rank[walk.last]}

\* Rows whose place the ORDER BY leaves open.
Equals == {i \in here : \E j \in here \ {i} : ~Precedes(i, j) /\ ~Precedes(j, i)}

Fetch ==
  /\ walk.pc = "fetch"
  /\ \E s \in Orders(IF walk.byCursor THEN Before ELSE here) :
       LET page == Window(s, walk.page, walk.limit)
       IN walk' = [walk EXCEPT !.pc = "count", !.got = @ \cup ToSet(page),
                               !.last = IF page = <<>> THEN @ ELSE page[Len(page)],
                               !.full = Len(page) = walk.limit]
  /\ loose' = loose \cup Equals
  /\ UNCHANGED <<kind, here, rank, pinned, uncounted, changes, moved, short>>

\* Mutant: one page too many when the last one is full.
TotalPagesAndOne(total, limit) == total \div limit + 1
TotalPages(total, limit) == (total + limit - 1) \div limit

\* The client goes on to the last page of the total it is given; with a cursor it
\* stays at page 1 and goes on until a page is not full.
Count ==
  LET total == Cardinality(IF Query.counted THEN here ELSE here \ uncounted)
      more  == IF walk.byCursor THEN walk.full
               ELSE walk.page < TotalPages(total, walk.limit)
  IN /\ walk.pc = "count"
     /\ walk' = IF ~more THEN [walk EXCEPT !.pc = "done"]
                ELSE [walk EXCEPT !.pc = "fetch", !.page = IF walk.byCursor THEN @ ELSE @ + 1]
     /\ short' = (~more /\ uncounted # {} /\ walk.page * walk.limit < Cardinality(here))
     /\ UNCHANGED <<kind, here, rank, pinned, uncounted, changes, moved, loose>>

Next ==
  \/ Fetch \/ Count
  \/ \E i \in Items : \/ Enter(i) \/ Return(i) \/ Leave(i) \/ PinRoom(i) \/ Rename(i)
                      \/ CountMessage(i)

\* The client asks for the next page; a query returns.
Spec == Init /\ [][Next]_vars /\ WF_vars(Fetch) /\ WF_vars(Count)
------------------------------------------------------------------------------
(* Properties.                                                              *)

\* The walk stays within the list: no page is asked for beyond those a list of all items
\* would have, so that no offset wraps around.
TypeOK ==
  /\ kind \in Kinds /\ here \subseteq Items /\ uncounted \subseteq here
  /\ rank \in [Items -> Int] /\ pinned \subseteq Items /\ changes \in 0..MaxChanges
  /\ walk \in Walk /\ walk.page \in 1..Cardinality(Items) \cup {1}
  /\ moved \subseteq Items /\ loose \subseteq Items /\ short \in BOOLEAN

Missed  == IF walk.pc = "done" THEN here \ walk.got ELSE {}

\* A client that has read the pages up to TotalPages has every row, but for those that
\* came, returned or moved meanwhile; those that were pulled forward when a row of a page
\* the client had left or moved back (a room unpinned, a member renamed); those whose place
\* the ORDER BY leaves open; and a history whose last total left out messages that the
\* fan-out had not reached, at a page where more were to come.
NothingSkipped ==
  ~walk.byCursor /\ ~short => \A i \in Missed : i \in moved \cup loose

\* Reading a history by before_message_id is not disturbed by departures, nor by what
\* is not counted: only messages of the same created_at are missed.
CursorHasNoHoles ==
  walk.byCursor => \A i \in Missed : i \in moved \/ \E j \in Items \ {i} : rank[j] = rank[i]

\* The walk comes to an end when the list stops changing.
WalkEnds == <>(walk.pc = "done")
=============================================================================
