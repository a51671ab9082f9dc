-------------------------- MODULE PagingAndEncryptionProofs --------------------------
(***************************************************************************)
(* The proofs about the two components of MCPaging, which share no state: a *)
(* client that reads a list page by page misses only what moved (Paging),   *)
(* and what it encrypts is what the server decrypts (Encryption).           *)
(***************************************************************************)
EXTENDS Paging, Encryption, FiniteSetTheorems, SequenceTheorems, TLAPS

(* Reading page by page.                                                     *)

\* Every row of S is in s, once; none is after one that it precedes.
Ordered(s, S) ==
  /\ s \in Seq(S) /\ Len(s) \in Nat /\ Len(s) = Cardinality(S)
  /\ \A n \in 1..Len(s) : s[n] \in S
  /\ \A n, m \in 1..Len(s) : n # m => s[n] # s[m]
  /\ \A n, m \in 1..Len(s) : n < m => ~Precedes(s[m], s[n])
  /\ \A x \in S : \E n \in 1..Len(s) : s[n] = x

\* So it is of every order in which a query may return S.
LEMMA OrderOf ==
  ASSUME NEW S, IsFiniteSet(S), NEW s \in Orders(S)
  PROVE  Ordered(s, S)
<1> DEFINE N == Cardinality(S)
<1>1. N \in Nat
  BY FS_CardinalityType
<1>2. s \in [1..N -> S] /\ \A n, m \in 1..N : n # m => s[n] # s[m]
  BY Zenon DEF Orders, SetToSeqs
<1>3. /\ s \in Seq(S) /\ Len(s) = N
  BY <1>1, <1>2, SMT
<1>4. \A n, m \in 1..Len(s) : n < m => ~Precedes(s[m], s[n])
  BY Zenon DEF Orders
<1>5. s \in Injection(1..N, S)
  BY <1>2, Zenon DEF Injection, IsInjective
<1>6. IsFiniteSet(1..N) /\ Cardinality(1..N) = N
  BY <1>1, FS_Interval, SMT
<1>7. s \in Surjection(1..N, S)
  BY <1>5, <1>6, FS_Injection
<1>8. \A x \in S : \E n \in 1..N : s[n] = x
  BY <1>7, Zenon DEF Surjection
<1>9. \A n \in 1..Len(s) : s[n] \in S
  BY <1>2, <1>3
<1> QED BY <1>1, <1>2, <1>3, <1>4, <1>8, <1>9, Zenon DEF Ordered

\* The rows of a query are in a strict partial order.
LEMMA PartialOrder ==
  ASSUME rank \in [Items -> Int], NEW i \in Items, NEW j \in Items, NEW k \in Items
  PROVE  /\ ~Precedes(i, i)
         /\ Precedes(i, j) => ~Precedes(j, i)
         /\ Precedes(i, j) /\ Precedes(j, k) => Precedes(i, k)
<1>1. rank[i] \in Int /\ rank[j] \in Int /\ rank[k] \in Int
  OBVIOUS
<1> QED BY <1>1, SMT DEF Precedes

\* The place of a row that has no equal is the number of rows before it.
LEMMA PlaceOf ==
  ASSUME here \subseteq Items, rank \in [Items -> Int], NEW s \in Orders(here),
         NEW n \in 1..Len(s), s[n] \notin Equals
  PROVE  Cardinality(Ahead(s[n])) = n - 1
<1> DEFINE i == s[n]
           f == [k \in 1..(n - 1) |-> s[k]]
<1>1. IsFiniteSet(here)
  BY PagingAssumption, FS_Subset
<1>0. Ordered(s, here)
  BY <1>1, OrderOf, Zenon
<1>2. /\ Len(s) \in Nat
      /\ \A k, m \in 1..Len(s) : k # m => s[k] # s[m]
      /\ \A k, m \in 1..Len(s) : k < m => ~Precedes(s[m], s[k])
      /\ \A k \in 1..Len(s) : s[k] \in here
      /\ \A x \in here : \E k \in 1..Len(s) : s[k] = x
  BY <1>0, Zenon DEF Ordered
<1>3. /\ i \in here /\ i \in Items
      /\ \A x \in here : x # i => Precedes(x, i) \/ Precedes(i, x)
  BY <1>2 DEF Equals
<1>4. ASSUME NEW k \in 1..(n - 1) PROVE s[k] \in Ahead(i)
  <2>1. k \in 1..Len(s) /\ k < n /\ k # n
    BY <1>2, SMT
  <2>2. ~Precedes(i, s[k]) /\ s[k] # i /\ s[k] \in here
    BY <1>2, <2>1
  <2>3. Precedes(s[k], i)
    BY <1>3, <2>2
  <2> QED BY <2>2, <2>3 DEF Ahead
<1>5. ASSUME NEW x \in Ahead(i) PROVE \E k \in 1..(n - 1) : s[k] = x
  <2>1. x \in here /\ x \in Items /\ Precedes(x, i)
    BY DEF Ahead
  <2>2. PICK k \in 1..Len(s) : s[k] = x
    BY <1>2, <2>1
  <2>3. n # k
    BY <1>3, <2>1, <2>2, PartialOrder
  <2>4. ~(n < k)
    BY <1>2, <2>1, <2>2
  <2> QED BY <1>2, <2>2, <2>3, <2>4, SMT
<1>6. f \in Injection(1..(n - 1), Ahead(i))
  <2>1. f \in [1..(n - 1) -> Ahead(i)]
    BY <1>4
  <2>2. \A a, b \in 1..(n - 1) : f[a] = f[b] => a = b
    <3>1. \A a \in 1..(n - 1) : f[a] = s[a] /\ a \in 1..Len(s)
      BY <1>2, SMT
    <3> HIDE DEF f
    <3> QED BY <1>2, <3>1, Zenon
  <2> HIDE DEF f
  <2> QED BY <2>1, <2>2, Zenon DEF Injection, IsInjective
<1>7. f \in Surjection(1..(n - 1), Ahead(i))
  BY <1>4, <1>5, <1>6, Zenon DEF Injection, Surjection
<1>8. IsFiniteSet(1..(n - 1)) /\ Cardinality(1..(n - 1)) = n - 1
  <2>1. n - 1 \in Int /\ 1 \in Int /\ n >= 1
    BY <1>2, SMT
  <2> QED BY <2>1, FS_Interval, SMT
<1> HIDE DEF f, i
<1>9. Cardinality(Ahead(i)) = Cardinality(1..(n - 1))
  BY <1>6, <1>7, <1>8, FS_Surjection
<1> QED BY <1>8, <1>9 DEF i

\* w is what s has behind start, up to limit.
Cut(w, s, start, limit) ==
  /\ Len(w) = IF start > Len(s) THEN 0
              ELSE IF start + limit > Len(s) THEN Len(s) - start ELSE limit
  /\ \A n \in 1..Len(s) : start < n /\ n <= start + limit =>
       n - start \in 1..Len(w) /\ w[n - start] = s[n]

\* The rows of a window.
LEMMA WindowRows ==
  ASSUME NEW S, NEW s \in Seq(S), NEW page, NEW limit \in Nat \ {0}, NEW start \in Nat,
         start = Offset(page, limit)
  PROVE  /\ Window(s, page, limit) \in Seq(S)
         /\ Cut(Window(s, page, limit), s, start, limit)
<1> DEFINE w == Window(s, page, limit)
           end == IF start + limit > Len(s) THEN Len(s) ELSE start + limit
<1>1. Len(s) \in Nat
  BY SMT
<1>2. CASE start > Len(s)
  <2>1. w = <<>>
    BY <1>2, SMT DEF Window
  <2> QED BY <1>1, <1>2, <2>1, SMT DEF Cut
<1>3. CASE ~(start > Len(s))
  <2>1. w = SubSeq(s, start + 1, end)
    BY <1>3, Zenon DEF Window
  <2>2. end \in Nat /\ start <= end /\ end <= Len(s)
    BY <1>1, <1>3, SMT
  <2>3. w \in Seq(S) /\ Len(w) = end - start /\ \A k \in 1..(end - start) : w[k] = s[start + k]
    <3> HIDE DEF w, end
    <3> QED BY <1>1, <2>1, <2>2, SMT
  <2>4. ASSUME NEW n \in 1..Len(s), start < n, n <= start + limit
        PROVE  n - start \in 1..Len(w) /\ w[n - start] = s[n]
    <3>1. n - start \in 1..(end - start) /\ start + (n - start) = n
      BY <1>1, <1>3, <2>4, SMT
    <3> HIDE DEF w, end
    <3> QED BY <2>3, <3>1, SMT
  <2>5. Len(w) = IF start + limit > Len(s) THEN Len(s) - start ELSE limit
    <3> HIDE DEF w
    <3> QED BY <1>1, <2>3, SMT
  <2> QED BY <1>3, <2>3, <2>4, <2>5 DEF Cut
<1> QED BY <1>2, <1>3
------------------------------------------------------------------------------
\* A row of the list has a place; a row that has never been in it has none yet; the last
\* row of a page was in the list; only a history is read by cursor, and only rooms are
\* pinned.
Tied(i) == \E j \in Items \ {i} : rank[j] = rank[i]
ListShape ==
  /\ \A i \in here \cup moved : rank[i] # 0
  /\ \A i \in Items \ (here \cup moved) : rank[i] = 0
  /\ walk.last # NoItem => walk.last \in here \cup moved
  /\ walk.byCursor => kind = "history" /\ walk.page = 1
  /\ kind # "rooms" => pinned = {}

\* A row that the client has not got is behind the last row it has, with more to come.
CursorShape ==
  walk.byCursor => \A i \in here \ moved :
    \/ i \in walk.got \/ Tied(i)
    \/ i \in Before /\ (walk.pc = "fetch" \/ (walk.pc = "count" /\ walk.full))

\* It is behind the pages that the client has read.
OffsetShape ==
  ~walk.byCursor => \A i \in here \ (moved \cup loose) :
    \/ i \in walk.got
    \/ walk.pc # "done" /\ Cardinality(Ahead(i)) >= Reached
    \/ walk.pc = "done" /\ short
IInv == TypeOK /\ ListShape /\ CursorShape /\ OffsetShape

\* The walk with a page in hand.
WithPage(w, G, L, F) == [w EXCEPT !.pc = "count", !.got = G, !.last = L, !.full = F]

\* The values that the steps make of a walk.
LEMMA WalkFetched ==
  ASSUME NEW w \in Walk, NEW G \in SUBSET Items, NEW L \in Items \cup {NoItem},
         NEW F \in BOOLEAN
  PROVE  LET v == WithPage(w, G, L, F) IN
         /\ v \in Walk /\ v.pc = "count" /\ v.got = G /\ v.last = L /\ v.full = F
         /\ v.byCursor = w.byCursor /\ v.page = w.page /\ v.limit = w.limit
<1> DEFINE a == [w EXCEPT !.pc = "count"]
           b == [a EXCEPT !.got = G]
           c == [b EXCEPT !.last = L]
           d == [c EXCEPT !.full = F]
<1>1. WithPage(w, G, L, F) = d
  BY SMT DEF WithPage
<1>2. /\ a \in Walk /\ a.pc = "count"
      /\ a.byCursor = w.byCursor /\ a.page = w.page /\ a.limit = w.limit
  BY SMT DEF Walk
<1> HIDE DEF a
<1>3. /\ b \in Walk /\ b.pc = "count" /\ b.got = G
      /\ b.byCursor = w.byCursor /\ b.page = w.page /\ b.limit = w.limit
  BY <1>2, SMT DEF Walk
<1> HIDE DEF b
<1>4. /\ c \in Walk /\ c.pc = "count" /\ c.got = G /\ c.last = L
      /\ c.byCursor = w.byCursor /\ c.page = w.page /\ c.limit = w.limit
  BY <1>3, SMT DEF Walk
<1> HIDE DEF c
<1>5. /\ d \in Walk /\ d.pc = "count" /\ d.got = G /\ d.last = L /\ d.full = F
      /\ d.byCursor = w.byCursor /\ d.page = w.page /\ d.limit = w.limit
  BY <1>4, SMT DEF Walk
<1> HIDE DEF d
<1> QED BY <1>1, <1>5

\* The walk that goes on to a page, or stops.
Goes(w, p) == [w EXCEPT !.pc = "fetch", !.page = p]
Stops(w)   == [w EXCEPT !.pc = "done"]

\* The values of both.
LEMMA WalkCounted ==
  ASSUME NEW w \in Walk, NEW p \in 1..Word - 1
  PROVE  /\ Stops(w) \in Walk /\ Stops(w).pc = "done" /\ Stops(w).got = w.got
         /\ Stops(w).last = w.last /\ Stops(w).full = w.full /\ Stops(w).limit = w.limit
         /\ Stops(w).byCursor = w.byCursor /\ Stops(w).page = w.page
         /\ Goes(w, p) \in Walk /\ Goes(w, p).pc = "fetch" /\ Goes(w, p).got = w.got
         /\ Goes(w, p).last = w.last /\ Goes(w, p).full = w.full
         /\ Goes(w, p).limit = w.limit
         /\ Goes(w, p).byCursor = w.byCursor /\ Goes(w, p).page = p
<1> DEFINE a == [w EXCEPT !.pc = "done"]
           b == [w EXCEPT !.pc = "fetch"]
           c == [b EXCEPT !.page = p]
<1>1. /\ a \in Walk /\ a.pc = "done" /\ a.got = w.got /\ a.last = w.last
      /\ a.full = w.full /\ a.byCursor = w.byCursor /\ a.page = w.page /\ a.limit = w.limit
  BY SMT DEF Walk
<1>2. Goes(w, p) = c
  BY SMT DEF Goes
<1>3. /\ b \in Walk /\ b.pc = "fetch" /\ b.got = w.got /\ b.last = w.last
      /\ b.full = w.full /\ b.byCursor = w.byCursor /\ b.limit = w.limit
  BY SMT DEF Walk
<1> HIDE DEF b
<1>4. /\ c \in Walk /\ c.pc = "fetch" /\ c.got = w.got /\ c.last = w.last
      /\ c.full = w.full /\ c.byCursor = w.byCursor /\ c.page = p /\ c.limit = w.limit
  BY <1>3, SMT DEF Walk
<1>5. Stops(w) = a
  BY DEF Stops
<1> HIDE DEF a, c
<1> QED BY <1>1, <1>2, <1>4, <1>5

\* A product of numbers that are not greater is not greater.
LEMMA Products ==
  ASSUME NEW a \in Nat, NEW b \in Nat, NEW c \in Nat, NEW d \in Nat, a <= b, c <= d
  PROVE  a * c <= b * d /\ a * c \in Nat /\ b * d \in Nat
<1>1. a * c <= b * c
  BY SMT
<1>2. b * c <= b * d
  BY SMT
<1> QED BY <1>1, <1>2, SMT

\* The numbers of a page and of its rows stay below the number of values of a uint32.
LEMMA Numbers ==
  ASSUME TypeOK
  PROVE  /\ walk.page \in Nat \ {0} /\ walk.limit \in Nat \ {0}
         /\ Cardinality(Items) \in Nat /\ Cardinality(Items) + 1 < Word
         /\ walk.page < Word
         /\ (walk.page - 1) * walk.limit \in Nat
         /\ Offset(walk.page, walk.limit) = (walk.page - 1) * walk.limit
         /\ walk.page * walk.limit = (walk.page - 1) * walk.limit + walk.limit
         /\ Reached \in Nat
<1> DEFINE C == Cardinality(Items)
           p == walk.page
           l == walk.limit
<1>1. /\ p \in 1..Word - 1 /\ l \in 1..MaxLimit /\ p \in 1..C \cup {1}
  BY SMT DEF TypeOK, Walk
<1>2. C \in Nat
  BY PagingAssumption, FS_CardinalityType
<1>3. Word \in Nat /\ MaxLimit \in Nat \ {0} /\ Word > (C + 1) * MaxLimit
  BY PagingAssumption
<1>4. p \in Nat \ {0} /\ l \in Nat \ {0} /\ p < Word /\ l <= MaxLimit /\ p <= C + 1
  <2> HIDE DEF C, p, l
  <2> QED BY <1>1, <1>2, <1>3, SMT
<1>10. p * l = (p - 1) * l + l /\ Reached \in Nat
  <2>1. Reached = (IF walk.pc = "fetch" THEN p - 1 ELSE p) * l
    BY DEF Reached
  <2> HIDE DEF p, l
  <2>2. /\ p * l = (p - 1) * l + l
        /\ (p - 1) * l \in Nat /\ p * l \in Nat
    BY <1>4, SMT
  <2> QED BY <2>1, <2>2
<1> HIDE DEF C, p, l
<1>6. (C + 1) * 1 <= (C + 1) * MaxLimit
  BY <1>2, <1>3, Products, SMT
<1>7. C + 1 < Word
  BY <1>2, <1>3, <1>6, SMT
<1>8. (p - 1) * l \in Nat /\ (p - 1) * l <= (C + 1) * MaxLimit
  <2>1. p - 1 \in Nat /\ p - 1 <= C + 1
    BY <1>2, <1>4, SMT
  <2>2. C + 1 \in Nat
    BY <1>2, SMT
  <2> QED BY <1>3, <1>4, <2>1, <2>2, Products, SMT
<1>9. ((p - 1) * l) % Word = (p - 1) * l
  <2> DEFINE x == (p - 1) * l
             y == (C + 1) * MaxLimit
  <2>1. x \in Nat /\ x <= y /\ y \in Int /\ Word > y
    BY <1>2, <1>3, <1>8, SMT
  <2> HIDE DEF x, y
  <2>2. x % Word = x
    BY <1>3, <2>1, SMT
  <2> QED BY <2>2 DEF x
<1> QED BY <1>2, <1>4, <1>7, <1>8, <1>9, <1>10, Zenon DEF p, l, C, Offset
------------------------------------------------------------------------------
\* Rooms are pinned, and members renamed.
LEMMA QueryPins ==
  ASSUME kind \in Kinds
  PROVE  /\ kind # "rooms" => ~Query.pins
         /\ kind = "history" => ~Query.renames
BY SMT DEF Query, GetRoomList, GetRoomParticipants, GetMessagesFromRoom, GetMessageRead,
   GetMessageReactions, Kinds

\* More rows before i, and those finitely many.
LEMMA AheadGrows ==
  ASSUME NEW A, NEW B, IsFiniteSet(B), A \subseteq B
  PROVE  /\ IsFiniteSet(A) /\ Cardinality(A) <= Cardinality(B)
         /\ Cardinality(A) \in Nat /\ Cardinality(B) \in Nat
<1>1. IsFiniteSet(A) /\ Cardinality(A) <= Cardinality(B)
  BY FS_Subset
<1> QED BY <1>1, FS_CardinalityType

\* The rows before i are finitely many, and fewer than the list has if i is in it.
LEMMA AheadCounts ==
  ASSUME here \subseteq Items, rank \in [Items -> Int], NEW i
  PROVE  /\ IsFiniteSet(Ahead(i)) /\ Cardinality(Ahead(i)) \in Nat
         /\ IsFiniteSet(here) /\ Cardinality(here) \in Nat
         /\ Cardinality(here) <= Cardinality(Items)
         /\ i \in here => Cardinality(Ahead(i)) < Cardinality(here)
<1>1. IsFiniteSet(here) /\ Cardinality(here) <= Cardinality(Items)
  BY PagingAssumption, FS_Subset
<1>2. Ahead(i) \subseteq here
  BY DEF Ahead
<1>3. /\ IsFiniteSet(Ahead(i)) /\ Cardinality(Ahead(i)) <= Cardinality(here)
      /\ Cardinality(here) = Cardinality(Ahead(i)) => here = Ahead(i)
  BY <1>1, <1>2, FS_Subset
<1>4. Cardinality(Ahead(i)) \in Nat /\ Cardinality(here) \in Nat
  BY <1>1, <1>3, FS_CardinalityType
<1>5. i \in here => i \notin Ahead(i)
  BY PartialOrder DEF Ahead
<1> QED BY <1>1, <1>3, <1>4, <1>5, SMT

\* A walk begins before the first page.
LEMMA InitInv == Init => IInv
<1> SUFFICES ASSUME Init PROVE IInv
  OBVIOUS
<1>1. PICK f \in [here -> Ranks] : rank = [i \in Items |-> IF i \in here THEN f[i] ELSE 0]
  BY Zenon DEF Init
<1>2. /\ kind \in Kinds /\ here \subseteq Items /\ changes = 0 /\ moved = {} /\ loose = {}
      /\ uncounted \subseteq here
  BY SMT DEF Init
<1>15. short \in BOOLEAN
  BY Zenon DEF Init
<1>14. pinned \subseteq here /\ (kind # "rooms" => pinned = {})
  <2>1. pinned \in IF Query.pins THEN SUBSET here ELSE {{}}
    BY Zenon DEF Init
  <2> QED BY <1>2, <2>1, QueryPins
<1>3. PICK limit \in 1..MaxLimit, byCursor \in BOOLEAN :
        /\ byCursor => kind = "history"
        /\ walk = [pc |-> "fetch", byCursor |-> byCursor, page |-> 1, limit |-> limit,
                   last |-> NoItem, got |-> {}, full |-> FALSE]
  BY Zenon DEF Init
<1>4. \A i \in here : rank[i] \in Ranks
  BY <1>1, <1>2, SMT
<1>5. \A i \in Items \ here : rank[i] = 0
  BY <1>1, SMT
<1>6. Ranks \subseteq Int /\ 0 \notin Ranks /\ 1 \in 1..Word - 1
  <2> DEFINE C == Cardinality(Items)
  <2>1. C \in Nat
    BY PagingAssumption, FS_CardinalityType
  <2>2. /\ Word \in Nat /\ MaxLimit \in Nat \ {0} /\ Word > (C + 1) * MaxLimit
    BY PagingAssumption
  <2> HIDE DEF C
  <2>3. (C + 1) * 1 <= (C + 1) * MaxLimit
    BY <2>1, <2>2, Products, SMT
  <2>4. Word > 1
    BY <2>1, <2>2, <2>3, SMT
  <2> QED BY <2>4, PagingAssumption, SMT
<1>7. rank \in [Items -> Int]
  <2>1. ASSUME NEW i \in Items PROVE rank[i] \in Int
    <3>1. CASE i \in here
      BY <1>4, <1>6, <3>1
    <3>2. CASE i \notin here
      <4>1. rank[i] = 0
        BY <1>5, <3>2
      <4> QED BY <4>1, SMT
    <3> QED BY <3>1, <3>2
  <2>2. rank = [i \in Items |-> rank[i]]
    BY <1>1, Zenon
  <2> QED BY <2>1, <2>2, Zenon
<1>8. /\ walk \in Walk /\ walk.pc = "fetch" /\ walk.page = 1 /\ walk.last = NoItem
      /\ walk.got = {} /\ walk.limit = limit /\ (walk.byCursor => kind = "history")
  <2>1. 1 \in 1..Word - 1
    BY <1>6
  <2> QED BY <1>3, <2>1, SMT DEF Walk
<1>9. TypeOK
  <2>1. 0 \in 0..MaxChanges
    BY PagingAssumption, SMT
  <2>2. walk.page \in 1..Cardinality(Items) \cup {1} /\ pinned \subseteq Items
    BY <1>2, <1>8, <1>14
  <2> QED BY <1>2, <1>7, <1>8, <1>15, <2>1, <2>2 DEF TypeOK
<1>10. ListShape
  <2>1. \A i \in here \cup moved : rank[i] # 0
    BY <1>2, <1>4, <1>6
  <2> QED BY <1>5, <1>8, <1>14, <2>1, Zenon DEF ListShape
<1>12. CursorShape
  BY <1>2, <1>8, Zenon DEF CursorShape, Before
<1>13. OffsetShape
  <2> SUFFICES ASSUME NEW i \in here PROVE Cardinality(Ahead(i)) >= Reached
    BY <1>8 DEF OffsetShape
  <2>1. Cardinality(Ahead(i)) \in Nat
    BY <1>2, <1>7, AheadCounts
  <2>2. walk.limit \in Int
    BY <1>8, SMT
  <2>3. Reached = (1 - 1) * walk.limit
    BY <1>8, Zenon DEF Reached
  <2>4. Reached = 0
    BY <2>2, <2>3, SMT
  <2> QED BY <2>1, <2>4, SMT
<1> QED BY <1>9, <1>10, <1>12, <1>13 DEF IInv

\* A change of the list of one row.
Change(i) == Enter(i) \/ Return(i) \/ Leave(i) \/ PinRoom(i) \/ Rename(i)

\* What a change does: the walk stays, and every other row is where it was.
Changed(i) ==
  /\ kind' = kind /\ walk' = walk /\ moved' = moved \cup {i} /\ walk.pc # "done"
  /\ changes < MaxChanges /\ changes' = changes + 1 /\ short' = short
  /\ here' \subseteq here \cup {i} /\ here \subseteq here' \cup {i}
  /\ loose' = loose \cup {j \in here : /\ i \in Ahead(j) /\ Cardinality(Ahead(i)) < Reached
                                       /\ ~(i \in here' /\ Precedes(i, j)')}
  /\ pinned' \subseteq pinned \cup {i} /\ pinned \subseteq pinned' \cup {i}
  /\ kind # "rooms" => pinned' = pinned
  /\ uncounted' \subseteq here' /\ rank' \in [Items -> Int]
  /\ \A j \in Items : j # i => rank'[j] = rank[j]
  /\ rank'[i] # 0
  /\ kind = "history" => \A j \in here \cup moved : rank'[j] = rank[j]

\* So it is of every change.
LEMMA ChangeIs ==
  ASSUME IInv, NEW i \in Items, Change(i)
  PROVE  Changed(i)
<1>1. /\ kind' = kind /\ walk' = walk /\ moved' = moved \cup {i} /\ walk.pc # "done"
      /\ changes < MaxChanges /\ changes' = changes + 1 /\ short' = short
      /\ loose' = loose \cup {j \in here : /\ i \in Ahead(j) /\ Cardinality(Ahead(i)) < Reached
                                           /\ ~(i \in here' /\ Precedes(i, j)')}
  BY Zenon DEF Change, Enter, Return, Leave, PinRoom, Rename, Changes
<1>2. /\ kind \in Kinds /\ here \subseteq Items /\ uncounted \subseteq here
      /\ rank \in [Items -> Int]
  BY DEF IInv, TypeOK
<1>3. \A j \in here \cup moved : rank[j] # 0
  BY DEF IInv, ListShape
<1>4. /\ here' \subseteq here \cup {i} /\ here \subseteq here' \cup {i}
      /\ uncounted' \subseteq here'
  <2>1. CASE Enter(i)
    <3>1. uncounted' = uncounted \/ uncounted' = uncounted \cup {i}
      BY <2>1 DEF Enter, Counted
    <3> QED BY <1>2, <2>1, <3>1 DEF Enter
  <2>2. CASE Return(i)
    <3>1. uncounted' = uncounted \/ uncounted' = uncounted \cup {i}
      BY <2>2 DEF Return, Counted
    <3> QED BY <1>2, <2>2, <3>1 DEF Return
  <2>3. CASE Leave(i)
    BY <1>2, <2>3 DEF Leave
  <2>4. CASE PinRoom(i)
    BY <1>2, <2>4 DEF PinRoom
  <2>5. CASE Rename(i)
    BY <1>2, <2>5 DEF Rename
  <2> QED BY <2>1, <2>2, <2>3, <2>4, <2>5, Zenon DEF Change
<1>5. /\ pinned' \subseteq pinned \cup {i} /\ pinned \subseteq pinned' \cup {i}
      /\ kind # "rooms" => pinned' = pinned
  <2>1. CASE Enter(i)
    <3>1. pinned' \in IF Query.pins THEN {pinned, pinned \cup {i}} ELSE {pinned}
      BY <2>1, Zenon DEF Enter
    <3> QED BY <1>2, <3>1, QueryPins
  <2>2. CASE PinRoom(i)
    <3>1. Query.pins /\ pinned' = IF i \in pinned THEN pinned \ {i} ELSE pinned \cup {i}
      BY <2>2, Zenon DEF PinRoom
    <3> QED BY <1>2, <3>1, QueryPins
  <2>3. CASE Return(i) \/ Leave(i) \/ Rename(i)
    BY <2>3 DEF Return, Leave, Rename
  <2> QED BY <2>1, <2>2, <2>3, Zenon DEF Change
<1>6. /\ rank' \in [Items -> Int] /\ \A j \in Items : j # i => rank'[j] = rank[j]
      /\ rank'[i] # 0
      /\ kind = "history" => \A j \in here \cup moved : rank'[j] = rank[j]
  <2>1. CASE Enter(i) \/ Rename(i)
    <3>1. PICK n \in Ranks : rank' = [rank EXCEPT ![i] = n]
      BY <2>1, Zenon DEF Enter, Rename
    <3>2. n \in Int /\ n # 0
      BY PagingAssumption, SMT
    <3>3. /\ rank' \in [Items -> Int] /\ \A j \in Items : j # i => rank'[j] = rank[j]
          /\ rank'[i] # 0
      BY <1>2, <3>1, <3>2, SMT
    <3>4. kind = "history" => i \notin here \cup moved
      <4>1. kind = "history" => ~Rename(i)
        BY <1>2, QueryPins, Zenon DEF Rename
      <4> QED BY <2>1, <4>1, Zenon DEF Enter
    <3>5. moved \subseteq Items
      BY DEF IInv, TypeOK
    <3> QED BY <1>2, <3>3, <3>4, <3>5
  <2>2. CASE Return(i) \/ Leave(i) \/ PinRoom(i)
    <3>1. rank' = rank
      BY <2>2, Zenon DEF Return, Leave, PinRoom
    <3>2. rank[i] # 0
      BY <1>3, <2>2 DEF Return, Leave, PinRoom
    <3> QED BY <1>2, <3>1, <3>2
  <2> QED BY <2>1, <2>2, Zenon DEF Change
<1> QED BY <1>1, <1>4, <1>5, <1>6, Zenon DEF Changed

\* A change of the list leaves the other rows in their order.
LEMMA ChangeKeeps ==
  ASSUME IInv, NEW i \in Items, Change(i)
  PROVE  IInv'
<1>0. Changed(i)
  BY ChangeIs
<1>1. /\ kind' = kind /\ walk' = walk /\ moved' = moved \cup {i} /\ walk.pc # "done"
      /\ here' \subseteq here \cup {i} /\ here \subseteq here' \cup {i}
      /\ pinned' \subseteq pinned \cup {i} /\ pinned \subseteq pinned' \cup {i}
      /\ kind # "rooms" => pinned' = pinned
  BY <1>0, Zenon DEF Changed
<1>2. /\ changes < MaxChanges /\ changes' = changes + 1 /\ short' = short
      /\ uncounted' \subseteq here' /\ rank' \in [Items -> Int]
      /\ \A j \in Items : j # i => rank'[j] = rank[j]
      /\ rank'[i] # 0
      /\ kind = "history" => \A j \in here \cup moved : rank'[j] = rank[j]
  BY <1>0, Zenon DEF Changed
<1>3. loose' = loose \cup {j \in here : /\ i \in Ahead(j) /\ Cardinality(Ahead(i)) < Reached
                                        /\ ~(i \in here' /\ Precedes(i, j)')}
  BY <1>0, Zenon DEF Changed
<1>4. /\ kind \in Kinds /\ here \subseteq Items /\ rank \in [Items -> Int]
      /\ pinned \subseteq Items /\ changes \in 0..MaxChanges
      /\ moved \subseteq Items /\ loose \subseteq Items /\ walk \in Walk
      /\ walk.page \in 1..Cardinality(Items) \cup {1}
  BY DEF IInv, TypeOK
<1>17. short \in BOOLEAN
  BY DEF IInv, TypeOK
<1>5. TypeOK'
  <2>1. changes' \in 0..MaxChanges
    BY <1>2, <1>4, PagingAssumption, SMT
  <2>2. here' \subseteq Items /\ pinned' \subseteq Items /\ moved' \subseteq Items
        /\ loose' \subseteq Items
    BY <1>1, <1>3, <1>4
  <2>3. short' \in BOOLEAN
    BY <1>2, <1>17, Zenon
  <2> QED BY <1>1, <1>2, <1>4, <2>1, <2>2, <2>3, Zenon DEF TypeOK
<1>6. ListShape'
  <2>1. /\ \A j \in here \cup moved : rank[j] # 0
        /\ \A j \in Items \ (here \cup moved) : rank[j] = 0
        /\ walk.last # NoItem => walk.last \in here \cup moved
        /\ walk.byCursor => kind = "history" /\ walk.page = 1
        /\ kind # "rooms" => pinned = {}
    BY Zenon DEF IInv, ListShape
  <2>2. ASSUME NEW j \in here' \cup moved' PROVE rank'[j] # 0
    <3>1. CASE j = i
      BY <1>2, <3>1
    <3>2. CASE j # i
      BY <1>1, <1>2, <1>4, <2>1, <3>2
    <3> QED BY <3>1, <3>2
  <2>3. ASSUME NEW j \in Items \ (here' \cup moved') PROVE rank'[j] = 0
    BY <1>1, <1>2, <2>1
  <2>4. walk'.last # NoItem => walk'.last \in here' \cup moved'
    BY <1>1, <2>1
  <2>5. walk'.byCursor => kind' = "history" /\ walk'.page = 1
    BY <1>1, <2>1, Zenon
  <2>6. kind' # "rooms" => pinned' = {}
    BY <1>1, <2>1
  <2> QED BY <2>2, <2>3, <2>4, <2>5, <2>6, Zenon DEF ListShape
<1>9. CursorShape'
  <2> SUFFICES ASSUME walk.byCursor, NEW j \in here' \ moved'
               PROVE  \/ j \in walk.got \/ Tied(j)'
                      \/ j \in Before' /\ (walk.pc = "fetch" \/ (walk.pc = "count" /\ walk.full))
    BY <1>1, Zenon DEF CursorShape
  <2>1. j \in here \ moved /\ j # i /\ j \in Items
    BY <1>1, <1>4
  <2>2. \/ j \in walk.got \/ Tied(j)
        \/ j \in Before /\ (walk.pc = "fetch" \/ (walk.pc = "count" /\ walk.full))
    BY <2>1, Zenon DEF IInv, CursorShape
  <2>3. \A k \in here \cup moved : rank'[k] = rank[k]
    <3>1. kind = "history"
      BY Zenon DEF IInv, ListShape
    <3> QED BY <1>2, <3>1
  <2>4. rank'[j] = rank[j] /\ rank[j] # 0
    BY <2>1, <2>3, Zenon DEF IInv, ListShape
  <2>5. CASE Tied(j)
    <3>1. PICK k \in Items \ {j} : rank[k] = rank[j]
      BY <2>5 DEF Tied
    <3>2. k \in here \cup moved
      BY <2>4, <3>1, Zenon DEF IInv, ListShape
    <3>3. rank'[k] = rank'[j]
      BY <2>3, <2>4, <3>1, <3>2
    <3> QED BY <3>1, <3>3 DEF Tied
  <2>6. CASE j \in Before
    <3>1. walk.last = NoItem \/ rank[j] > rank[walk.last]
      BY <2>6 DEF Before
    <3>2. walk.last # NoItem => rank'[walk.last] = rank[walk.last]
      BY <2>3 DEF IInv, ListShape
    <3>3. walk.last = NoItem \/ rank'[j] > rank'[walk.last]
      BY <2>4, <3>1, <3>2
    <3>4. j \in Before'
      BY <1>1, <3>3 DEF Before
    <3> QED BY <2>2, <2>5, <3>4
  <2> QED BY <2>2, <2>5, <2>6
<1>10. OffsetShape'
  <2> SUFFICES ASSUME ~walk.byCursor, NEW j \in here' \ (moved' \cup loose'), j \notin walk.got
               PROVE  Cardinality(Ahead(j)') >= Reached
    <3>1. Reached' = Reached
      BY <1>1 DEF Reached
    <3> QED BY <1>1, <3>1, Zenon DEF OffsetShape
  <2>1. j \in here \ (moved \cup loose) /\ j # i /\ j \in Items
    BY <1>1, <1>3, <1>4
  <2>2. Cardinality(Ahead(j)) >= Reached /\ Reached \in Nat
    <3>1. Cardinality(Ahead(j)) >= Reached
      BY <1>1, <2>1, Zenon DEF IInv, OffsetShape
    <3> QED BY <3>1, Numbers DEF IInv
  <2>3. \A k \in Items \ {i} : Precedes(k, j) => Precedes(k, j)'
    <3> SUFFICES ASSUME NEW k \in Items \ {i}, Precedes(k, j) PROVE Precedes(k, j)'
      OBVIOUS
    <3>1. rank'[k] = rank[k] /\ rank'[j] = rank[j]
      BY <1>2, <2>1
    <3>2. (k \in pinned <=> k \in pinned') /\ (j \in pinned <=> j \in pinned')
      BY <1>1, <2>1
    <3> QED BY <3>1, <3>2 DEF Precedes
  <2>4. Ahead(j) \ {i} \subseteq Ahead(j)'
    BY <1>1, <1>4, <2>3 DEF Ahead
  <2>5. IsFiniteSet(Ahead(j)')
    <3>1. here' \subseteq Items /\ Ahead(j)' \subseteq here'
      BY <1>5 DEF TypeOK, Ahead
    <3>2. Ahead(j)' \subseteq Items
      BY <3>1
    <3> QED BY <3>2, PagingAssumption, FS_Subset
  <2>6. CASE i \notin Ahead(j) \/ i \in Ahead(j)'
    <3>1. Ahead(j) \subseteq Ahead(j)'
      BY <2>4, <2>6
    <3>2. Cardinality(Ahead(j)) <= Cardinality(Ahead(j)') /\ Cardinality(Ahead(j)) \in Nat
          /\ Cardinality(Ahead(j)') \in Nat
      BY <2>5, <3>1, AheadGrows
    <3> QED BY <2>2, <3>2, SMT
  <2>7. CASE i \in Ahead(j) /\ i \notin Ahead(j)'
    <3>1. ~(i \in here' /\ Precedes(i, j)')
      BY <2>7 DEF Ahead
    <3>2. ~(Cardinality(Ahead(i)) < Reached)
      BY <1>3, <2>1, <2>7, <3>1
    <3>3. Ahead(i) \subseteq Ahead(j)'
      <4> SUFFICES ASSUME NEW k \in here, Precedes(k, i) PROVE k \in Ahead(j) \ {i}
        BY <2>4 DEF Ahead
      <4>1. Precedes(i, j) /\ k \in Items
        BY <1>4, <2>7 DEF Ahead
      <4>2. Precedes(k, j) /\ k # i
        BY <1>4, <2>1, <4>1, PartialOrder
      <4> QED BY <4>2 DEF Ahead
    <3>4. Cardinality(Ahead(i)) <= Cardinality(Ahead(j)') /\ Cardinality(Ahead(i)) \in Nat
          /\ Cardinality(Ahead(j)') \in Nat
      BY <2>5, <3>3, AheadGrows
    <3> QED BY <2>2, <3>2, <3>4, SMT
  <2> QED BY <2>6, <2>7
<1> QED BY <1>5, <1>6, <1>9, <1>10 DEF IInv

\* A message that becomes counted stays where it is.
LEMMA CountMessageKeeps ==
  ASSUME IInv, NEW i \in Items, CountMessage(i)
  PROVE  IInv'
<1>1. /\ uncounted' = uncounted \ {i} /\ kind' = kind /\ here' = here /\ rank' = rank
      /\ pinned' = pinned /\ changes' = changes /\ walk' = walk /\ moved' = moved
      /\ loose' = loose /\ short' = short
  BY Zenon DEF CountMessage
<1>2. TypeOK'
  <2>1. uncounted' \subseteq here
    BY <1>1 DEF IInv, TypeOK
  <2> QED BY <1>1, <2>1, Zenon DEF IInv, TypeOK
<1>3. ListShape' /\ CursorShape'
  BY <1>1 DEF IInv, ListShape, CursorShape, Before, Tied
<1>4. OffsetShape'
  <2>1. Reached' = Reached /\ \A j : Ahead(j)' = Ahead(j)
    BY <1>1 DEF Reached, Ahead, Precedes
  <2> QED BY <1>1, <2>1 DEF IInv, OffsetShape
<1> QED BY <1>2, <1>3, <1>4 DEF IInv
------------------------------------------------------------------------------
\* What the client has with a page in hand: the page is a part of what the query
\* returned, and its last row the next cursor.
PageRead(s, S, v) ==
  LET start == (walk.page - 1) * walk.limit IN
  /\ v \in Walk /\ v.pc = "count" /\ v.byCursor = walk.byCursor
  /\ v.page = walk.page /\ v.limit = walk.limit
  /\ walk.got \subseteq v.got
  /\ v.last = walk.last \/ v.last \in S
  /\ \A n \in 1..Len(s) : start < n /\ n <= start + walk.limit => s[n] \in v.got
  /\ start + walk.limit <= Len(s) => v.full /\ v.last = s[start + walk.limit]

\* So it is after Fetch.
LEMMA PageInHand ==
  ASSUME IInv, NEW S \in SUBSET here, NEW s \in Orders(S), NEW w,
         w = Window(s, walk.page, walk.limit)
  PROVE  PageRead(s, S, WithPage(walk, walk.got \cup ToSet(w),
                                 IF w = <<>> THEN walk.last ELSE w[Len(w)],
                                 Len(w) = walk.limit))
<1> DEFINE start == (walk.page - 1) * walk.limit
           G == walk.got \cup ToSet(w)
           L == IF w = <<>> THEN walk.last ELSE w[Len(w)]
           F == Len(w) = walk.limit
           v == WithPage(walk, G, L, F)
<1>1. /\ walk \in Walk /\ here \subseteq Items
      /\ walk.got \subseteq Items /\ walk.last \in Items \cup {NoItem}
  BY SMT DEF IInv, TypeOK, Walk
<1>2. /\ start \in Nat /\ start = Offset(walk.page, walk.limit) /\ walk.limit \in Nat \ {0}
  BY Numbers DEF IInv
<1>3. IsFiniteSet(S)
  BY <1>1, PagingAssumption, FS_Subset
<1>4. Ordered(s, S)
  BY <1>3, OrderOf, Zenon
<1>5. s \in Seq(S) /\ Len(s) \in Nat /\ \A n \in 1..Len(s) : s[n] \in S
  BY <1>4, Zenon DEF Ordered
<1> HIDE DEF start
<1>6. /\ w \in Seq(S)
      /\ Len(w) = IF start > Len(s) THEN 0
                  ELSE IF start + walk.limit > Len(s) THEN Len(s) - start ELSE walk.limit
      /\ \A n \in 1..Len(s) : start < n /\ n <= start + walk.limit =>
           n - start \in 1..Len(w) /\ w[n - start] = s[n]
  <2>1. w \in Seq(S) /\ Cut(w, s, start, walk.limit)
    BY <1>2, <1>5, WindowRows
  <2> QED BY <2>1, Zenon DEF Cut
<1>7. /\ Len(w) \in Nat /\ \A k \in 1..Len(w) : w[k] \in S
      /\ w # <<>> => Len(w) \in 1..Len(w)
  BY <1>6, SMT
<1>8. (\A k \in 1..Len(w) : w[k] \in ToSet(w)) /\ ToSet(w) \subseteq S
  <2>1. DOMAIN w = 1..Len(w)
    BY <1>6, SMT
  <2> QED BY <1>7, <2>1, Zenon DEF ToSet
<1>10. G \in SUBSET Items /\ L \in Items \cup {NoItem} /\ F \in BOOLEAN
  <2>1. G \in SUBSET Items
    BY <1>1, <1>8
  <2>2. L \in Items \cup {NoItem}
    BY <1>1, <1>7
  <2> QED BY <2>1, <2>2
<1>11. L = walk.last \/ L \in S
  BY <1>7
<1>12. ASSUME start + walk.limit <= Len(s) PROVE F /\ L = s[start + walk.limit]
  <2>1. ~(start > Len(s)) /\ ~(start + walk.limit > Len(s))
    BY <1>2, <1>5, <1>12, SMT
  <2>2. Len(w) = walk.limit
    BY <1>6, <2>1
  <2>3. w # <<>>
    BY <1>2, <2>2, SMT
  <2>4. /\ start + walk.limit \in 1..Len(s) /\ start < start + walk.limit
        /\ start + walk.limit <= start + walk.limit
        /\ (start + walk.limit) - start = walk.limit
    BY <1>2, <1>5, <1>12, SMT
  <2>5. w[walk.limit] = s[start + walk.limit]
    BY <1>6, <2>4
  <2> QED BY <2>2, <2>3, <2>5
<1>13. /\ v \in Walk /\ v.pc = "count" /\ v.got = G /\ v.last = L /\ v.full = F
       /\ v.byCursor = walk.byCursor /\ v.page = walk.page /\ v.limit = walk.limit
  <2> HIDE DEF G, L, F
  <2> QED BY <1>1, <1>10, WalkFetched
<1> HIDE DEF v
<1>14. \A n \in 1..Len(s) : start < n /\ n <= start + walk.limit => s[n] \in v.got
  <2> SUFFICES ASSUME NEW n \in 1..Len(s), start < n /\ n <= start + walk.limit
               PROVE  s[n] \in v.got
    OBVIOUS
  <2>1. w[n - start] = s[n] /\ n - start \in 1..Len(w)
    BY <1>6
  <2>2. s[n] \in ToSet(w)
    BY <1>8, <2>1
  <2> QED BY <1>13, <2>2
<1>15. walk.got \subseteq v.got
  BY <1>13
<1> HIDE DEF G, L, F
<1>16. PageRead(s, S, v)
  BY <1>11, <1>12, <1>13, <1>14, <1>15, Zenon DEF PageRead, start
<1> QED BY <1>16 DEF v, G, L, F

\* A page leaves out what is behind it.
LEMMA FetchKeeps ==
  ASSUME IInv, Fetch
  PROVE  IInv'
<1> DEFINE start == (walk.page - 1) * walk.limit
           S == IF walk.byCursor THEN Before ELSE here
<1>1. /\ walk.pc = "fetch" /\ kind' = kind /\ here' = here /\ rank' = rank
      /\ pinned' = pinned /\ uncounted' = uncounted /\ changes' = changes
      /\ moved' = moved /\ loose' = loose \cup Equals /\ short' = short
  BY Zenon DEF Fetch
<1>2. /\ here \subseteq Items /\ rank \in [Items -> Int] /\ loose \subseteq Items
  BY DEF IInv, TypeOK
<1>3. S \in SUBSET here
  BY DEF Before
<1>4. PICK s \in Orders(S) : LET w == Window(s, walk.page, walk.limit) IN
         walk' = WithPage(walk, walk.got \cup ToSet(w),
                          IF w = <<>> THEN walk.last ELSE w[Len(w)], Len(w) = walk.limit)
  BY DEF Fetch, WithPage
<1> HIDE DEF S
<1>0. PageRead(s, S, walk')
  BY <1>3, <1>4, PageInHand
<1>5. /\ walk' \in Walk /\ walk'.pc = "count" /\ walk'.byCursor = walk.byCursor
      /\ walk'.page = walk.page /\ walk'.limit = walk.limit
      /\ walk.got \subseteq walk'.got
      /\ walk'.last = walk.last \/ walk'.last \in S
      /\ \A n \in 1..Len(s) : start < n /\ n <= start + walk.limit => s[n] \in walk'.got
      /\ start + walk.limit <= Len(s) => walk'.full /\ walk'.last = s[start + walk.limit]
  BY <1>0, Zenon DEF PageRead, start
<1>6. /\ start \in Nat /\ walk.page \in Nat \ {0} /\ walk.limit \in Nat \ {0}
      /\ walk.page * walk.limit = start + walk.limit
  BY Numbers DEF IInv
<1> HIDE DEF start
<1>7. IsFiniteSet(S)
  BY <1>2, <1>3, PagingAssumption, FS_Subset
<1>8. Ordered(s, S)
  BY <1>7, OrderOf, Zenon
<1>9. /\ Len(s) \in Nat
      /\ \A n \in 1..Len(s) : s[n] \in S
      /\ \A n, m \in 1..Len(s) : n # m => s[n] # s[m]
      /\ \A n, m \in 1..Len(s) : n < m => ~Precedes(s[m], s[n])
      /\ \A x \in S : \E n \in 1..Len(s) : s[n] = x
  BY <1>8, Zenon DEF Ordered
<1>10. TypeOK'
  <2>1. /\ kind \in Kinds /\ uncounted \subseteq here /\ changes \in 0..MaxChanges
        /\ moved \subseteq Items /\ pinned \subseteq Items
        /\ walk.page \in 1..Cardinality(Items) \cup {1}
    BY DEF IInv, TypeOK
  <2>2. loose' \subseteq Items
    BY <1>1, <1>2 DEF Equals
  <2>3. short \in BOOLEAN
    BY DEF IInv, TypeOK
  <2> QED BY <1>1, <1>2, <1>5, <2>1, <2>2, <2>3, Zenon DEF TypeOK
<1>11. ListShape'
  <2>1. walk'.last # NoItem => walk'.last \in here \cup moved
    BY <1>3, <1>5 DEF IInv, ListShape
  <2>2. walk'.byCursor => kind = "history" /\ walk'.page = 1
    BY <1>5, Zenon DEF IInv, ListShape
  <2> QED BY <1>1, <2>1, <2>2, Zenon DEF IInv, ListShape
<1>13. CursorShape'
  <2> SUFFICES ASSUME walk.byCursor, NEW i \in here \ moved, i \notin walk'.got, ~Tied(i)
               PROVE  i \in Before' /\ walk'.full
    BY <1>1, <1>5, Zenon DEF CursorShape, Tied
  <2>1. i \notin walk.got
    BY <1>5
  <2>2. i \in Before /\ S = Before
    BY <2>1, Zenon DEF IInv, CursorShape, S
  <2>3. start = 0
    <3>1. walk.page = 1
      BY Zenon DEF IInv, ListShape
    <3>2. walk.limit \in Int
      BY <1>6
    <3> QED BY <3>1, <3>2, SMT DEF start
  <2>4. PICK n \in 1..Len(s) : s[n] = i
    BY <1>9, <2>2
  <2>5. walk.limit < n
    <3>1. ~(start < n /\ n <= start + walk.limit)
      BY <1>5, <2>4
    <3> QED BY <1>6, <1>9, <2>3, <3>1, SMT
  <2>6. walk.limit \in 1..Len(s) /\ start + walk.limit = walk.limit
    <3>1. Len(s) \in Nat /\ start = 0 /\ walk.limit \in Nat \ {0}
      BY <1>6, <1>9, <2>3
    <3>2. n \in 1..Len(s) /\ walk.limit < n
      BY <2>5
    <3> QED BY <3>1, <3>2, SMT
  <2>7. start + walk.limit <= Len(s)
    BY <1>9, <2>6, SMT
  <2>8. walk'.full /\ walk'.last = s[walk.limit]
    BY <1>5, <2>6, <2>7
  <2>9. /\ s[walk.limit] \in here /\ s[walk.limit] # i
        /\ ~(rank[i] < rank[s[walk.limit]])
    <3>1. s[walk.limit] \in S /\ walk.limit # n
      BY <1>9, <2>5, <2>6, SMT
    <3>2. ~Precedes(i, s[walk.limit])
      BY <1>9, <2>4, <2>5, <2>6
    <3>3. pinned = {}
      BY DEF IInv, ListShape
    <3>4. ~(rank[i] < rank[s[walk.limit]])
      BY <3>2, <3>3 DEF Precedes
    <3> QED BY <1>3, <1>9, <2>4, <2>5, <2>6, <3>1, <3>4
  <2>10. rank[i] > rank[walk'.last]
    <3>1. rank[s[walk.limit]] # rank[i]
      BY <1>2, <2>9 DEF Tied
    <3>2. rank[s[walk.limit]] \in Int /\ rank[i] \in Int
      BY <1>2, <2>9
    <3> QED BY <2>8, <2>9, <3>1, <3>2, SMT
  <2> QED BY <1>1, <2>8, <2>10 DEF Before
<1>14. OffsetShape'
  <2> SUFFICES ASSUME ~walk.byCursor, NEW i \in here \ (moved \cup loose'), i \notin walk'.got
               PROVE  Cardinality(Ahead(i)) >= walk.page * walk.limit
    <3>1. \A i : Ahead(i)' = Ahead(i)
      BY <1>1 DEF Ahead, Precedes
    <3>2. Reached' = walk.page * walk.limit
      BY <1>5 DEF Reached
    <3> QED BY <1>1, <1>5, <3>1, <3>2 DEF OffsetShape
  <2>1. i \notin walk.got /\ i \notin loose /\ i \notin Equals
    BY <1>1, <1>5
  <2>2. Cardinality(Ahead(i)) >= start
    <3>1. Reached = start
      BY <1>1 DEF Reached, start
    <3> QED BY <1>1, <2>1, <3>1 DEF IInv, OffsetShape
  <2>3. S = here
    BY DEF S
  <2>4. PICK n \in 1..Len(s) : s[n] = i
    BY <1>9, <2>3
  <2>5. s[n] \notin Equals
    BY <2>1, <2>4
  <2>6. Cardinality(Ahead(i)) = n - 1
    BY <1>2, <2>3, <2>4, <2>5, PlaceOf
  <2>7. ~(start < n /\ n <= start + walk.limit)
    BY <1>5, <2>4
  <2> QED BY <1>6, <1>9, <2>2, <2>6, <2>7, SMT
<1> QED BY <1>10, <1>11, <1>13, <1>14 DEF IInv
------------------------------------------------------------------------------
\* The number of pages is the least that has room for the rows.
LEMMA PagesHold ==
  ASSUME NEW total \in Nat, NEW limit \in Nat \ {0}
  PROVE  /\ TotalPages(total, limit) \in Nat /\ TotalPages(total, limit) <= total
         /\ \A page \in Nat : ~(page < TotalPages(total, limit)) => total <= page * limit
<1> DEFINE q == (total + limit - 1) \div limit
           x == total + limit - 1
<1>1. x \in Nat /\ limit \in Nat /\ limit > 0
  BY SMT
<1>2. q \in Nat /\ q * limit <= x /\ x < q * limit + limit
  <2> HIDE DEF x
  <2>1. x \div limit \in Nat /\ (x \div limit) * limit <= x
        /\ x < (x \div limit) * limit + limit
    BY <1>1, SMT
  <2> QED BY <2>1 DEF x
<1> HIDE DEF q
<1>3. q <= total
  <2> SUFFICES ASSUME total + 1 <= q PROVE FALSE
    BY <1>2, SMT
  <2>1. (total + 1) * limit <= q * limit
    BY <1>1, <1>2, Products
  <2>2. (total + 1) * limit = total * limit + limit
    BY <1>1, SMT
  <2>3. total * 1 <= total * limit /\ total * limit \in Nat
    BY <1>1, Products, SMT
  <2>4. q * limit \in Int
    BY <1>1, <1>2, SMT
  <2> QED BY <1>1, <1>2, <2>1, <2>2, <2>3, <2>4, SMT
<1>4. ASSUME NEW page \in Nat, ~(page < q) PROVE total <= page * limit
  <2>1. q * limit <= page * limit /\ q * limit \in Nat /\ page * limit \in Nat
    BY <1>1, <1>2, <1>4, Products, SMT
  <2> QED BY <1>1, <1>2, <2>1, SMT
<1> QED BY <1>2, <1>3, <1>4 DEF TotalPages, q

\* The client stops when there is no page that it has not read, and nothing behind it.
LEMMA CountKeeps ==
  ASSUME IInv, Count
  PROVE  IInv'
<1> DEFINE total == Cardinality(IF Query.counted THEN here ELSE here \ uncounted)
           pages == TotalPages(total, walk.limit)
           more  == IF walk.byCursor THEN walk.full ELSE walk.page < pages
           next  == IF walk.byCursor THEN walk.page ELSE walk.page + 1
<1>1. /\ walk.pc = "count" /\ kind' = kind /\ here' = here /\ rank' = rank
      /\ pinned' = pinned /\ uncounted' = uncounted /\ changes' = changes
      /\ moved' = moved /\ loose' = loose
  BY Zenon DEF Count
<1>2. /\ here \subseteq Items /\ rank \in [Items -> Int] /\ uncounted \subseteq here
      /\ walk \in Walk /\ kind \in Kinds /\ changes \in 0..MaxChanges
      /\ moved \subseteq Items /\ loose \subseteq Items /\ pinned \subseteq Items
      /\ walk.page \in 1..Cardinality(Items) \cup {1}
  BY DEF IInv, TypeOK
<1>3. /\ walk.page \in Nat \ {0} /\ walk.limit \in Nat \ {0} /\ walk.page < Word
      /\ Cardinality(Items) \in Nat /\ Cardinality(Items) + 1 < Word
      /\ walk.page * walk.limit = (walk.page - 1) * walk.limit + walk.limit
  BY Numbers, Zenon DEF IInv
<1>4. /\ IsFiniteSet(here) /\ Cardinality(here) \in Nat
      /\ Cardinality(here) <= Cardinality(Items)
  BY <1>2, AheadCounts, Zenon
<1>5. /\ total \in Nat /\ total <= Cardinality(Items)
      /\ uncounted = {} => total = Cardinality(here)
  <2>1. /\ IsFiniteSet(here \ uncounted)
        /\ Cardinality(here \ uncounted) <= Cardinality(here)
    BY <1>4, FS_Subset
  <2>2. Cardinality(here \ uncounted) \in Nat
    BY <2>1, FS_CardinalityType
  <2>3. total = Cardinality(here) \/ total = Cardinality(here \ uncounted)
    OBVIOUS
  <2>4. uncounted = {} => here \ uncounted = here
    OBVIOUS
  <2>5. uncounted = {} => total = Cardinality(here)
    BY <2>4
  <2> HIDE DEF total
  <2> QED BY <1>3, <1>4, <2>1, <2>2, <2>3, <2>5, SMT
<1>6. /\ walk' = IF ~more THEN [walk EXCEPT !.pc = "done"]
                 ELSE [walk EXCEPT !.pc = "fetch", !.page = next]
  BY DEF Count
<1>15. short' = (~more /\ uncounted # {} /\ walk.page * walk.limit < Cardinality(here))
  BY Zenon DEF Count
<1> HIDE DEF total
<1>7. pages \in Nat /\ pages <= total /\ (~(walk.page < pages) => total <= walk.page * walk.limit)
  BY <1>3, <1>5, PagesHold
<1> HIDE DEF pages
<1>8. more => next \in 1..Word - 1 /\ (walk.byCursor \/ next <= Cardinality(Items))
  <2>1. CASE walk.byCursor
    BY <1>3, <2>1, PagingAssumption, SMT
  <2>2. CASE ~walk.byCursor
    BY <1>3, <1>5, <1>7, <2>2, PagingAssumption, SMT
  <2> QED BY <2>1, <2>2
<1>9. /\ walk' \in Walk /\ walk'.got = walk.got /\ walk'.last = walk.last
      /\ walk'.full = walk.full /\ walk'.byCursor = walk.byCursor /\ walk'.limit = walk.limit
      /\ more => walk'.pc = "fetch" /\ walk'.page = next
      /\ ~more => walk'.pc = "done" /\ walk'.page = walk.page
  <2>1. CASE more
    <3>1. walk' = Goes(walk, next) /\ next \in 1..Word - 1
      BY <1>6, <1>8, <2>1 DEF Goes
    <3> HIDE DEF next, more
    <3> QED BY <1>2, <2>1, <3>1, WalkCounted
  <2>2. CASE ~more
    <3>1. walk' = Stops(walk) /\ walk.page \in 1..Word - 1
      BY <1>2, <1>6, <2>2, SMT DEF Walk, Stops
    <3> HIDE DEF next, more
    <3> QED BY <1>2, <2>2, <3>1, WalkCounted
  <2> QED BY <2>1, <2>2
<1>10. TypeOK'
  <2>1. short' \in BOOLEAN
    BY <1>15, Zenon
  <2>2. walk'.page \in 1..Cardinality(Items) \cup {1}
    <3>1. CASE more
      <4>1. CASE walk.byCursor
        BY <1>2, <1>9, <3>1, <4>1
      <4>2. CASE ~walk.byCursor
        BY <1>3, <1>8, <1>9, <3>1, <4>2, SMT
      <4> QED BY <4>1, <4>2
    <3>2. CASE ~more
      BY <1>2, <1>9, <3>2
    <3> QED BY <3>1, <3>2
  <2> QED BY <1>1, <1>2, <1>9, <2>1, <2>2, Zenon DEF TypeOK
<1>11. ListShape'
  <2>1. walk.byCursor => walk'.page = walk.page
    BY <1>9
  <2> QED BY <1>1, <1>9, <2>1, Zenon DEF IInv, ListShape
<1>13. CursorShape'
  <2> SUFFICES ASSUME walk.byCursor, NEW i \in here \ moved, i \notin walk.got, ~Tied(i)
               PROVE  i \in Before /\ walk'.pc = "fetch"
    BY <1>1, <1>9, Zenon DEF CursorShape, Tied, Before
  <2>1. i \in Before /\ walk.full
    BY <1>1, Zenon DEF IInv, CursorShape
  <2> QED BY <1>9, <2>1
<1>14. OffsetShape'
  <2> SUFFICES ASSUME ~walk.byCursor, NEW i \in here \ (moved \cup loose), i \notin walk.got
               PROVE  \/ more /\ Cardinality(Ahead(i)) >= walk.page * walk.limit
                      \/ ~more /\ short'
    <3>1. \A i : Ahead(i)' = Ahead(i)
      BY <1>1 DEF Ahead, Precedes
    <3>2. more /\ ~walk.byCursor => Reached' = walk.page * walk.limit
      <4> SUFFICES ASSUME more, ~walk.byCursor PROVE Reached' = walk.page * walk.limit
        OBVIOUS
      <4>1. walk'.pc = "fetch" /\ walk'.page = walk.page + 1 /\ walk'.limit = walk.limit
        BY <1>9
      <4>2. Reached' = (walk'.page - 1) * walk'.limit
        BY <4>1 DEF Reached
      <4>3. walk'.page - 1 = walk.page
        BY <1>3, <4>1, SMT
      <4> QED BY <4>1, <4>2, <4>3
    <3>3. ASSUME ~walk.byCursor, NEW i \in here \ (moved \cup loose)
          PROVE  \/ i \in walk.got
                 \/ walk'.pc # "done" /\ Cardinality(Ahead(i)) >= Reached'
                 \/ walk'.pc = "done" /\ short'
      BY <1>9, <3>2, <3>3
    <3> QED BY <1>1, <1>9, <3>1, <3>3, Zenon DEF OffsetShape
  <2>1. Cardinality(Ahead(i)) >= walk.page * walk.limit
    <3>1. Reached = walk.page * walk.limit
      BY <1>1 DEF Reached
    <3> QED BY <1>1, <3>1 DEF IInv, OffsetShape
  <2>2. CASE more
    BY <2>1, <2>2
  <2>3. CASE ~more
    <3>1. total <= walk.page * walk.limit
      BY <1>7, <2>3
    <3>2. Cardinality(Ahead(i)) < Cardinality(here) /\ Cardinality(Ahead(i)) \in Nat
      BY <1>2, AheadCounts
    <3>3. walk.page * walk.limit \in Int
      BY <1>3, SMT
    <3>4. walk.page * walk.limit < Cardinality(here)
      BY <1>4, <2>1, <3>2, <3>3, SMT
    <3>5. uncounted # {}
      BY <1>4, <1>5, <3>1, <3>3, <3>4, SMT
    <3> QED BY <1>15, <2>3, <3>4, <3>5, Zenon
  <2> QED BY <2>2, <2>3
<1> QED BY <1>10, <1>11, <1>13, <1>14 DEF IInv

\* Every step keeps the invariant.
LEMMA StepKeeps == IInv /\ [Next]_vars => IInv'
<1> SUFFICES ASSUME IInv, [Next]_vars PROVE IInv'
  OBVIOUS
<1>1. CASE Fetch
  BY <1>1, FetchKeeps
<1>2. CASE Count
  BY <1>2, CountKeeps
<1>3. ASSUME NEW i \in Items, Change(i) PROVE IInv'
  BY <1>3, ChangeKeeps
<1>4. ASSUME NEW i \in Items, CountMessage(i) PROVE IInv'
  BY <1>4, CountMessageKeeps
<1>5. CASE UNCHANGED vars
  <2>1. /\ kind' = kind /\ here' = here /\ rank' = rank /\ pinned' = pinned
        /\ uncounted' = uncounted /\ changes' = changes /\ walk' = walk
        /\ moved' = moved /\ loose' = loose /\ short' = short
    BY <1>5, Zenon DEF vars
  <2>2. TypeOK' /\ ListShape' /\ CursorShape'
    BY <2>1 DEF IInv, TypeOK, ListShape, CursorShape, Before, Tied
  <2>3. Reached' = Reached /\ \A j : Ahead(j)' = Ahead(j)
    BY <2>1 DEF Reached, Ahead, Precedes
  <2>4. OffsetShape'
    BY <2>1, <2>3 DEF IInv, OffsetShape
  <2> QED BY <2>2, <2>4 DEF IInv
<1> QED BY <1>1, <1>2, <1>3, <1>4, <1>5, Zenon DEF Next, Change

\* The invariant of a walk.
THEOREM Invariance == Spec => []IInv
BY InitInv, StepKeeps, PTL DEF Spec

\* The walk stays within the list and the numbers of pages there are.
THEOREM TypeCorrect == Spec => []TypeOK
<1>1. IInv => TypeOK
  BY DEF IInv
<1> QED BY <1>1, Invariance, PTL

\* The pages up to TotalPages hold every row that nothing moved.
THEOREM SkipsNothing == Spec => []NothingSkipped
<1>1. IInv => NothingSkipped
  <2> SUFFICES ASSUME IInv, ~walk.byCursor, ~short, NEW i \in Missed
               PROVE  i \in moved \cup loose
    BY Zenon DEF NothingSkipped
  <2>1. walk.pc = "done" /\ i \in here /\ i \notin walk.got
    BY DEF Missed
  <2> QED BY <2>1, Zenon DEF IInv, OffsetShape
<1> QED BY <1>1, Invariance, PTL

\* The pages of a history read by before_message_id hold every message but those of the
\* same created_at.
THEOREM CursorComplete == Spec => []CursorHasNoHoles
<1>1. IInv => CursorHasNoHoles
  <2> SUFFICES ASSUME IInv, walk.byCursor, NEW i \in Missed, i \notin moved PROVE Tied(i)
    BY Zenon DEF CursorHasNoHoles, Tied
  <2>1. walk.pc = "done" /\ i \in here /\ i \notin walk.got
    BY DEF Missed
  <2> QED BY <2>1, Zenon DEF IInv, CursorShape
<1> QED BY <1>1, Invariance, PTL
------------------------------------------------------------------------------
(* Encryption.                                                               *)

\* Division with remainder.
LEMMA Division ==
  ASSUME NEW n \in Nat, NEW b \in Nat \ {0}
  PROVE  /\ n \div b \in Int /\ n % b \in 0..(b - 1)
         /\ n = (n \div b) * b + (n % b)
  BY SMT

\* A multiple of b leaves no remainder.
LEMMA ModMultiple ==
  ASSUME NEW k \in Nat, NEW b \in Nat \ {0}
  PROVE  (k * b) % b = 0
<1> DEFINE d == (k * b) \div b
           r == (k * b) % b
<1>1. d \in Int /\ r \in 0..(b - 1) /\ k * b = d * b + r /\ k * b \in Nat
  <2>1. k * b \in Nat
    BY SMT
  <2> QED BY <2>1, Division
<1> HIDE DEF d, r
<1>2. r = (k - d) * b
  BY <1>1, SMT
<1>3. CASE k - d >= 1
  <2>1. (k - d) * b >= b
    BY <1>1, <1>3, SMT
  <2> QED BY <2>1, <1>1, <1>2, SMT
<1>4. CASE d - k >= 1
  <2>1. (d - k) * b >= b
    BY <1>1, <1>4, SMT
  <2>2. (k - d) * b = 0 - (d - k) * b
    BY <1>1, SMT
  <2> QED BY <2>1, <2>2, <1>1, <1>2, SMT
<1>5. CASE k = d
  BY <1>1, <1>2, <1>5, SMT DEF r
<1> QED BY <1>1, <1>3, <1>4, <1>5, SMT

\* What is filled up to the next multiple of b, by b when it is one, is a multiple.
LEMMA ModWhole ==
  ASSUME NEW n \in Nat, NEW b \in Nat \ {0}
  PROVE  (n + (b - (n % b))) % b = 0
<1> DEFINE q == n \div b
           r == n % b
<1>1. q \in Int /\ r \in 0..(b - 1) /\ n = q * b + r
  BY Division
<1> HIDE DEF q, r
<1>2. q >= 0
  <2>1. CASE q <= 0 - 1
    <3>1. (0 - q) * b >= b
      BY <1>1, <2>1, SMT
    <3>2. q * b = 0 - (0 - q) * b
      BY <1>1, SMT
    <3> QED BY <3>1, <3>2, <1>1, SMT
  <2> QED BY <2>1, <1>1, SMT
<1>3. (q + 1) * b = q * b + b
  BY <1>1, SMT
<1>4. n + (b - r) = (q + 1) * b
  BY <1>1, <1>3, SMT
<1>5. ((q + 1) * b) % b = 0
  BY <1>1, <1>2, ModMultiple
<1> QED BY <1>4, <1>5 DEF r

\* A padded message (pkcs7Padding) is whole blocks, and without its padding it is the
\* message again.
LEMMA PaddingIsWhole ==
  ASSUME NEW m \in Seq(Bytes)
  PROVE  LET c == pkcs7Padding(m)
         IN /\ c \in Seq(Bytes) /\ Len(c) > 0 /\ Len(c) % Block = 0
            /\ pkcs7Unpadding(c) = Value(m)
<1> DEFINE p == Block - (Len(m) % Block)
           t == [i \in 1..p |-> p]
           c == pkcs7Padding(m)
<1>1. Block \in Nat \ {0} /\ Block <= TopByte /\ TopByte \in Nat
  BY EncryptionAssumption, SMT
<1>2. Len(m) \in Nat
  BY SMT
<1>3. p \in 1..Block
  <2>1. Len(m) % Block \in 0..(Block - 1)
    BY <1>1, <1>2, Division
  <2> QED BY <1>1, <2>1, SMT
<1>4. (Len(m) + p) % Block = 0
  BY <1>1, <1>2, ModWhole
<1>5. c = m \o t
  BY DEF pkcs7Padding
<1> HIDE DEF p, c
<1>6. t \in Seq(Bytes) /\ Len(t) = p
  BY <1>1, <1>3, SMT DEF Bytes
<1>7. \A i \in 1..p : t[i] = p
  BY <1>3
<1> HIDE DEF t
<1>8. /\ c \in Seq(Bytes) /\ Len(c) = Len(m) + p
      /\ \A i \in 1..Len(m) : c[i] = m[i]
      /\ c[Len(c)] = p
  <2>1. /\ c \in Seq(Bytes) /\ Len(c) = Len(m) + Len(t)
        /\ \A i \in 1..(Len(m) + Len(t)) :
             c[i] = IF i <= Len(m) THEN m[i] ELSE t[i - Len(m)]
    BY <1>5, <1>6, ConcatProperties
  <2>2. c[Len(c)] = t[p]
    BY <1>2, <1>3, <1>6, <2>1, SMT
  <2> QED BY <1>2, <1>3, <1>6, <1>7, <2>1, <2>2, SMT
<1>9. SubSeq(c, 1, Len(c) - p) = m
  BY <1>2, <1>3, <1>8, SMT
<1>10. c # <<>> /\ ~(c[Len(c)] > Len(c))
  BY <1>2, <1>3, <1>8, SMT
<1>11. pkcs7Unpadding(c) = Value(m)
  BY <1>8, <1>9, <1>10, Zenon DEF pkcs7Unpadding
<1> QED BY <1>2, <1>3, <1>4, <1>8, <1>11, SMT DEF c

\* With its own key and iv a ciphertext decrypts to what was encrypted.
LEMMA RightKeyDecrypts ==
  ASSUME NEW key, NEW iv, NEW c, c.key = key, c.iv = iv, c.data \in Seq(Bytes)
  PROVE  CryptBlocks(key, iv, c) = {c.data}
<1>1. c.data \in [1..Len(c.data) -> Bytes]
  BY SMT
<1>2. c.data \in CryptBlocks(key, iv, c)
  BY <1>1, Zenon DEF CryptBlocks
<1>3. ASSUME NEW d \in CryptBlocks(key, iv, c)
      PROVE  d = c.data
  <2>1. /\ d \in [1..Len(c.data) -> Bytes] /\ DOMAIN d = 1..Len(c.data)
        /\ \A i \in DOMAIN d : d[i] = c.data[i]
    BY <1>3, Zenon DEF CryptBlocks
  <2> QED BY <1>1, <2>1, SMT
<1> QED BY <1>2, <1>3, Zenon

\* The EncryptionData that the server generates it can open (makePublicEncryptUtil,
\* makePublicDecryptUtil).
LEMMA SealOpens ==
  ASSUME NEW master, NEW masterIv, NEW key, NEW iv, Usable(master, masterIv)
  PROVE  LET room == Sealed("base64", 2 * Block, master, masterIv, key, iv)
         IN /\ GenerateKeyEncript(master, masterIv, key, iv) = {Value(room)}
            /\ Opened(room, master, masterIv) = {Value([key |-> key, iv |-> iv])}
<1>1. 2 * Block # 0 /\ (2 * Block) % Block = 0
  <2>1. Block \in Nat \ {0}
    BY EncryptionAssumption, SMT
  <2> QED BY <2>1, ModMultiple, SMT
<1> QED BY <1>1, Zenon DEF GenerateKeyEncript, Opened, Sealed

\* EncryptMessage with EncryptionData that opens to a usable key and iv.
LEMMA Encrypts ==
  ASSUME NEW data, NEW master, NEW masterIv, NEW key, NEW iv, NEW m,
         Opened(data, master, masterIv) = {Value([key |-> key, iv |-> iv])},
         Usable(key, iv), m # <<>>
  PROVE  EncryptMessage(m, data, master, masterIv)
           = {Value([text |-> "base64", key |-> key, iv |-> iv, data |-> pkcs7Padding(m)])}
<1> DEFINE room == [key |-> key, iv |-> iv]
           o    == Value(room)
<1>1. room.key = key /\ room.iv = iv
  BY SMT
<1>2. o.how = "value" /\ o.value = room
  BY SMT DEF Value
<1>3. EncryptMessage(m, data, master, masterIv)
        = IF o.how = "value" THEN EncryptWith(m, o.value) ELSE {o}
  <2> HIDE DEF o
  <2> QED BY SMT DEF EncryptMessage, o
<1> HIDE DEF room, o
<1> QED BY <1>1, <1>2, <1>3, Zenon DEF EncryptWith

\* DecryptMessage of what EncryptMessage makes of m.
LEMMA Decrypts ==
  ASSUME NEW data, NEW master, NEW masterIv, NEW key, NEW iv, NEW m \in Seq(Bytes),
         Opened(data, master, masterIv) = {Value([key |-> key, iv |-> iv])},
         Usable(key, iv)
  PROVE  DecryptMessage([text |-> "base64", key |-> key, iv |-> iv,
                         data |-> pkcs7Padding(m)], data, master, masterIv) = {Value(m)}
<1> DEFINE c    == [text |-> "base64", key |-> key, iv |-> iv, data |-> pkcs7Padding(m)]
           room == [key |-> key, iv |-> iv]
           o    == Value(room)
<1>1. /\ c.text = "base64" /\ c.key = key /\ c.iv = iv
      /\ c.data = pkcs7Padding(m)
      /\ room.key = key /\ room.iv = iv
  BY SMT
<1>2. o.how = "value" /\ o.value = room
  BY SMT DEF Value
<1>3. /\ c.data \in Seq(Bytes) /\ c.data # <<>> /\ Len(c.data) % Block = 0
      /\ pkcs7Unpadding(c.data) = Value(m)
  <2> DEFINE d == pkcs7Padding(m)
  <2>1. d \in Seq(Bytes) /\ Len(d) > 0 /\ Len(d) % Block = 0
        /\ pkcs7Unpadding(d) = Value(m)
    BY PaddingIsWhole
  <2>2. d # <<>>
    <3> HIDE DEF d
    <3> QED BY <2>1, SMT
  <2> HIDE DEF c
  <2> QED BY <1>1, <2>1, <2>2, Zenon
<1>4. DecryptMessage(c, data, master, masterIv)
        = IF o.how = "value" THEN DecryptWith(c, o.value) ELSE {o}
  <2> HIDE DEF o, c
  <2> QED BY SMT DEF DecryptMessage, o
<1> HIDE DEF c, room, o
<1>5. CryptBlocks(key, iv, c) = {c.data}
  BY <1>1, <1>3, RightKeyDecrypts, Zenon
<1>6. {pkcs7Unpadding(d) : d \in {c.data}} = {Value(m)}
  BY <1>3, SMT
<1>7. DecryptWith(c, room) = {pkcs7Unpadding(d) : d \in CryptBlocks(key, iv, c)}
  BY <1>1, <1>3, Zenon DEF DecryptWith
<1>8. DecryptMessage(c, data, master, masterIv) = {Value(m)}
  BY <1>2, <1>4, <1>5, <1>6, <1>7, Zenon
<1> QED BY <1>8 DEF c

\* Whatever the message, the keys and the size of the blocks, SendMessage stores as the
\* decrypted content what the client has encrypted with the EncryptionData of the room.
THEOREM ServerReadsWhatIsSent == RoundTrip
<1> SUFFICES ASSUME NEW master \in Keys, NEW key \in Keys,
                    NEW masterIv \in Ivs, NEW iv \in Ivs,
                    NEW m \in Messages \ {<<>>},
                    Usable(master, masterIv), Usable(key, iv),
                    NEW room \in GenerateKeyEncript(master, masterIv, key, iv),
                    NEW sent \in EncryptMessage(m, room.value, master, masterIv)
             PROVE  /\ sent.how = "value"
                    /\ contentDecrypted(sent.value, room.value, master, masterIv)
                         = {Value(m)}
  BY DEF RoundTrip
<1>1. m \in Seq(Bytes)
  BY EncryptionAssumption
<1> DEFINE data == Sealed("base64", 2 * Block, master, masterIv, key, iv)
           c    == [text |-> "base64", key |-> key, iv |-> iv, data |-> pkcs7Padding(m)]
<1>2. /\ GenerateKeyEncript(master, masterIv, key, iv) = {Value(data)}
      /\ Opened(data, master, masterIv) = {Value([key |-> key, iv |-> iv])}
  BY SealOpens
<1> HIDE DEF data
<1>3. room.value = data
  BY <1>2, SMT DEF Value
<1>4. EncryptMessage(m, data, master, masterIv) = {Value(c)}
  BY <1>2, Encrypts
<1>5. DecryptMessage(c, data, master, masterIv) = {Value(m)}
  BY <1>1, <1>2, Decrypts
<1> HIDE DEF c
<1>6. sent.how = "value" /\ sent.value = c
  BY <1>3, <1>4, SMT DEF Value
<1>7. contentDecrypted(c, data, master, masterIv) = {Value(m)}
  <2>1. Value(m).how # "error"
    BY SMT DEF Value
  <2> QED BY <1>5, <2>1, SMT DEF contentDecrypted
<1> QED BY <1>3, <1>6, <1>7, Zenon
==============================================================================
