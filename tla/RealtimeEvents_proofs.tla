----------------------- MODULE RealtimeEvents_proofs -----------------------
(***************************************************************************)
(* Proofs about the realtime event pump (RealtimeEvents): its inductive    *)
(* invariant, the agreement of its cursors, and that it implements the     *)
(* abstract feed (EventFeed).  A stream's record is judged together with   *)
(* the id it stands at (StreamOK); the operators that rewrite records      *)
(* have a lemma each, and the poll's loop is an induction over the ids of  *)
(* its page.                                                               *)
(***************************************************************************)
EXTENDS RealtimeEvents, FiniteSetTheorems, SequenceTheorems, TLAPS

-----------------------------------------------------------------------------
(* Numbers.  A set of naturals has a least member; that is also how the    *)
(* proofs below do induction: the least counterexample has a predecessor   *)
(* that is none.                                                           *)

LEMMA LeastNatural ==
    ASSUME NEW T, T \subseteq Nat, T # {}
    PROVE  \E least \in T : \A n \in T : least <= n
<1> DEFINE below == OpToRel(<, Nat)
<1>1. IsWellFoundedOn(below, Nat)
  BY NatLessThanWellFounded
<1>2. \A m, n \in Nat : m < n => <<m, n>> \in below
  BY DEF OpToRel
<1> HIDE DEF below
<1>3. PICK least \in T : \A n \in T : <<n, least>> \notin below
  BY <1>1, WFMin
<1>4. \A n \in T : n \in Nat /\ least \in Nat /\ ~(n < least)
  BY <1>2, <1>3
<1> QED
  BY <1>4

LEMMA MinProperties ==
    ASSUME NEW T, T \subseteq Nat, T # {}
    PROVE  Min(T) \in T /\ \A n \in T : Min(T) <= n
BY LeastNatural DEF Min

LEMMA MaxProperties ==
    ASSUME NEW T, T \subseteq Nat, T # {}, NEW bound \in Nat, \A n \in T : n <= bound
    PROVE  Max(T) \in T /\ \A n \in T : n <= Max(T)
<1> DEFINE bounds == {m \in Nat : \A n \in T : n <= m}
<1>1. PICK least \in bounds : \A m \in bounds : least <= m
  <2>1. bounds \subseteq Nat /\ bounds # {}
    OBVIOUS
  <2> QED
    BY <2>1, LeastNatural
<1>2. least \in Nat /\ \A n \in T : n <= least /\ n \in Nat
  BY <1>1
<1>3. least \in T
  <2>1. SUFFICES ASSUME least \notin T PROVE FALSE
    OBVIOUS
  <2>2. \A n \in T : n <= least - 1
    BY <1>2, <2>1
  <2>3. least - 1 \in Nat
    <3>1. PICK n \in T : n \in Nat /\ n <= least - 1
      BY <1>2, <2>2
    <3> QED
      BY <1>2, <3>1
  <2>4. least - 1 \in bounds
    BY <2>2, <2>3
  <2>5. least <= least - 1
    BY <1>1, <2>4
  <2> QED
    BY <1>2, <2>5
<1>4. \E x \in T : \A y \in T : x >= y
  BY <1>2, <1>3
<1> HIDE DEF bounds
<1>5. Max(T) \in T /\ \A n \in T : Max(T) >= n
  BY <1>4 DEF Max
<1> QED
  BY <1>5

-----------------------------------------------------------------------------
(* Sequences of ids *)

LEMMA Prepended ==
    ASSUME NEW S, NEW x \in S, NEW q \in Seq(S)
    PROVE  /\ <<x>> \o q \in Seq(S) /\ <<x>> \o q # <<>>
           /\ Head(<<x>> \o q) = x /\ Tail(<<x>> \o q) = q
           /\ \A y \in S : Append(<<x>> \o q, y) = <<x>> \o Append(q, y)
<1> DEFINE p == <<x>> \o q
<1>1. <<x>> \in Seq(S) /\ Len(<<x>>) = 1 /\ <<x>>[1] = x
  OBVIOUS
<1>2. /\ p \in Seq(S) /\ Len(p) = 1 + Len(q)
      /\ \A i \in 1 .. 1 + Len(q) : p[i] = IF i <= 1 THEN x ELSE q[i - 1]
  BY <1>1, ConcatProperties
<1>3. Len(q) \in Nat
  OBVIOUS
<1> HIDE DEF p
<1>4. p # <<>> /\ Head(p) = x
  BY <1>2, <1>3
<1>5. Tail(p) = q
  <2>1. /\ Tail(p) \in Seq(S) /\ Len(Tail(p)) = Len(p) - 1
        /\ \A i \in 1 .. Len(Tail(p)) : Tail(p)[i] = p[i + 1]
    BY <1>2, <1>4, HeadTailProperties
  <2>2. Len(Tail(p)) = Len(q)
    BY <1>2, <1>3, <2>1
  <2>3. ASSUME NEW i \in 1 .. Len(q) PROVE Tail(p)[i] = q[i]
    BY <1>2, <1>3, <2>1, <2>2
  <2> QED
    BY <2>1, <2>2, <2>3, SeqEqual
<1>6. ASSUME NEW y \in S PROVE Append(p, y) = <<x>> \o Append(q, y)
  <2>1. Append(p, y) = p \o <<y>> /\ Append(q, y) = q \o <<y>>
    BY <1>2
  <2>2. p \o <<y>> = <<x>> \o (q \o <<y>>)
    BY <1>1, ConcatAssociative DEF p
  <2> QED
    BY <2>1, <2>2
<1> QED
  BY <1>2, <1>4, <1>5, <1>6 DEF p

LEMMA PrependedThenAppended ==
    ASSUME NEW x \in Nat, NEW q \in Seq(Nat), NEW y \in Nat
    PROVE  Append(<<x>> \o q, y) = <<x>> \o Append(q, y)
<1>1. \A z \in Nat : Append(<<x>> \o q, z) = <<x>> \o Append(q, z)
  BY Prepended
<1> QED
  BY <1>1

LEMMA Appended ==
    ASSUME NEW S, NEW q \in Seq(S), NEW y \in S
    PROVE  /\ Append(q, y) \in Seq(S) /\ Append(q, y) # <<>>
           /\ Len(Append(q, y)) = Len(q) + 1
           /\ Append(q, y)[Len(q) + 1] = y
           /\ \A i \in 1 .. Len(q) : Append(q, y)[i] = q[i]
           /\ q # <<>> => Head(Append(q, y)) = Head(q)
           /\ q = <<>> => Head(Append(q, y)) = y
OBVIOUS

-----------------------------------------------------------------------------
(* Pages *)

(* A page is the oldest part of the rows: whatever is left out comes after  *)
(* a full page.                                                             *)
LEMMA PageProperties ==
    ASSUME MaximumPageEvents \in Nat \ {0}, NEW a \in Nat, NEW b \in Nat, NEW topics
    PROVE  LET rows == Rows(a, b, topics)
               page == Page(a, b, topics) IN
           /\ page \subseteq rows /\ IsFiniteSet(page)
           /\ \A id \in rows : \/ id \in page
                               \/ /\ Cardinality(page) >= MaximumPageEvents
                                  /\ \A other \in page : other < id
<1> DEFINE rows == Rows(a, b, topics)
           page == Page(a, b, topics)
           Older(id) == {older \in rows : older < id}
<1>1. rows \subseteq Nat /\ \A id \in rows : id <= b
  BY DEF Rows
<1>2. IsFiniteSet(rows)
  BY <1>1, FS_BoundedSetOfNaturals
<1>3. page = {id \in rows : Cardinality(Older(id)) < MaximumPageEvents}
  BY DEF Page
<1>4. \A id \in rows : /\ Older(id) \subseteq rows /\ IsFiniteSet(Older(id))
                       /\ Cardinality(Older(id)) \in Nat
  BY <1>2, FS_Subset, FS_CardinalityType
<1>5. page \subseteq rows /\ IsFiniteSet(page) /\ Cardinality(page) \in Nat
  BY <1>2, <1>3, FS_Subset, FS_CardinalityType
<1> HIDE DEF rows, page
<1>6. ASSUME NEW id \in rows, id \notin page, NEW other \in page PROVE other < id
  <2>1. SUFFICES ASSUME ~(other < id) PROVE FALSE
    OBVIOUS
  <2>2. other \in rows /\ id \in Nat /\ other \in Nat /\ id <= other
    BY <1>1, <1>5, <2>1
  <2>3. Older(id) \subseteq Older(other)
    <3>1. ASSUME NEW older \in rows, older < id PROVE older < other
      <4>1. older \in Nat
        BY <1>1
      <4> QED
        BY <2>2, <3>1, <4>1
    <3> QED
      BY <3>1
  <2>4. Cardinality(Older(id)) <= Cardinality(Older(other))
    BY <1>4, <2>2, <2>3, FS_Subset
  <2>5. Cardinality(Older(other)) < MaximumPageEvents
    BY <1>3
  <2>6. ~(Cardinality(Older(id)) < MaximumPageEvents)
    BY <1>3, <1>6
  <2>7. Cardinality(Older(id)) \in Nat /\ Cardinality(Older(other)) \in Nat
    BY <1>4, <2>2
  <2> QED
    BY <2>4, <2>5, <2>6, <2>7
<1>7. ASSUME NEW id \in rows, id \notin page PROVE Cardinality(page) >= MaximumPageEvents
  <2>1. PICK first \in rows \ page : \A other \in rows \ page : first <= other
    BY <1>1, <1>7, LeastNatural
  <2>2. Older(first) \subseteq page
    <3>1. ASSUME NEW older \in rows, older < first PROVE older \in page
      BY <1>1, <2>1, <3>1
    <3> QED
      BY <3>1
  <2>3. Cardinality(Older(first)) <= Cardinality(page)
    BY <1>5, <2>2, FS_Subset
  <2>4. ~(Cardinality(Older(first)) < MaximumPageEvents)
    BY <1>3, <2>1
  <2> QED
    BY <1>4, <1>5, <2>1, <2>3, <2>4
<1> QED
  BY <1>5, <1>6, <1>7 DEF rows, page

-----------------------------------------------------------------------------
(* The inductive invariant.  A stream is judged by its record r and the id  *)
(* k it stands at, its own position or, before it is attached, the cursor   *)
(* of its client, against the newest row (top) and the last row that is     *)
(* gone (gone).                                                             *)

Mine(c, id) == TopicAt[id] \in TopicsOf[c]

NoneBetween(c, low, high) == \A id \in (low + 1)..high : ~Mine(c, id)

\* The next event of the client's topics
Comes(c, k, id) == k < id /\ Mine(c, id) /\ NoneBetween(c, k, id - 1)

\* A queue with all events of the client's topics after low and through high
QueueHolds(c, queue, low, high) ==
    /\ \A i \in 1 .. Len(queue) : queue[i] \in (low + 1)..high /\ Mine(c, queue[i])
    /\ \A i, j \in 1 .. Len(queue) : i < j => queue[i] < queue[j]
    /\ \A id \in (low + 1)..high : Mine(c, id) => \E i \in 1 .. Len(queue) : queue[i] = id

Replaying == {"reading", "read", "paging"}

Listens(r) == r.pc \in Attached /\ r.failure = "none"

Record ==
    [pc : {"closed"} \cup Opening \cup Attached,
     boundary : Ids, observed : Ids, required : Ids, position : Ids, replay : Ids,
     bounds : [latest : Ids, pruned : Ids],
     page : SUBSET Ids, queue : Seq(Ids \ {0}), pending : Seq(Ids \ {0}), hand : Ids,
     failure : {"none", "error", "resync"}, tail : Ids]

\* Where the stream, the poll and the boundary stand to each other
PositionOK(c, r, k, top, gone) ==
    /\ k = r.position
    /\ k \in 0..r.observed /\ r.boundary <= r.observed /\ r.observed <= top
    /\ r.hand # 0 => /\ r.pc = "waiting" /\ r.pending # <<>>
                     /\ Comes(c, k, r.hand) /\ r.hand <= r.observed
    /\ r.pc = "yielded" => r.pending # <<>>
    /\ r.failure # "none" => r.queue = <<>>
    /\ r.failure = "resync" => r.observed < gone /\ r.tail \in r.observed..top

\* A page that was read: nothing of the client's topics lies before or within it
\* but rows that were gone.
PageRead(c, r, top, gone) ==
    /\ r.bounds.pruned <= gone /\ r.bounds.latest \in r.boundary..top
    /\ \A id \in r.page : id \in (r.replay + 1)..r.boundary /\ Mine(c, id)
    /\ \A id \in (r.replay + 1)..r.boundary :
         Mine(c, id) /\ id > r.bounds.pruned =>
             \/ id \in r.page
             \/ /\ Cardinality(r.page) >= MaximumPageEvents
                /\ \A other \in r.page : other < id

ReplayOK(c, r, k, top, gone) ==
    /\ r.required <= k /\ k <= r.replay /\ r.replay <= r.boundary
    /\ r.pc # "paging" => r.replay < r.boundary /\ NoneBetween(c, k, r.replay)
    /\ r.pc = "read" => PageRead(c, r, top, gone)
    /\ r.pc = "paging" => r.page = {id \in (k + 1)..r.replay : Mine(c, id)}

\* What is buffered and pending for the client, in each part of its stream
BufferOK(c, r, k) ==
    /\ r.pc \in Replaying =>
         QueueHolds(c, r.queue, r.boundary, r.observed) /\ r.pending = r.queue
    /\ r.pc = "waiting" /\ r.hand = 0 =>
         r.queue = <<>> /\ r.pending = <<>> /\ NoneBetween(c, k, r.observed)
    /\ r.pc = "waiting" /\ r.hand # 0 =>
         QueueHolds(c, r.queue, r.hand, r.observed) /\ r.pending = <<r.hand>> \o r.queue
    /\ r.pc = "yielded" =>
         QueueHolds(c, r.queue, k, r.observed) /\ r.pending = <<k>> \o r.queue
    /\ r.pc \in ReplayComplete => r.required = RequiredAfter(r)

OpeningOK(r, k, top, gone) ==
    /\ r.failure # "resync"
    /\ r.pc = "opened" =>
         r.bounds.pruned <= gone /\ r.bounds.latest <= top /\ k <= r.bounds.latest

StreamOK(c, r, k, top, gone) ==
    /\ r \in Record /\ Len(r.queue) <= MaximumSubscriberQueueEvents
    /\ r.pc = "closed" => r = Closed
    /\ r.pc \in Opening => OpeningOK(r, k, top, gone)
    /\ r.pc \in Attached => PositionOK(c, r, k, top, gone)
    /\ r.pc \in Replaying => ReplayOK(c, r, k, top, gone)
    /\ Listens(r) => BufferOK(c, r, k)

\* The poll is behind no subscriber that it has already served.
PumpAgrees(r, position) ==
    position <= r.observed /\ (r.observed = r.boundary \/ r.observed = position)

\* Where the stream of a client stands, or would begin
StandsAt(c) == IF stream[c].pc \in Attached THEN stream[c].position ELSE cursor[c]

RealtimeInv ==
    /\ RealtimeAssumption
    /\ issued \in Ids /\ pruned \in 0..issued
    /\ pollCursor \in 0..issued /\ latestIssuedId \in 0..issued
    /\ stream \in [Clients -> Record]
    /\ cursor \in [Clients -> NoCursor..issued]
    /\ \A c \in Clients : StreamOK(c, stream[c], StandsAt(c), issued, pruned)
    /\ \A c \in Clients : Listens(stream[c]) => PumpAgrees(stream[c], pollCursor)


-----------------------------------------------------------------------------
(* Queues *)

LEMMA ConstantFacts ==
    ASSUME RealtimeAssumption
    PROVE  /\ MaximumIssued \in Nat /\ Ids = 0..MaximumIssued /\ Ids \subseteq Nat
           /\ MaximumPageEvents \in Nat \ {0} /\ MaximumSubscriberQueueEvents \in Nat
BY DEF RealtimeAssumption, Ids

LEMMA EmptyQueue ==
    ASSUME NEW c, NEW low \in Nat, NEW high \in Nat
    PROVE  /\ QueueHolds(c, <<>>, low, high) <=> NoneBetween(c, low, high)
           /\ low >= high => QueueHolds(c, <<>>, low, high) /\ NoneBetween(c, low, high)
BY DEF QueueHolds, NoneBetween

LEMMA QueueSkips ==
    ASSUME NEW c, NEW q, NEW low \in Nat, NEW high \in Nat, QueueHolds(c, q, low, high),
           ~Mine(c, high + 1)
    PROVE  QueueHolds(c, q, low, high + 1)
BY DEF QueueHolds

LEMMA QueueGrows ==
    ASSUME NEW c, NEW q \in Seq(Ids \ {0}), NEW low \in Nat, NEW high \in Nat, low <= high,
           high + 1 \in Ids \ {0}, QueueHolds(c, q, low, high), Mine(c, high + 1)
    PROVE  QueueHolds(c, Append(q, high + 1), low, high + 1)
<1> DEFINE longer == Append(q, high + 1)
<1>1. /\ Len(longer) = Len(q) + 1 /\ longer[Len(q) + 1] = high + 1
      /\ \A i \in 1 .. Len(q) : longer[i] = q[i]
  BY Appended
<1>2. Len(q) \in Nat
  OBVIOUS
<1>3. /\ \A i \in 1 .. Len(q) : q[i] \in (low + 1)..high /\ Mine(c, q[i])
      /\ \A i, j \in 1 .. Len(q) : i < j => q[i] < q[j]
      /\ \A id \in (low + 1)..high : Mine(c, id) => \E i \in 1 .. Len(q) : q[i] = id
  BY DEF QueueHolds
<1> HIDE DEF longer
<1>4. ASSUME NEW i \in 1 .. Len(longer)
      PROVE  longer[i] \in (low + 1)..(high + 1) /\ Mine(c, longer[i])
  <2>1. CASE i = Len(q) + 1
    BY <1>1, <2>1
  <2>2. CASE i # Len(q) + 1
    <3>1. i \in 1 .. Len(q)
      BY <1>1, <1>2, <2>2
    <3> QED
      BY <1>1, <1>3, <3>1
  <2> QED
    BY <2>1, <2>2
<1>5. ASSUME NEW i \in 1 .. Len(longer), NEW j \in 1 .. Len(longer), i < j
      PROVE  longer[i] < longer[j]
  <2>1. i \in 1 .. Len(q)
    BY <1>1, <1>2, <1>5
  <2>2. longer[i] = q[i] /\ q[i] \in (low + 1)..high
    BY <1>1, <1>3, <2>1
  <2>3. CASE j = Len(q) + 1
    BY <1>1, <2>2, <2>3
  <2>4. CASE j # Len(q) + 1
    <3>1. j \in 1 .. Len(q)
      BY <1>1, <1>2, <2>4
    <3> QED
      BY <1>1, <1>3, <1>5, <2>1, <3>1
  <2> QED
    BY <2>3, <2>4
<1>6. ASSUME NEW id \in (low + 1)..(high + 1), Mine(c, id)
      PROVE  \E i \in 1 .. Len(longer) : longer[i] = id
  <2>1. CASE id = high + 1
    <3>1. Len(q) + 1 \in 1 .. Len(longer)
      BY <1>1, <1>2
    <3> QED
      BY <1>1, <2>1, <3>1
  <2>2. CASE id # high + 1
    <3>1. id \in (low + 1)..high
      BY <2>2
    <3>2. PICK i \in 1 .. Len(q) : q[i] = id
      BY <1>3, <1>6, <3>1
    <3>3. i \in 1 .. Len(longer)
      BY <1>1, <1>2
    <3> QED
      BY <1>1, <3>2, <3>3
  <2> QED
    BY <2>1, <2>2
<1>7. QueueHolds(c, longer, low, high + 1)
  BY <1>4, <1>5, <1>6 DEF QueueHolds
<1> QED
  BY <1>7 DEF longer

\* The head of such a queue is the next event of the client, and the rest follows it.
LEMMA QueueShrinks ==
    ASSUME NEW c, NEW q \in Seq(Ids \ {0}), q # <<>>, NEW low \in Nat, NEW high \in Nat,
           QueueHolds(c, q, low, high)
    PROVE  /\ Head(q) \in (low + 1)..high /\ Head(q) \in Ids \ {0}
           /\ Comes(c, low, Head(q))
           /\ Tail(q) \in Seq(Ids \ {0}) /\ Len(Tail(q)) = Len(q) - 1
           /\ q = <<Head(q)>> \o Tail(q)
           /\ QueueHolds(c, Tail(q), Head(q), high)
<1>1. /\ Head(q) \in Ids \ {0} /\ Head(q) = q[1]
      /\ Tail(q) \in Seq(Ids \ {0}) /\ Len(Tail(q)) = Len(q) - 1
      /\ \A i \in 1 .. Len(Tail(q)) : Tail(q)[i] = q[i + 1]
  BY HeadTailProperties
<1>2. Len(q) \in Nat /\ Len(q) >= 1
  BY EmptySeq
<1>3. /\ \A i \in 1 .. Len(q) : q[i] \in (low + 1)..high /\ Mine(c, q[i])
      /\ \A i, j \in 1 .. Len(q) : i < j => q[i] < q[j]
      /\ \A id \in (low + 1)..high : Mine(c, id) => \E i \in 1 .. Len(q) : q[i] = id
  BY DEF QueueHolds
<1> DEFINE first == Head(q)
           rest == Tail(q)
<1>4. first \in (low + 1)..high /\ Mine(c, first)
  BY <1>1, <1>2, <1>3
<1> HIDE DEF first, rest
<1>5. ASSUME NEW id \in (low + 1)..high, Mine(c, id), id # first
      PROVE  first < id /\ \E i \in 1 .. Len(rest) : rest[i] = id
  <2>1. PICK i \in 1 .. Len(q) : q[i] = id
    BY <1>3, <1>5
  <2>2. i # 1
    BY <1>1, <1>5, <2>1 DEF first
  <2>3. first < id
    BY <1>1, <1>2, <1>3, <2>1, <2>2 DEF first
  <2>4. i - 1 \in 1 .. Len(rest) /\ (i - 1) + 1 = i
    BY <1>1, <1>2, <2>2 DEF rest
  <2>5. rest[i - 1] = id
    BY <1>1, <2>1, <2>4 DEF rest
  <2> QED
    BY <2>3, <2>4, <2>5
<1>6. Comes(c, low, first)
  <2>1. ASSUME NEW id \in (low + 1)..(first - 1), Mine(c, id) PROVE FALSE
    <3>1. id \in (low + 1)..high /\ id < first
      BY <1>4
    <3> QED
      BY <1>4, <1>5, <2>1, <3>1
  <2> QED
    BY <1>4, <2>1 DEF Comes, NoneBetween
<1>7. QueueHolds(c, rest, first, high)
  <2>1. ASSUME NEW i \in 1 .. Len(rest)
        PROVE  rest[i] \in (first + 1)..high /\ Mine(c, rest[i])
    <3>1. i + 1 \in 1 .. Len(q) /\ 1 \in 1 .. Len(q) /\ 1 < i + 1
      BY <1>1, <1>2 DEF rest
    <3>2. rest[i] = q[i + 1] /\ first = q[1]
      BY <1>1 DEF rest, first
    <3>3. q[i + 1] \in (low + 1)..high /\ Mine(c, q[i + 1]) /\ q[1] < q[i + 1]
      BY <1>3, <3>1
    <3> QED
      BY <1>4, <3>2, <3>3
  <2>2. ASSUME NEW i \in 1 .. Len(rest), NEW j \in 1 .. Len(rest), i < j
        PROVE  rest[i] < rest[j]
    <3>1. i + 1 \in 1 .. Len(q) /\ j + 1 \in 1 .. Len(q) /\ i + 1 < j + 1
      BY <1>1, <1>2, <2>2 DEF rest
    <3>2. rest[i] = q[i + 1] /\ rest[j] = q[j + 1]
      BY <1>1 DEF rest
    <3> QED
      BY <1>3, <3>1, <3>2
  <2>3. ASSUME NEW id \in (first + 1)..high, Mine(c, id)
        PROVE  \E i \in 1 .. Len(rest) : rest[i] = id
    <3>1. id \in (low + 1)..high /\ id # first
      BY <1>4
    <3> QED
      BY <1>5, <2>3, <3>1
  <2> QED
    BY <2>1, <2>2, <2>3 DEF QueueHolds
<1>8. q = <<first>> \o rest
  <2>1. <<first>> \in Seq(Ids \ {0}) /\ Len(<<first>>) = 1 /\ <<first>>[1] = first
    BY <1>1 DEF first
  <2>2. rest \in Seq(Ids \ {0})
    BY <1>1 DEF rest
  <2> DEFINE p == <<first>> \o rest
  <2>3. /\ p \in Seq(Ids \ {0}) /\ Len(p) = 1 + Len(rest)
        /\ \A i \in 1 .. 1 + Len(rest) : p[i] = IF i <= 1 THEN first ELSE rest[i - 1]
    BY <2>1, <2>2, ConcatProperties
  <2> HIDE DEF p
  <2>4. Len(p) = Len(q)
    BY <1>1, <1>2, <2>3 DEF rest
  <2>5. ASSUME NEW i \in 1 .. Len(q) PROVE p[i] = q[i]
    <3>1. CASE i = 1
      BY <1>1, <1>2, <2>3, <2>4, <3>1 DEF first
    <3>2. CASE i # 1
      <4>1. i - 1 \in 1 .. Len(rest) /\ (i - 1) + 1 = i /\ ~(i <= 1)
        BY <1>1, <1>2, <3>2 DEF rest
      <4>2. p[i] = rest[i - 1]
        BY <2>3, <2>4, <4>1
      <4> QED
        BY <1>1, <4>1, <4>2 DEF rest
    <3> QED
      BY <3>1, <3>2
  <2>6. p = q
    BY <2>3, <2>4, <2>5, SeqEqual
  <2> QED
    BY <2>6 DEF p
<1> QED
  BY <1>1, <1>4, <1>6, <1>7, <1>8 DEF first, rest

-----------------------------------------------------------------------------
(* Records: one lemma per operator that rewrites the record of a stream *)

LEMMA SetFacts ==
    /\ Replaying \subseteq Attached /\ ReplayComplete \subseteq Attached
    /\ Replaying \cap ReplayComplete = {} /\ Opening \cap Attached = {}
    /\ "closed" \notin Opening /\ "closed" \notin Attached
    /\ Attached = Replaying \cup ReplayComplete
    /\ \A pc \in ReplayComplete : pc = "waiting" \/ pc = "yielded"
    /\ "waiting" \in ReplayComplete /\ "yielded" \in ReplayComplete
    /\ "reading" \in Replaying /\ "read" \in Replaying /\ "paging" \in Replaying
BY DEF Replaying, ReplayComplete, Opening, Attached

\* A record whose queue is about to be read
Live(c, s, k, top, gone) ==
    /\ s \in Record /\ Len(s.queue) <= MaximumSubscriberQueueEvents /\ s.hand = 0
    /\ k = s.position
    /\ k \in 0..s.observed /\ s.boundary <= s.observed /\ s.observed <= top
    /\ s.failure # "none" => s.queue = <<>>
    /\ s.failure = "resync" => s.observed < gone /\ s.tail \in s.observed..top
    /\ s.failure = "none" => /\ QueueHolds(c, s.queue, k, s.observed)
                             /\ s.pending = s.queue /\ s.required = RequiredAfter(s)

LEMMA NextServes ==
    ASSUME RealtimeAssumption, NEW c, NEW s, NEW k, NEW top \in Ids, NEW gone \in Nat,
           Live(c, s, k, top, gone)
    PROVE  /\ StreamOK(c, NextFromQueue(s), k, top, gone)
           /\ NextFromQueue(s).pc = "waiting"
           /\ NextFromQueue(s).boundary = s.boundary
           /\ NextFromQueue(s).observed = s.observed
           /\ NextFromQueue(s).failure = s.failure
<1> DEFINE new == NextFromQueue(s)
<1>1. s \in Record
  BY DEF Live
<1>2. s.observed \in Nat /\ k \in Nat /\ top \in Nat /\ s.boundary \in Nat
  BY <1>1, ConstantFacts DEF Live, Record
<1>3. s.queue \in Seq(Ids \ {0}) /\ s.pending \in Seq(Ids \ {0})
  BY <1>1 DEF Record
<1>4. /\ Len(s.queue) <= MaximumSubscriberQueueEvents /\ s.hand = 0
      /\ k = s.position
      /\ k \in 0..s.observed /\ s.boundary <= s.observed /\ s.observed <= top
      /\ s.failure # "none" => s.queue = <<>>
      /\ s.failure = "resync" => s.observed < gone /\ s.tail \in s.observed..top
      /\ s.failure = "none" => /\ QueueHolds(c, s.queue, k, s.observed)
                               /\ s.pending = s.queue /\ s.required = RequiredAfter(s)
  BY DEF Live
<1>5. CASE s.queue = <<>>
  <2>1. /\ new \in Record
        /\ new.pc = "waiting" /\ new.hand = 0 /\ new.boundary = s.boundary
        /\ new.position = s.position
        /\ new.observed = s.observed /\ new.required = s.required /\ new.queue = <<>>
        /\ new.pending = s.pending /\ new.failure = s.failure /\ new.tail = s.tail
    BY <1>1, <1>4, <1>5, SetFacts DEF NextFromQueue, Record
  <2> HIDE DEF new
  <2>2. PositionOK(c, new, k, top, gone)
    BY <1>4, <2>1 DEF PositionOK
  <2>3. ASSUME s.failure = "none" PROVE BufferOK(c, new, k)
    <3>1. NoneBetween(c, k, s.observed)
      BY <1>2, <1>4, <1>5, <2>3, EmptyQueue
    <3>2. new.required = RequiredAfter(new)
      BY <1>4, <2>1, <2>3 DEF RequiredAfter
    <3> QED
      BY <1>4, <1>5, <2>1, <2>3, <3>1, <3>2, SetFacts DEF BufferOK
  <2>4. new.pc \notin Opening /\ new.pc \notin Replaying /\ new.pc # "closed"
    BY <2>1, SetFacts
  <2>5. Len(new.queue) <= MaximumSubscriberQueueEvents
    BY <1>4, <1>5, <2>1
  <2>6. StreamOK(c, new, k, top, gone)
    BY <2>1, <2>2, <2>3, <2>4, <2>5 DEF StreamOK, Listens
  <2> QED
    BY <2>1, <2>6 DEF new
<1>6. CASE s.queue # <<>>
  <2>1. s.failure = "none"
    BY <1>4, <1>6
  <2>2. /\ Head(s.queue) \in (k + 1)..s.observed /\ Head(s.queue) \in Ids \ {0}
        /\ Comes(c, k, Head(s.queue))
        /\ Tail(s.queue) \in Seq(Ids \ {0}) /\ Len(Tail(s.queue)) = Len(s.queue) - 1
        /\ s.queue = <<Head(s.queue)>> \o Tail(s.queue)
        /\ QueueHolds(c, Tail(s.queue), Head(s.queue), s.observed)
    BY <1>2, <1>3, <1>4, <1>6, <2>1, QueueShrinks
  <2>3. /\ new \in Record
        /\ new.pc = "waiting" /\ new.hand = Head(s.queue) /\ new.boundary = s.boundary
        /\ new.position = s.position
        /\ new.observed = s.observed /\ new.required = s.required
        /\ new.queue = Tail(s.queue)
        /\ new.pending = s.pending /\ new.failure = s.failure /\ new.tail = s.tail
    <3>1. new = [s EXCEPT !.pc = "waiting", !.hand = Head(s.queue), !.queue = Tail(s.queue)]
      BY <1>6 DEF NextFromQueue
    <3> HIDE DEF new
    <3> QED
      BY <1>1, <2>2, <3>1, SetFacts DEF Record
  <2> HIDE DEF new
  <2>4. PositionOK(c, new, k, top, gone)
    BY <1>4, <1>6, <2>1, <2>2, <2>3 DEF PositionOK
  <2>5. BufferOK(c, new, k)
    <3>1. new.required = RequiredAfter(new)
      BY <1>4, <2>1, <2>3 DEF RequiredAfter
    <3>2. new.hand # 0
      BY <2>2, <2>3
    <3> QED
      BY <1>4, <2>1, <2>2, <2>3, <3>1, <3>2, SetFacts DEF BufferOK
  <2>6. new.pc \notin Opening /\ new.pc \notin Replaying /\ new.pc # "closed"
    BY <2>3, SetFacts
  <2>7. Len(new.queue) <= MaximumSubscriberQueueEvents
    <3>1. Len(s.queue) \in Nat /\ Len(Tail(s.queue)) \in Nat
      BY <1>3, <2>2
    <3> QED
      BY <1>4, <2>2, <2>3, <3>1, ConstantFacts
  <2>8. StreamOK(c, new, k, top, gone)
    BY <2>3, <2>4, <2>5, <2>6, <2>7 DEF StreamOK
  <2> QED
    BY <2>3, <2>8 DEF new
<1> QED
  BY <1>5, <1>6

\* A replay that is done with all rows through its boundary goes over to the queue.
Ready(c, r, k, top, gone) ==
    /\ r \in Record /\ Len(r.queue) <= MaximumSubscriberQueueEvents
    /\ r.pc \in Replaying /\ r.failure = "none"
    /\ PositionOK(c, r, k, top, gone) /\ BufferOK(c, r, k)
    /\ r.required <= k /\ k <= r.replay /\ r.replay <= r.boundary
    /\ NoneBetween(c, k, r.replay)

LEMMA ReadyStartsLive ==
    ASSUME RealtimeAssumption, NEW c, NEW r, NEW k, NEW top \in Ids, NEW gone \in Nat,
           Ready(c, r, k, top, gone), r.replay = r.boundary
    PROVE  /\ StreamOK(c, StartLive(r), k, top, gone)
           /\ StartLive(r).boundary = r.boundary /\ StartLive(r).observed = r.observed
           /\ StartLive(r).pc = "waiting" /\ StartLive(r).failure = "none"
<1> DEFINE larger == Larger(r.required, r.boundary)
           moved == [r EXCEPT !.pc = "waiting", !.required = larger]
           new == [moved EXCEPT !.required = RequiredAfter(moved)]
<1>1. r \in Record /\ r.failure = "none" /\ r.pc \in Replaying
  BY DEF Ready
<1>2. larger \in Ids
  BY <1>1 DEF Record, Larger
<1>3. /\ moved \in Record
      /\ moved.pc = "waiting" /\ moved.pending = r.pending /\ moved.observed = r.observed
      /\ moved.position = r.position
  BY <1>1, <1>2, SetFacts DEF Record
<1>4. RequiredAfter(moved) \in Ids
  <2>1. r.pending \in Seq(Ids \ {0}) /\ r.observed \in Ids
    BY <1>1 DEF Record
  <2>2. CASE r.pending = <<>>
    BY <1>3, <2>1, <2>2 DEF RequiredAfter
  <2>3. CASE r.pending # <<>>
    <3>1. Head(r.pending) \in Ids \ {0}
      BY <2>1, <2>3, HeadTailProperties
    <3> QED
      BY <1>3, <2>3, <3>1, ConstantFacts DEF RequiredAfter
  <2> QED
    BY <2>2, <2>3
<1>5. /\ new \in Record
      /\ new.pc = "waiting" /\ new.hand = r.hand /\ new.boundary = r.boundary
      /\ new.position = r.position
      /\ new.observed = r.observed /\ new.required = RequiredAfter(moved)
      /\ new.queue = r.queue /\ new.pending = r.pending
      /\ new.failure = "none" /\ new.tail = r.tail
  <2> HIDE DEF larger
  <2>1. moved.hand = r.hand /\ moved.boundary = r.boundary /\ moved.queue = r.queue
        /\ moved.failure = "none" /\ moved.tail = r.tail
    BY <1>1 DEF Record
  <2> HIDE DEF moved
  <2> QED
    BY <1>3, <1>4, <2>1 DEF Record
<1>6. StartLive(r) = NextFromQueue(new)
  BY <1>3, SetFacts DEF StartLive, AdvanceRequiredCursor
<1>7. RequiredAfter(new) = RequiredAfter(moved)
  BY <1>3, <1>5 DEF RequiredAfter
<1> HIDE DEF new, moved, larger
<1>8. /\ r.queue \in Seq(Ids \ {0}) /\ r.observed \in Nat /\ r.boundary \in Nat
      /\ k \in 0..r.observed /\ r.boundary <= r.observed /\ r.observed <= top /\ r.hand = 0
      /\ k <= r.boundary /\ k = r.position
  BY <1>1, SetFacts, ConstantFacts DEF Ready, PositionOK, Record
<1>9. QueueHolds(c, r.queue, k, r.observed)
  <2>1. QueueHolds(c, r.queue, r.boundary, r.observed)
    BY <1>1 DEF Ready, BufferOK
  <2>2. NoneBetween(c, k, r.boundary)
    BY DEF Ready
  <2>3. ASSUME NEW i \in 1 .. Len(r.queue)
        PROVE  r.queue[i] \in (k + 1)..r.observed /\ Mine(c, r.queue[i])
    BY <1>8, <2>1, <2>3 DEF QueueHolds
  <2>4. ASSUME NEW id \in (k + 1)..r.observed, Mine(c, id)
        PROVE  \E i \in 1 .. Len(r.queue) : r.queue[i] = id
    <3>1. id \in (r.boundary + 1)..r.observed
      <4>1. ~(id <= r.boundary)
        BY <1>8, <2>2, <2>4 DEF NoneBetween
      <4> QED
        BY <1>8, <4>1
    <3> QED
      BY <2>1, <2>4, <3>1 DEF QueueHolds
  <2> QED
    BY <2>1, <2>3, <2>4 DEF QueueHolds
<1>10. Live(c, new, k, top, gone)
  <2>1. Len(r.queue) <= MaximumSubscriberQueueEvents /\ r.pending = r.queue
    BY <1>1 DEF Ready, BufferOK
  <2> QED
    BY <1>5, <1>7, <1>8, <1>9, <2>1 DEF Live
<1> QED
  BY <1>5, <1>6, <1>10, NextServes

LEMMA ReadyContinues ==
    ASSUME RealtimeAssumption, NEW c, NEW r, NEW k, NEW top \in Ids, NEW gone \in Nat,
           Ready(c, r, k, top, gone)
    PROVE  /\ StreamOK(c, ContinueReplay(r), k, top, gone)
           /\ ContinueReplay(r).pc \in Attached
           /\ ContinueReplay(r).boundary = r.boundary
           /\ ContinueReplay(r).observed = r.observed
<1>1. r \in Record /\ r.failure = "none" /\ r.pc \in Replaying
  BY DEF Ready
<1>2. CASE r.replay < r.boundary
  <2> DEFINE new == [r EXCEPT !.pc = "reading"]
  <2>1. ContinueReplay(r) = new
    BY <1>2 DEF ContinueReplay
  <2>2. /\ new \in Record
        /\ new.pc = "reading" /\ new.hand = r.hand /\ new.boundary = r.boundary
        /\ new.position = r.position
        /\ new.observed = r.observed /\ new.required = r.required /\ new.replay = r.replay
        /\ new.queue = r.queue /\ new.pending = r.pending
        /\ new.failure = "none" /\ new.tail = r.tail
    BY <1>1, SetFacts DEF Record
  <2> HIDE DEF new
  <2>3. PositionOK(c, new, k, top, gone)
    <3>1. r.hand = 0
      BY <1>1, SetFacts DEF Ready, PositionOK
    <3> QED
      BY <2>2, <3>1 DEF Ready, PositionOK
  <2>4. ReplayOK(c, new, k, top, gone)
    BY <1>2, <2>2 DEF Ready, ReplayOK
  <2>5. BufferOK(c, new, k)
    BY <1>1, <2>2, SetFacts DEF Ready, BufferOK
  <2>6. new.pc \notin Opening /\ new.pc # "closed" /\ Len(new.queue) <= MaximumSubscriberQueueEvents
    BY <2>2, SetFacts DEF Ready
  <2>7. StreamOK(c, new, k, top, gone)
    BY <2>2, <2>3, <2>4, <2>5, <2>6 DEF StreamOK
  <2> QED
    BY <2>1, <2>2, <2>7, SetFacts
<1>3. CASE ~(r.replay < r.boundary)
  <2>1. r.replay = r.boundary
    <3>1. r.replay \in Nat /\ r.boundary \in Nat /\ r.replay <= r.boundary
      BY <1>1, ConstantFacts DEF Ready, Record
    <3> QED
      BY <1>3, <3>1
  <2>2. ContinueReplay(r) = StartLive(r)
    BY <1>3 DEF ContinueReplay
  <2> QED
    BY <2>1, <2>2, ReadyStartsLive, SetFacts
<1> QED
  BY <1>2, <1>3

LEMMA RequiredIsAnId ==
    ASSUME RealtimeAssumption, NEW s \in Record
    PROVE  RequiredAfter(s) \in Ids
<1>1. s.pending \in Seq(Ids \ {0}) /\ s.observed \in Ids
  BY DEF Record
<1>2. CASE s.pending = <<>>
  BY <1>1, <1>2 DEF RequiredAfter
<1>3. CASE s.pending # <<>>
  <2>1. Head(s.pending) \in Ids \ {0}
    BY <1>1, <1>3, HeadTailProperties
  <2> QED
    BY <1>3, <2>1, ConstantFacts DEF RequiredAfter
<1> QED
  BY <1>2, <1>3

LEMMA AdvanceMovesRequired ==
    ASSUME RealtimeAssumption, NEW s \in Record
    PROVE  LET new == AdvanceRequiredCursor(s) IN
           /\ new \in Record
           /\ new.pc = s.pc /\ new.hand = s.hand /\ new.boundary = s.boundary
           /\ new.position = s.position
           /\ new.observed = s.observed /\ new.replay = s.replay /\ new.bounds = s.bounds
           /\ new.page = s.page /\ new.queue = s.queue /\ new.pending = s.pending
           /\ new.failure = s.failure /\ new.tail = s.tail
           /\ s.pc \in ReplayComplete => new.required = RequiredAfter(s)
           /\ s.pc \notin ReplayComplete => new.required = s.required
<1> DEFINE required == RequiredAfter(s)
<1>1. required \in Ids
  BY RequiredIsAnId
<1>2. CASE s.pc \in ReplayComplete
  <2>1. AdvanceRequiredCursor(s) = [s EXCEPT !.required = required]
    BY <1>2 DEF AdvanceRequiredCursor
  <2> HIDE DEF required
  <2> QED
    BY <1>1, <1>2, <2>1 DEF Record, required
<1>3. CASE s.pc \notin ReplayComplete
  BY <1>3 DEF AdvanceRequiredCursor
<1> QED
  BY <1>2, <1>3

LEMMA FailKeeps ==
    ASSUME RealtimeAssumption, NEW c, NEW r, NEW k, NEW top, NEW gone,
           StreamOK(c, r, k, top, gone), r.pc \in Attached \cup Opening
    PROVE  StreamOK(c, Fail(r), k, top, gone) /\ Fail(r).failure = "error" /\ Fail(r).pc = r.pc
<1> DEFINE new == Fail(r)
<1>1. r \in Record
  BY DEF StreamOK
<1>2. /\ new \in Record
      /\ new.pc = r.pc /\ new.hand = r.hand /\ new.boundary = r.boundary
      /\ new.position = r.position
      /\ new.observed = r.observed /\ new.required = r.required /\ new.replay = r.replay
      /\ new.bounds = r.bounds /\ new.page = r.page /\ new.pending = r.pending
      /\ new.queue = <<>> /\ new.failure = "error" /\ new.tail = r.tail
  <2>1. <<>> \in Seq(Ids \ {0})
    OBVIOUS
  <2>2. new = [r EXCEPT !.failure = "error", !.queue = <<>>]
    BY DEF Fail
  <2> HIDE DEF new
  <2> QED
    BY <1>1, <2>1, <2>2 DEF Record
<1>3. Len(<<>>) <= MaximumSubscriberQueueEvents
  BY ConstantFacts
<1> HIDE DEF new
<1>4. r.pc \in Attached => PositionOK(c, new, k, top, gone)
  BY <1>2 DEF StreamOK, PositionOK
<1>5. r.pc \in Replaying => ReplayOK(c, new, k, top, gone)
  BY <1>2 DEF StreamOK, ReplayOK, PageRead
<1>6. r.pc \in Opening => OpeningOK(new, k, top, gone)
  BY <1>2 DEF StreamOK, OpeningOK
<1>7. StreamOK(c, new, k, top, gone)
  BY <1>2, <1>3, <1>4, <1>5, <1>6, SetFacts DEF StreamOK, Listens
<1> QED
  BY <1>2, <1>7 DEF new

LEMMA ForceResyncKeeps ==
    ASSUME RealtimeAssumption, NEW c, NEW r, NEW k, NEW top \in Ids, NEW gone,
           StreamOK(c, r, k, top, gone), Listens(r), r.observed < gone
    PROVE  /\ StreamOK(c, ForceResync(r, top), k, top, gone)
           /\ ForceResync(r, top).failure = "resync" /\ ForceResync(r, top).pc = r.pc
<1> DEFINE new == ForceResync(r, top)
<1>1. r \in Record
  BY DEF StreamOK
<1>2. /\ new \in Record
      /\ new.pc = r.pc /\ new.hand = r.hand /\ new.boundary = r.boundary
      /\ new.position = r.position
      /\ new.observed = r.observed /\ new.required = r.required /\ new.replay = r.replay
      /\ new.bounds = r.bounds /\ new.page = r.page /\ new.pending = r.pending
      /\ new.queue = <<>> /\ new.failure = "resync" /\ new.tail = top
  <2>1. <<>> \in Seq(Ids \ {0})
    OBVIOUS
  <2>2. new = [r EXCEPT !.failure = "resync", !.tail = top, !.queue = <<>>]
    BY DEF ForceResync
  <2> HIDE DEF new
  <2> QED
    BY <1>1, <2>1, <2>2 DEF Record
<1>3. Len(<<>>) <= MaximumSubscriberQueueEvents
  BY ConstantFacts
<1>4. r.pc \in Attached /\ r.pc # "closed" /\ r.pc \notin Opening
  BY SetFacts DEF Listens
<1> HIDE DEF new
<1>5. PositionOK(c, new, k, top, gone)
  <2>1. top \in r.observed..top
    <3>1. r.observed \in Nat /\ top \in Nat /\ r.observed <= top
      BY <1>1, <1>4, ConstantFacts DEF Record, StreamOK, PositionOK
    <3> QED
      BY <3>1
  <2> QED
    BY <1>2, <1>4, <2>1 DEF StreamOK, PositionOK
<1>6. r.pc \in Replaying => ReplayOK(c, new, k, top, gone)
  BY <1>2 DEF StreamOK, ReplayOK, PageRead
<1>7. StreamOK(c, new, k, top, gone)
  BY <1>2, <1>3, <1>4, <1>5, <1>6 DEF StreamOK, Listens
<1> QED
  BY <1>2, <1>7 DEF new

\* One event of the poll for one subscriber, given in the order of the outbox
LEMMA ObserveServes ==
    ASSUME RealtimeAssumption, NEW c, NEW r, NEW k, NEW top \in Ids, NEW gone,
           NEW id \in 1..top, StreamOK(c, r, k, top, gone), r.pc \in Attached,
           r.failure = "none" => (id <= r.boundary \/ id = r.observed + 1)
    PROVE  LET new == Observe(c, r, id) IN
           /\ StreamOK(c, new, k, top, gone)
           /\ new.pc = r.pc /\ new.boundary = r.boundary
           /\ new.failure = "none" => r.failure = "none"
           /\ new.failure = "none" /\ id <= r.boundary => new.observed = r.observed
           /\ new.failure = "none" /\ ~(id <= r.boundary) => new.observed = id
<1>1. CASE r.failure # "none" \/ id <= r.boundary
  <2>1. Observe(c, r, id) = r
    BY <1>1 DEF Observe
  <2> QED
    BY <1>1, <2>1
<1>2. CASE ~(r.failure # "none" \/ id <= r.boundary)
  <2>1. r \in Record /\ Listens(r) /\ r.failure = "none" /\ ~(id <= r.boundary)
    BY <1>2 DEF StreamOK, Listens
  <2>2. /\ id = r.observed + 1 /\ id - 1 = r.observed /\ id \in Ids \ {0} /\ id \in Nat
        /\ r.observed \in Nat /\ r.boundary \in Nat /\ top \in Nat
    <3>1. r.observed \in Ids /\ r.boundary \in Ids /\ top \in Ids
      BY <2>1 DEF Record
    <3>2. id = r.observed + 1 /\ id \in 1..top
      BY <1>2
    <3> QED
      BY <3>1, <3>2, ConstantFacts
  <2>3. PositionOK(c, r, k, top, gone) /\ BufferOK(c, r, k)
    BY <2>1 DEF StreamOK
  <2>4. k \in 0..r.observed /\ k \in Nat /\ r.boundary <= r.observed
    BY <2>2, <2>3 DEF PositionOK
  <2>5. /\ r.queue \in Seq(Ids \ {0}) /\ r.pending \in Seq(Ids \ {0}) /\ r.hand \in Nat
        /\ Len(r.queue) \in Nat /\ Len(r.queue) <= MaximumSubscriberQueueEvents
    BY <2>1, ConstantFacts DEF Record, StreamOK
  <2>6. r.pc \notin Opening /\ r.pc # "closed"
    BY SetFacts
  <2> DEFINE seen == [r EXCEPT !.observed = id]
  <2>7. CASE ~Mine(c, id)
    <3> DEFINE new == AdvanceRequiredCursor(seen)
    <3>1. Observe(c, r, id) = new
      BY <1>2, <2>7 DEF Observe, Mine
    <3>2. /\ seen \in Record
          /\ seen.pc = r.pc /\ seen.hand = r.hand /\ seen.boundary = r.boundary
          /\ seen.position = r.position
          /\ seen.observed = id /\ seen.required = r.required /\ seen.replay = r.replay
          /\ seen.bounds = r.bounds /\ seen.page = r.page /\ seen.queue = r.queue
          /\ seen.pending = r.pending /\ seen.failure = "none" /\ seen.tail = r.tail
      BY <2>1, <2>2 DEF Record
    <3> HIDE DEF seen
    <3>3. /\ new \in Record
          /\ new.pc = r.pc /\ new.hand = r.hand /\ new.boundary = r.boundary
          /\ new.position = r.position
          /\ new.observed = id /\ new.replay = r.replay
          /\ new.bounds = r.bounds /\ new.page = r.page /\ new.queue = r.queue
          /\ new.pending = r.pending /\ new.failure = "none" /\ new.tail = r.tail
          /\ r.pc \in ReplayComplete => new.required = RequiredAfter(seen)
          /\ r.pc \notin ReplayComplete => new.required = r.required
      BY <3>2, AdvanceMovesRequired
    <3> HIDE DEF new
    <3>4. RequiredAfter(new) = RequiredAfter(seen)
      BY <3>2, <3>3 DEF RequiredAfter
    <3>5. PositionOK(c, new, k, top, gone)
      <4>1. k \in 0..id /\ r.boundary <= id /\ id <= top
        BY <2>2, <2>4
      <4>2. r.hand # 0 => r.hand <= id
        BY <2>2, <2>3, <2>5 DEF PositionOK
      <4> QED
        BY <2>3, <3>3, <4>1, <4>2 DEF PositionOK
    <3>6. r.pc \in Replaying => ReplayOK(c, new, k, top, gone)
      <4>1. ASSUME r.pc \in Replaying PROVE new.required = r.required
        BY <3>3, <4>1, SetFacts
      <4> QED
        BY <3>3, <4>1 DEF StreamOK, ReplayOK, PageRead
    <3>7. BufferOK(c, new, k)
      <4>1. \A low \in Nat : QueueHolds(c, r.queue, low, r.observed)
              => QueueHolds(c, r.queue, low, id)
        BY <2>2, <2>7, QueueSkips
      <4>2. NoneBetween(c, k, r.observed) => NoneBetween(c, k, id)
        BY <2>2, <2>4, <2>7 DEF NoneBetween
      <4>3. r.pc \in ReplayComplete => new.required = RequiredAfter(new)
        BY <3>3, <3>4
      <4> QED
        BY <2>2, <2>3, <2>4, <2>5, <3>3, <4>1, <4>2, <4>3 DEF BufferOK
    <3>8. StreamOK(c, new, k, top, gone)
      BY <2>5, <2>6, <3>3, <3>5, <3>6, <3>7 DEF StreamOK
    <3> QED
      BY <2>1, <3>1, <3>3, <3>8
  <2>8. CASE Mine(c, id)
    <3> DEFINE moved == [seen EXCEPT !.pending = Append(@, id)]
               told == AdvanceRequiredCursor(moved)
               new == Push(told, id)
    <3>1. Observe(c, r, id) = new
      BY <1>2, <2>8 DEF Observe, Mine
    <3>2. Append(r.pending, id) \in Seq(Ids \ {0}) /\ Append(r.pending, id) # <<>>
      BY <2>2, <2>5, Appended
    <3>3. /\ seen \in Record
          /\ seen.pc = r.pc /\ seen.hand = r.hand /\ seen.boundary = r.boundary
          /\ seen.position = r.position
          /\ seen.observed = id /\ seen.required = r.required /\ seen.replay = r.replay
          /\ seen.bounds = r.bounds /\ seen.page = r.page /\ seen.queue = r.queue
          /\ seen.pending = r.pending /\ seen.failure = "none" /\ seen.tail = r.tail
      BY <2>1, <2>2 DEF Record
    <3> HIDE DEF seen
    <3>4. /\ moved \in Record
          /\ moved.pc = r.pc /\ moved.hand = r.hand /\ moved.boundary = r.boundary
          /\ moved.position = r.position
          /\ moved.observed = id /\ moved.required = r.required /\ moved.replay = r.replay
          /\ moved.bounds = r.bounds /\ moved.page = r.page /\ moved.queue = r.queue
          /\ moved.pending = Append(r.pending, id) /\ moved.failure = "none"
          /\ moved.tail = r.tail
      BY <3>2, <3>3 DEF Record
    <3> HIDE DEF moved
    <3>5. /\ told \in Record
          /\ told.pc = r.pc /\ told.hand = r.hand /\ told.boundary = r.boundary
          /\ told.position = r.position
          /\ told.observed = id /\ told.replay = r.replay
          /\ told.bounds = r.bounds /\ told.page = r.page /\ told.queue = r.queue
          /\ told.pending = Append(r.pending, id) /\ told.failure = "none"
          /\ told.tail = r.tail
          /\ r.pc \in ReplayComplete => told.required = RequiredAfter(told)
          /\ r.pc \notin ReplayComplete => told.required = r.required
      <4>1. RequiredAfter(moved) = RequiredAfter(told)
        BY <3>4, AdvanceMovesRequired DEF RequiredAfter
      <4> QED
        BY <3>4, <4>1, AdvanceMovesRequired
    <3> HIDE DEF told
    <3>6. k \in 0..id /\ r.boundary <= id /\ id <= top
      BY <2>2, <2>4
    <3>7. ASSUME r.pc = "waiting", r.hand = 0, r.queue = <<>>
          PROVE  /\ StreamOK(c, new, k, top, gone) /\ new.pc = r.pc
                 /\ new.boundary = r.boundary /\ new.observed = id
      <4>1. /\ new \in Record
            /\ new.pc = "waiting" /\ new.hand = id /\ new.boundary = r.boundary
            /\ new.position = r.position
            /\ new.observed = id /\ new.required = told.required /\ new.queue = <<>>
            /\ new.pending = Append(r.pending, id) /\ new.failure = "none"
            /\ new.tail = r.tail
        <5>1. new = [told EXCEPT !.hand = id]
          BY <3>5, <3>7 DEF Push
        <5> HIDE DEF new
        <5> QED
          BY <2>2, <3>5, <3>7, <5>1 DEF Record
      <4> HIDE DEF new
      <4>2. NoneBetween(c, k, r.observed) /\ r.pending = <<>>
        BY <2>3, <3>7 DEF BufferOK
      <4>3. Comes(c, k, id)
        BY <2>2, <2>4, <2>8, <4>2 DEF Comes
      <4>4. PositionOK(c, new, k, top, gone)
        BY <2>2, <2>3, <3>2, <3>6, <4>1, <4>3 DEF PositionOK
      <4>5. BufferOK(c, new, k)
        <5>1. QueueHolds(c, <<>>, id, id)
          BY <2>2, EmptyQueue
        <5>2. Append(r.pending, id) = <<id>> \o <<>>
          BY <4>2
        <5>3. new.required = RequiredAfter(new)
          BY <3>5, <3>7, <4>1, SetFacts DEF RequiredAfter
        <5> QED
          BY <2>2, <4>1, <5>1, <5>2, <5>3, SetFacts DEF BufferOK
      <4>6. "waiting" \notin Replaying
        BY SetFacts
      <4>7. StreamOK(c, new, k, top, gone)
        BY <2>5, <2>6, <3>7, <4>1, <4>4, <4>5, <4>6 DEF StreamOK
      <4> QED
        BY <3>7, <4>1, <4>7
    <3>8. ASSUME ~(r.pc = "waiting" /\ r.hand = 0 /\ r.queue = <<>>),
                 Len(r.queue) < MaximumSubscriberQueueEvents
          PROVE  /\ StreamOK(c, new, k, top, gone) /\ new.pc = r.pc
                 /\ new.boundary = r.boundary /\ new.observed = id
      <4>1. /\ new \in Record
            /\ new.pc = r.pc /\ new.hand = r.hand /\ new.boundary = r.boundary
            /\ new.position = r.position
            /\ new.observed = id /\ new.required = told.required /\ new.replay = r.replay
            /\ new.bounds = r.bounds /\ new.page = r.page
            /\ new.queue = Append(r.queue, id)
            /\ new.pending = Append(r.pending, id) /\ new.failure = "none"
            /\ new.tail = r.tail
        <5>1. ~(Len(told.queue) >= MaximumSubscriberQueueEvents)
          BY <2>5, <3>5, <3>8, ConstantFacts
        <5>2. new = [told EXCEPT !.queue = Append(@, id)]
          BY <3>5, <3>8, <5>1 DEF Push
        <5>3. Append(r.queue, id) \in Seq(Ids \ {0})
          BY <2>2, <2>5, Appended
        <5> HIDE DEF new
        <5> QED
          BY <3>5, <5>2, <5>3 DEF Record
      <4> HIDE DEF new
      <4>2. PositionOK(c, new, k, top, gone)
        <5>1. r.hand # 0 => r.hand <= id
          BY <2>2, <2>3, <2>5 DEF PositionOK
        <5> QED
          BY <2>3, <3>2, <3>6, <4>1, <5>1 DEF PositionOK
      <4>3. r.pc \in Replaying => ReplayOK(c, new, k, top, gone)
        <5>1. ASSUME r.pc \in Replaying PROVE new.required = r.required
          BY <3>5, <4>1, <5>1, SetFacts
        <5> QED
          BY <4>1, <5>1 DEF StreamOK, ReplayOK, PageRead
      <4>4. BufferOK(c, new, k)
        <5>1. ASSUME NEW low \in Nat, low <= r.observed, QueueHolds(c, r.queue, low, r.observed)
              PROVE  QueueHolds(c, Append(r.queue, id), low, id)
          BY <2>2, <2>5, <2>8, <5>1, QueueGrows
        <5>2. ASSUME NEW first \in Ids \ {0}, r.pending = <<first>> \o r.queue
              PROVE  Append(r.pending, id) = <<first>> \o Append(r.queue, id)
          <6>1. Append(<<first>> \o r.queue, id) = <<first>> \o Append(r.queue, id)
            <7>1. first \in Nat /\ r.queue \in Seq(Nat) /\ id \in Nat
              BY <2>2, <2>5, ConstantFacts
            <7> QED
              BY <7>1, PrependedThenAppended
          <6> QED
            BY <5>2, <6>1
        <5>3. r.pc \in ReplayComplete => new.required = RequiredAfter(new)
          BY <3>5, <4>1 DEF RequiredAfter
        <5>4. ASSUME r.pc \in Replaying
              PROVE  QueueHolds(c, new.queue, new.boundary, new.observed)
                     /\ new.pending = new.queue
          BY <2>2, <2>3, <2>4, <4>1, <5>1, <5>4 DEF BufferOK
        <5>5. ~(r.pc = "waiting" /\ r.hand = 0)
          BY <2>3, <3>8 DEF BufferOK
        <5>6. ASSUME r.pc = "waiting", r.hand # 0
              PROVE  QueueHolds(c, new.queue, new.hand, new.observed)
                     /\ new.pending = <<new.hand>> \o new.queue
          <6>1. r.hand \in Ids \ {0} /\ r.hand <= r.observed
            BY <2>1, <2>3, <5>6 DEF Record, PositionOK
          <6> QED
            BY <2>3, <2>5, <4>1, <5>1, <5>2, <5>6, <6>1 DEF BufferOK
        <5>7. ASSUME r.pc = "yielded"
              PROVE  QueueHolds(c, new.queue, k, new.observed)
                     /\ new.pending = <<k>> \o new.queue
          <6>1. r.pending = <<k>> \o r.queue /\ QueueHolds(c, r.queue, k, r.observed)
            BY <2>3, <5>7 DEF BufferOK
          <6>2. Append(r.pending, id) = <<k>> \o Append(r.queue, id)
            <7>1. k \in Nat
              BY <2>4
            <7>2. r.queue \in Seq(Nat) /\ id \in Nat
              BY <2>2, <2>5, ConstantFacts
            <7> QED
              BY <6>1, <7>1, <7>2, Prepended
          <6> QED
            BY <2>4, <4>1, <5>1, <6>1, <6>2
        <5> QED
          BY <4>1, <5>3, <5>4, <5>5, <5>6, <5>7 DEF BufferOK
      <4>5. Len(new.queue) <= MaximumSubscriberQueueEvents
        BY <2>2, <2>5, <3>8, <4>1, Appended, ConstantFacts
      <4>6. StreamOK(c, new, k, top, gone)
        BY <2>6, <4>1, <4>2, <4>3, <4>4, <4>5 DEF StreamOK
      <4> QED
        BY <4>1, <4>6
    <3>9. ASSUME ~(r.pc = "waiting" /\ r.hand = 0 /\ r.queue = <<>>),
                 ~(Len(r.queue) < MaximumSubscriberQueueEvents)
          PROVE  /\ StreamOK(c, new, k, top, gone) /\ new.pc = r.pc
                 /\ new.boundary = r.boundary /\ new.failure = "error"
      <4>1. /\ new \in Record
            /\ new.pc = r.pc /\ new.hand = r.hand /\ new.boundary = r.boundary
            /\ new.position = r.position
            /\ new.observed = id /\ new.required = told.required /\ new.replay = r.replay
            /\ new.bounds = r.bounds /\ new.page = r.page
            /\ new.queue = <<>> /\ new.pending = Append(r.pending, id)
            /\ new.failure = "error" /\ new.tail = r.tail
        <5>1. Len(told.queue) >= MaximumSubscriberQueueEvents
          BY <2>5, <3>5, <3>9, ConstantFacts
        <5>2. new = [told EXCEPT !.failure = "error", !.queue = <<>>]
          BY <3>5, <3>9, <5>1 DEF Push, Fail
        <5>3. <<>> \in Seq(Ids \ {0})
          OBVIOUS
        <5> HIDE DEF new
        <5> QED
          BY <3>5, <5>2, <5>3 DEF Record
      <4> HIDE DEF new
      <4>2. PositionOK(c, new, k, top, gone)
        <5>1. r.hand # 0 => r.hand <= id
          BY <2>2, <2>3, <2>5 DEF PositionOK
        <5> QED
          BY <2>3, <3>2, <3>6, <4>1, <5>1 DEF PositionOK
      <4>3. r.pc \in Replaying => ReplayOK(c, new, k, top, gone)
        <5>1. ASSUME r.pc \in Replaying PROVE new.required = r.required
          BY <3>5, <4>1, <5>1, SetFacts
        <5> QED
          BY <4>1, <5>1 DEF StreamOK, ReplayOK, PageRead
      <4>4. Len(new.queue) <= MaximumSubscriberQueueEvents
        BY <4>1, ConstantFacts
      <4>5. StreamOK(c, new, k, top, gone)
        BY <2>6, <4>1, <4>2, <4>3, <4>4 DEF StreamOK, Listens
      <4> QED
        BY <4>1, <4>5
    <3> HIDE DEF new
    <3> QED
      BY <2>1, <3>1, <3>7, <3>8, <3>9
  <2> QED
    BY <2>7, <2>8
<1> QED
  BY <1>1, <1>2

-----------------------------------------------------------------------------
(* The poll                                                                  *)

\* The record after one more id of the page, by the records before
RecordAfter(before, c, floor, page, id) ==
    IF id = floor THEN stream[c]
    ELSE IF id \in page THEN Observe(c, before[id - 1], id)
    ELSE before[id - 1]

\* The function Observed exists: the least id at which it did not could be added to
\* the function through the id before.
LEMMA ObservedIsDefined ==
    ASSUME NEW c, NEW floor \in Nat, NEW page, issued \in Nat, floor <= issued
    PROVE  LET after == Observed(c, floor, page) IN
           /\ after[floor] = stream[c]
           /\ \A id \in (floor + 1)..issued :
                /\ id \in page => after[id] = Observe(c, after[id - 1], id)
                /\ id \notin page => after[id] = after[id - 1]
<1> DEFINE Defined(n) ==
             \E f : f = [id \in floor..n |-> RecordAfter(f, c, floor, page, id)]
           undefined == {n \in floor..issued : ~Defined(n)}
<1>1. undefined = {}
  <2>1. SUFFICES ASSUME undefined # {} PROVE FALSE
    OBVIOUS
  <2>2. undefined \subseteq Nat
    OBVIOUS
  <2>3. PICK n \in undefined : \A other \in undefined : n <= other
    BY <2>1, <2>2, LeastNatural
  <2>4. n \in floor..issued /\ n \in Nat /\ ~Defined(n)
    OBVIOUS
  <2>5. CASE n = floor
    <3> DEFINE g == [id \in floor..n |-> stream[c]]
    <3>1. ASSUME NEW id \in floor..n PROVE stream[c] = RecordAfter(g, c, floor, page, id)
      <4>1. id = floor
        BY <2>5, <3>1
      <4> QED
        BY <4>1 DEF RecordAfter
    <3>2. g = [id \in floor..n |-> RecordAfter(g, c, floor, page, id)]
      BY <3>1
    <3>3. Defined(n)
      BY <3>2
    <3> QED
      BY <2>4, <3>3
  <2>6. CASE n # floor
    <3>1. n - 1 \in floor..issued /\ n - 1 < n /\ ~(n <= n - 1)
      BY <2>4, <2>6
    <3>2. Defined(n - 1)
      BY <2>3, <3>1
    <3>3. PICK f : f = [id \in floor..(n - 1) |-> RecordAfter(f, c, floor, page, id)]
      BY <3>2
    <3> DEFINE g == [id \in floor..n |-> IF id < n THEN f[id] ELSE RecordAfter(f, c, floor, page, n)]
    <3>4. \A id \in floor..(n - 1) : g[id] = f[id] /\ f[id] = RecordAfter(f, c, floor, page, id)
      <4>1. \A id \in floor..(n - 1) : id \in floor..n /\ id < n
        BY <2>4
      <4>2. \A id \in floor..(n - 1) : g[id] = f[id]
        BY <4>1
      <4> HIDE DEF g
      <4> QED
        BY <3>3, <4>2
    <3>5. ASSUME NEW id \in floor..n PROVE g[id] = RecordAfter(g, c, floor, page, id)
      <4>1. id = floor \/ id - 1 \in floor..(n - 1)
        BY <2>4
      <4>2. RecordAfter(g, c, floor, page, id) = RecordAfter(f, c, floor, page, id)
        <5>1. CASE id = floor
          BY <5>1 DEF RecordAfter
        <5>2. CASE id - 1 \in floor..(n - 1)
          <6>1. g[id - 1] = f[id - 1]
            BY <3>4, <5>2
          <6> HIDE DEF g
          <6> QED
            BY <6>1 DEF RecordAfter
        <5> QED
          BY <4>1, <5>1, <5>2
      <4>3. CASE id < n
        <5>1. id \in floor..(n - 1)
          BY <2>4, <4>3
        <5> HIDE DEF g
        <5> QED
          BY <3>4, <4>2, <5>1
      <4>4. CASE ~(id < n)
        <5>1. id = n
          BY <2>4, <4>4
        <5>2. g[id] = RecordAfter(f, c, floor, page, n)
          BY <4>4
        <5> HIDE DEF g
        <5> QED
          BY <4>2, <5>1, <5>2
      <4> QED
        BY <4>3, <4>4
    <3>6. g = [id \in floor..n |-> g[id]]
      OBVIOUS
    <3> HIDE DEF g
    <3>7. g = [id \in floor..n |-> RecordAfter(g, c, floor, page, id)]
      BY <3>5, <3>6
    <3>8. Defined(n)
      BY <3>7
    <3> QED
      BY <2>4, <3>8
  <2> QED
    BY <2>5, <2>6
<1>2. Defined(issued)
  <2>1. issued \in floor..issued
    OBVIOUS
  <2> QED
    BY <1>1, <2>1
<1> DEFINE after == Observed(c, floor, page)
<1>3. after = [id \in floor..issued |-> RecordAfter(after, c, floor, page, id)]
  <2>1. \E f : f = [id \in floor..issued |-> RecordAfter(f, c, floor, page, id)]
    BY <1>2
  <2> HIDE DEF Defined, undefined
  <2>2. after = CHOOSE f : f = [id \in floor..issued |->
                               IF id = floor THEN stream[c]
                               ELSE IF id \in page THEN Observe(c, f[id - 1], id)
                               ELSE f[id - 1]]
    BY DEF Observed
  <2> HIDE DEF after
  <2> QED
    BY <2>1, <2>2 DEF RecordAfter
<1> HIDE DEF after
<1>4. \A id \in floor..issued : after[id] = RecordAfter(after, c, floor, page, id)
  BY <1>3
<1>5. after[floor] = stream[c]
  <2>1. floor \in floor..issued
    OBVIOUS
  <2> QED
    BY <1>4, <2>1 DEF RecordAfter
<1>6. ASSUME NEW id \in (floor + 1)..issued
      PROVE  /\ id \in page => after[id] = Observe(c, after[id - 1], id)
             /\ id \notin page => after[id] = after[id - 1]
  <2>1. id \in floor..issued /\ id # floor
    OBVIOUS
  <2> QED
    BY <1>4, <2>1 DEF RecordAfter
<1> QED
  BY <1>5, <1>6 DEF after

\* A page without gaps, event by event
LEMMA ObservedServes ==
    ASSUME RealtimeInv, NEW c \in Clients, Listens(stream[c]),
           NEW floor \in 0..issued, NEW last \in floor..issued, NEW page,
           page = (floor + 1)..last, PumpAgrees(stream[c], floor)
    PROVE  LET new == Observed(c, floor, page)[issued] IN
           /\ StreamOK(c, new, StandsAt(c), issued, pruned)
           /\ new.pc = stream[c].pc
           /\ new.failure = "none" => PumpAgrees(new, last)
<1> DEFINE after == Observed(c, floor, page)
           r == stream[c]
           Good(s, n) == /\ StreamOK(c, s, StandsAt(c), issued, pruned)
                         /\ s.pc = r.pc /\ s.boundary = r.boundary
                         /\ s.failure = "none" => PumpAgrees(s, n)
           Reached(id) == IF id <= last THEN id ELSE last
           bad == {id \in floor..issued : ~Good(after[id], Reached(id))}
<1>1. issued \in Ids /\ issued \in Nat /\ floor \in Nat /\ last \in Nat /\ pruned \in Nat
      /\ RealtimeAssumption
  BY ConstantFacts DEF RealtimeInv
<1>2. /\ after[floor] = r
      /\ \A id \in (floor + 1)..issued :
           /\ id \in page => after[id] = Observe(c, after[id - 1], id)
           /\ id \notin page => after[id] = after[id - 1]
  <2>1. floor <= issued
    BY <1>1
  <2> QED
    BY <1>1, <2>1, ObservedIsDefined
<1>3. r.pc \in Attached /\ StreamOK(c, r, StandsAt(c), issued, pruned)
  BY DEF RealtimeInv, Listens
<1> HIDE DEF after, r
<1>4. bad = {}
  <2>1. SUFFICES ASSUME bad # {} PROVE FALSE
    OBVIOUS
  <2>2. PICK id \in bad : \A other \in bad : id <= other
    <3>1. bad \subseteq Nat
      BY <1>1
    <3> QED
      BY <2>1, <3>1, LeastNatural
  <2>3. id \in floor..issued /\ ~Good(after[id], Reached(id))
    BY <2>2
  <2>4. id # floor
    <3>1. ASSUME id = floor PROVE FALSE
      <4>1. Reached(id) = floor /\ after[id] = r
        BY <1>1, <1>2, <3>1
      <4>2. Good(r, floor)
        BY <1>3 DEF r
      <4> QED
        BY <2>3, <4>1, <4>2
    <3> QED
      BY <3>1
  <2>5. id \in (floor + 1)..issued /\ id - 1 \in floor..issued /\ id \in 1..issued
        /\ id - 1 < id
    BY <1>1, <2>3, <2>4
  <2>6. Good(after[id - 1], Reached(id - 1))
    <3>1. ~(id <= id - 1)
      BY <2>5
    <3> QED
      BY <2>2, <2>5, <3>1
  <2> DEFINE before == after[id - 1]
  <2>7. /\ StreamOK(c, before, StandsAt(c), issued, pruned)
        /\ before.pc = r.pc /\ before.boundary = r.boundary /\ before.pc \in Attached
        /\ before.failure = "none" => PumpAgrees(before, Reached(id - 1))
    BY <1>3, <2>6
  <2>8. before.observed \in Nat /\ before.boundary \in Nat
        /\ before.boundary <= before.observed
    <3>1. before \in Record /\ PositionOK(c, before, StandsAt(c), issued, pruned)
      BY <2>7 DEF StreamOK
    <3> QED
      BY <1>1, <3>1, ConstantFacts DEF Record, PositionOK
  <2> HIDE DEF before
  <2>9. CASE id <= last
    <3>1. id \in page /\ Reached(id - 1) = id - 1 /\ Reached(id) = id
      BY <1>1, <2>5, <2>9
    <3>2. after[id] = Observe(c, before, id)
      BY <1>2, <2>5, <3>1 DEF before
    <3>3. before.failure = "none" =>
            /\ id - 1 <= before.observed
            /\ before.observed = before.boundary \/ before.observed = id - 1
      BY <2>7, <3>1 DEF PumpAgrees
    <3>4. before.failure = "none" => (id <= before.boundary \/ id = before.observed + 1)
      BY <1>1, <2>5, <2>8, <3>3
    <3> DEFINE new == Observe(c, before, id)
    <3>5. /\ StreamOK(c, new, StandsAt(c), issued, pruned)
          /\ new.pc = before.pc /\ new.boundary = before.boundary
          /\ new.failure = "none" => before.failure = "none"
          /\ new.failure = "none" /\ id <= before.boundary => new.observed = before.observed
          /\ new.failure = "none" /\ ~(id <= before.boundary) => new.observed = id
      <4> HIDE DEF new
      <4> QED
        BY <1>1, <2>5, <2>7, <3>4, ObserveServes DEF new
    <3> HIDE DEF new
    <3>6. ASSUME new.failure = "none" PROVE PumpAgrees(new, id)
      <4>1. CASE id <= before.boundary
        <5>1. new.observed = before.observed /\ new.boundary = before.boundary
              /\ (before.observed = before.boundary \/ before.observed = id - 1)
          BY <3>3, <3>5, <3>6, <4>1
        <5> QED
          BY <1>1, <2>5, <2>8, <4>1, <5>1 DEF PumpAgrees
      <4>2. CASE ~(id <= before.boundary)
        <5>1. new.observed = id
          BY <3>5, <3>6, <4>2
        <5> QED
          BY <1>1, <2>5, <5>1 DEF PumpAgrees
      <4> QED
        BY <4>1, <4>2
    <3>7. Good(new, id)
      BY <2>7, <3>5, <3>6
    <3> QED
      BY <2>3, <3>1, <3>2, <3>7 DEF new
  <2>10. CASE ~(id <= last)
    <3>1. id \notin page /\ Reached(id) = last /\ Reached(id - 1) = last
      BY <1>1, <2>5, <2>10
    <3>2. after[id] = after[id - 1]
      BY <1>2, <2>5, <3>1
    <3> QED
      BY <2>3, <2>6, <3>1, <3>2
  <2> QED
    BY <2>9, <2>10
<1>5. Good(after[issued], Reached(issued)) /\ Reached(issued) = last
  <2>1. issued \in floor..issued /\ Reached(issued) = last
    BY <1>1
  <2>2. issued \notin bad
    BY <1>4
  <2> QED
    BY <2>1, <2>2
<1> QED
  BY <1>5 DEF after, r

\* The floor of the poll is where its slowest subscribers are.
LEMMA SlowestSubscriber ==
    ASSUME RealtimeInv, NEW clients, clients \subseteq Subscribers, clients # {}
    PROVE  /\ SmallestObserved(clients) \in 0..issued /\ SmallestObserved(clients) \in Nat
           /\ \E c \in clients : stream[c].observed = SmallestObserved(clients)
           /\ \A c \in clients : SmallestObserved(clients) <= stream[c].observed
           /\ pollCursor <= SmallestObserved(clients)
<1> DEFINE positions == {stream[c].observed : c \in clients}
           smallest == SmallestObserved(clients)
<1>1. ASSUME NEW c \in clients
      PROVE  stream[c].observed \in Nat /\ stream[c].observed <= issued
             /\ pollCursor <= stream[c].observed
  <2>1. c \in Clients /\ Listens(stream[c])
    BY DEF Subscribers, Listens
  <2>2. /\ StreamOK(c, stream[c], StandsAt(c), issued, pruned)
        /\ PumpAgrees(stream[c], pollCursor) /\ RealtimeAssumption
    BY <2>1 DEF RealtimeInv
  <2> QED
    BY <2>1, <2>2, ConstantFacts DEF StreamOK, Record, PositionOK, Listens, PumpAgrees
<1>2. positions \subseteq Nat /\ positions # {}
  BY <1>1
<1>3. smallest = Min(positions)
  BY DEF SmallestObserved
<1>4. smallest \in positions /\ \A n \in positions : smallest <= n
  <2> HIDE DEF positions, smallest
  <2> QED
    BY <1>2, <1>3, MinProperties
<1> HIDE DEF smallest
<1>5. PICK c \in clients : stream[c].observed = smallest
  BY <1>4
<1>6. smallest \in Nat /\ smallest <= issued /\ pollCursor <= smallest
  BY <1>1, <1>5
<1>7. issued \in Nat
  BY ConstantFacts DEF RealtimeInv
<1> QED
  BY <1>4, <1>5, <1>6, <1>7 DEF smallest

LEMMA FloorFacts ==
    ASSUME RealtimeInv, Subscribers # {}
    PROVE  /\ ActiveFloor \in 0..issued /\ ActiveFloor \in Nat
           /\ \E c \in Subscribers : stream[c].observed = ActiveFloor
           /\ \A c \in Subscribers : ActiveFloor <= stream[c].observed
           /\ pollCursor <= ActiveFloor
<1> DEFINE smallest == SmallestObserved(Subscribers)
<1>1. /\ smallest \in 0..issued /\ smallest \in Nat
      /\ \E c \in Subscribers : stream[c].observed = smallest
      /\ \A c \in Subscribers : smallest <= stream[c].observed
      /\ pollCursor <= smallest
  BY SlowestSubscriber
<1>2. pollCursor \in Nat
  BY DEF RealtimeInv
<1> HIDE DEF smallest
<1>3. ActiveFloor = smallest
  <2>1. ActiveFloor = Larger(pollCursor, smallest)
    BY DEF ActiveFloor, smallest
  <2> QED
    BY <1>1, <1>2, <2>1 DEF Larger
<1> QED
  BY <1>1, <1>3

\* Within retention a page has no gap, and an empty page means that the poll has caught
\* up: the branch that forces a resync after one (eventPumpPolling.ts:148) is not taken.
LEMMA PageIsContiguous ==
    ASSUME RealtimeInv, NEW floor \in 0..issued, ~CursorIsOutsideRetention(floor, Bounds),
           NEW page, page = Page(floor, issued, EveryTopic),
           NEW last, page = {} => last = floor, page # {} => last = Max(page)
    PROVE  /\ last \in floor..issued /\ page = (floor + 1)..last
           /\ page = {} => floor = issued
<1> DEFINE rows == Rows(floor, issued, EveryTopic)
<1>1. /\ issued \in Ids /\ issued \in Nat /\ floor \in Nat /\ pruned \in Nat
      /\ pruned <= issued /\ floor <= issued
      /\ RealtimeAssumption /\ MaximumPageEvents \in Nat \ {0}
  BY ConstantFacts DEF RealtimeInv
<1>2. pruned <= floor
  BY <1>1 DEF CursorIsOutsideRetention, Bounds
<1>3. rows = (floor + 1)..issued
  <2>1. ASSUME NEW id \in (floor + 1)..issued PROVE id > pruned /\ TopicAt[id] \in EveryTopic
    <3>1. id \in DOMAIN TopicAt
      BY <1>1 DEF RealtimeAssumption, Ids
    <3> QED
      BY <1>1, <1>2, <3>1 DEF EveryTopic
  <2> QED
    BY <2>1 DEF Rows
<1>4. /\ page \subseteq rows
      /\ \A id \in rows : \/ id \in page
                          \/ /\ Cardinality(page) >= MaximumPageEvents
                             /\ \A other \in page : other < id
  BY <1>1, PageProperties
<1> HIDE DEF rows
<1>5. CASE page = {}
  <2>1. rows = {}
    <3>1. ASSUME NEW id \in rows PROVE FALSE
      <4>1. Cardinality({}) >= MaximumPageEvents
        BY <1>4, <1>5, <3>1
      <4> QED
        BY <1>1, <4>1, FS_EmptySet
    <3> QED
      BY <3>1
  <2> QED
    BY <1>1, <1>3, <1>5, <2>1
<1>6. CASE page # {}
  <2>1. page \subseteq Nat /\ \A id \in page : id <= issued
    BY <1>1, <1>3, <1>4
  <2>2. last \in page /\ \A id \in page : id <= last
    BY <1>1, <1>6, <2>1, MaxProperties
  <2>3. last \in Nat /\ floor < last /\ last <= issued
    BY <1>1, <1>3, <1>4, <2>2
  <2>4. ASSUME NEW id \in (floor + 1)..last PROVE id \in page
    <3>1. id \in rows /\ ~(last < id)
      BY <1>1, <1>3, <2>3
    <3> QED
      BY <1>4, <2>2, <3>1
  <2>5. ASSUME NEW id \in page PROVE id \in (floor + 1)..last
    BY <1>1, <1>3, <1>4, <2>2, <2>3
  <2>6. page = (floor + 1)..last
    BY <2>4, <2>5
  <2> QED
    BY <1>1, <2>3, <2>6
<1> QED
  BY <1>5, <1>6

-----------------------------------------------------------------------------
(* Every action keeps the invariant.                                         *)

\* Rows only come and go: what is said of a stream stays true.
LEMMA RowsComeAndGo ==
    ASSUME NEW c, NEW r, NEW k, NEW top \in Nat, NEW gone \in Nat,
           NEW newTop \in Nat, NEW newGone \in Nat, top <= newTop, gone <= newGone,
           RealtimeAssumption, StreamOK(c, r, k, top, gone), k \in NoCursor..top
    PROVE  StreamOK(c, r, k, newTop, newGone)
<1>1. r \in Record
  BY DEF StreamOK
<1>2. /\ r.observed \in Nat /\ r.boundary \in Nat /\ r.tail \in Nat
      /\ r.bounds.latest \in Nat /\ r.bounds.pruned \in Nat /\ k \in Int
  BY <1>1, ConstantFacts, SMTT(30) DEF Record, NoCursor
<1>3. r.pc \in Opening => OpeningOK(r, k, newTop, newGone)
  BY <1>2 DEF StreamOK, OpeningOK
<1>4. r.pc \in Attached => PositionOK(c, r, k, newTop, newGone)
  BY <1>2 DEF StreamOK, PositionOK
<1>5. r.pc \in Replaying => ReplayOK(c, r, k, newTop, newGone)
  <2>1. PageRead(c, r, top, gone) => PageRead(c, r, newTop, newGone)
    BY <1>2 DEF PageRead
  <2> QED
    BY <2>1 DEF StreamOK, ReplayOK
<1> QED
  BY <1>3, <1>4, <1>5 DEF StreamOK

LEMMA NumberFacts ==
    ASSUME RealtimeInv
    PROVE  /\ RealtimeAssumption /\ MaximumIssued \in Nat /\ Ids = 0..MaximumIssued
           /\ issued \in Ids /\ issued \in Nat /\ pruned \in Nat /\ pruned <= issued
           /\ pollCursor \in Nat /\ latestIssuedId \in Nat
           /\ pollCursor \in Ids /\ latestIssuedId \in Ids
           /\ pollCursor <= issued /\ latestIssuedId <= issued
           /\ pruned \in Ids
<1>1. RealtimeAssumption /\ issued \in Ids /\ pruned \in 0..issued
      /\ pollCursor \in 0..issued /\ latestIssuedId \in 0..issued
  BY DEF RealtimeInv
<1>2. MaximumIssued \in Nat /\ Ids = 0..MaximumIssued
  BY <1>1, ConstantFacts
<1> QED
  BY <1>1, <1>2

LEMMA ClosedIsFine ==
    ASSUME RealtimeAssumption
    PROVE  /\ Closed \in Record /\ ~Listens(Closed)
           /\ \A c, k, top, gone : StreamOK(c, Closed, k, top, gone)
<1>1. 0 \in Ids /\ <<>> \in Seq(Ids \ {0}) /\ Len(<<>>) = 0
  BY ConstantFacts
<1>2. Closed \in Record
  BY <1>1 DEF Closed, Record
<1>3. Closed.pc = "closed" /\ Closed.queue = <<>>
  BY DEF Closed
<1>4. Len(Closed.queue) <= MaximumSubscriberQueueEvents
  BY <1>1, <1>3, ConstantFacts
<1>5. Closed.pc \notin Opening /\ Closed.pc \notin Attached /\ Closed.pc \notin Replaying
  BY <1>3, SetFacts
<1> QED
  BY <1>2, <1>3, <1>4, <1>5 DEF StreamOK, Listens

\* A stream that is attached stands at its position.
LEMMA StandsWithinOutbox ==
    ASSUME RealtimeInv, NEW c \in Clients
    PROVE  /\ StandsAt(c) \in NoCursor..issued
           /\ stream[c].pc \in Attached => StandsAt(c) = stream[c].position /\ StandsAt(c) \in Nat
           /\ stream[c].pc \notin Attached => StandsAt(c) = cursor[c]
<1>1. StreamOK(c, stream[c], StandsAt(c), issued, pruned) /\ cursor[c] \in NoCursor..issued
  BY DEF RealtimeInv
<1>2. CASE stream[c].pc \in Attached
  <2>1. /\ StandsAt(c) \in 0..stream[c].observed /\ stream[c].observed <= issued
        /\ stream[c].observed \in Nat /\ StandsAt(c) = stream[c].position
    BY <1>1, <1>2, NumberFacts DEF StreamOK, PositionOK, Record
  <2> QED
    BY <1>2, <2>1, NumberFacts DEF NoCursor
<1>3. CASE stream[c].pc \notin Attached
  BY <1>1, <1>3 DEF StandsAt
<1> QED
  BY <1>2, <1>3

\* A poll leaves every stream where it stands.
LEMMA PolledStreamsStand ==
    ASSUME RealtimeInv, cursor' = cursor,
           \A c \in Clients : /\ stream'[c].pc = stream[c].pc
                              /\ StreamOK(c, stream'[c], StandsAt(c), issued, pruned)
    PROVE  (\A c \in Clients : StandsAt(c)' = StandsAt(c)) /\ FeedPosition' = FeedPosition
<1>1. ASSUME NEW c \in Clients, stream[c].pc \in Attached
      PROVE  stream'[c].position = stream[c].position
  <2>1. stream'[c].position = StandsAt(c) /\ stream[c].position = StandsAt(c)
    BY <1>1, StandsWithinOutbox DEF StreamOK, PositionOK
  <2> QED
    BY <2>1
<1>2. ASSUME NEW c \in Clients PROVE StandsAt(c)' = StandsAt(c)
  BY <1>1 DEF StandsAt
<1>3. FeedPosition' = FeedPosition
  BY <1>1 DEF FeedPosition
<1> QED
  BY <1>2, <1>3

\* A step of one stream
LEMMA OneStreamPlaced ==
    ASSUME RealtimeInv, NEW c \in Clients, NEW r, stream' = [stream EXCEPT ![c] = r]
    PROVE  /\ r.pc \in Attached => FeedPosition' = [FeedPosition EXCEPT ![c] = r.position]
           /\ r.pc \notin Attached => FeedPosition' = [FeedPosition EXCEPT ![c] = NoStream]
<1> DEFINE Place(s) == IF s.pc \in Attached THEN s.position ELSE NoStream
<1>1. /\ Place(stream'[c]) = Place(r)
      /\ \A other \in Clients \ {c} : Place(stream'[other]) = Place(stream[other])
  BY DEF RealtimeInv
<1>2. /\ FeedPosition = [other \in Clients |-> Place(stream[other])]
      /\ FeedPosition' = [other \in Clients |-> Place(stream'[other])]
  BY DEF FeedPosition
<1>3. /\ r.pc \in Attached => Place(r) = r.position
      /\ r.pc \notin Attached => Place(r) = NoStream
  OBVIOUS
<1> HIDE DEF Place
<1> QED
  BY <1>1, <1>2, <1>3

LEMMA OneStreamMoves ==
    ASSUME RealtimeInv, NEW c \in Clients, NEW r, NEW k \in NoCursor..issued,
           UNCHANGED database,
           stream' = [stream EXCEPT ![c] = r], cursor' = [cursor EXCEPT ![c] = k],
           pollCursor' \in 0..issued, latestIssuedId' \in 0..issued,
           r.pc \in Attached => StreamOK(c, r, r.position, issued, pruned),
           r.pc \notin Attached => StreamOK(c, r, k, issued, pruned),
           Listens(r) => PumpAgrees(r, pollCursor'),
           \A other \in Clients \ {c} :
             Listens(stream[other]) => PumpAgrees(stream[other], pollCursor')
    PROVE  RealtimeInv'
<1>1. issued' = issued /\ pruned' = pruned
  BY DEF database
<1>2. stream \in [Clients -> Record] /\ cursor \in [Clients -> NoCursor..issued]
  BY DEF RealtimeInv
<1>3. r \in Record
  BY DEF StreamOK
<1>4. /\ stream'[c] = r /\ cursor'[c] = k
      /\ \A other \in Clients \ {c} :
           stream'[other] = stream[other] /\ cursor'[other] = cursor[other]
  BY <1>2
<1>5. stream' \in [Clients -> Record] /\ cursor' \in [Clients -> NoCursor..issued]
  BY <1>2, <1>3
<1>6. ASSUME NEW other \in Clients
      PROVE  /\ StreamOK(other, stream'[other], StandsAt(other)', issued, pruned)
             /\ Listens(stream'[other]) => PumpAgrees(stream'[other], pollCursor')
  <2>1. CASE other = c
    <3>1. /\ r.pc \in Attached => StandsAt(other)' = r.position
          /\ r.pc \notin Attached => StandsAt(other)' = k
      BY <1>4, <2>1 DEF StandsAt
    <3> QED
      BY <1>4, <2>1, <3>1
  <2>2. CASE other # c
    <3>1. StandsAt(other)' = StandsAt(other)
      BY <1>4, <2>2 DEF StandsAt
    <3> QED
      BY <1>4, <2>2, <3>1 DEF RealtimeInv
  <2> QED
    BY <2>1, <2>2
<1> QED
  BY <1>1, <1>5, <1>6 DEF RealtimeInv

LEMMA InitInv == RealtimeAssumption /\ Init => RealtimeInv
<1> SUFFICES ASSUME RealtimeAssumption, Init PROVE RealtimeInv
  OBVIOUS
<1>1. /\ issued = 0 /\ pruned = 0 /\ pollCursor = 0 /\ latestIssuedId = 0
      /\ stream = [c \in Clients |-> Closed] /\ cursor = [c \in Clients |-> NoCursor]
  BY DEF Init
<1>2. 0 \in Ids /\ NoCursor \in NoCursor..0
  BY ConstantFacts DEF NoCursor
<1>3. stream \in [Clients -> Record] /\ \A c \in Clients : stream[c] = Closed
  BY <1>1, ClosedIsFine
<1>4. \A c \in Clients : StreamOK(c, stream[c], StandsAt(c), issued, pruned) /\ ~Listens(stream[c])
  BY <1>3, ClosedIsFine
<1> QED
  BY <1>1, <1>2, <1>3, <1>4 DEF RealtimeInv

LEMMA IssueKeeps == ASSUME RealtimeInv, Issue PROVE RealtimeInv'
<1>1. /\ issued < MaximumIssued /\ issued' = issued + 1 /\ pruned' = pruned
      /\ pollCursor' = pollCursor /\ latestIssuedId' = latestIssuedId
      /\ stream' = stream /\ cursor' = cursor
  BY DEF Issue, pump
<1>2. /\ issued' \in Ids /\ issued' \in Nat /\ issued <= issued' /\ pruned' \in 0..issued'
      /\ pollCursor' \in 0..issued' /\ latestIssuedId' \in 0..issued'
  BY <1>1, NumberFacts
<1>3. stream' \in [Clients -> Record] /\ cursor' \in [Clients -> NoCursor..issued']
  <2>1. NoCursor..issued \subseteq NoCursor..issued'
    BY <1>2, NumberFacts DEF NoCursor
  <2> QED
    BY <1>1, <2>1 DEF RealtimeInv
<1>4. ASSUME NEW c \in Clients
      PROVE  StreamOK(c, stream'[c], StandsAt(c)', issued', pruned')
  <2>1. /\ StreamOK(c, stream[c], StandsAt(c), issued, pruned) /\ StandsAt(c) \in NoCursor..issued
        /\ StandsAt(c)' = StandsAt(c)
    BY <1>1, StandsWithinOutbox DEF RealtimeInv, StandsAt
  <2>2. StreamOK(c, stream[c], StandsAt(c), issued', pruned)
    BY <1>2, <2>1, NumberFacts, RowsComeAndGo
  <2> QED
    BY <1>1, <2>1, <2>2
<1> QED
  BY <1>1, <1>2, <1>3, <1>4, NumberFacts DEF RealtimeInv

LEMMA PruneKeeps ==
    ASSUME RealtimeInv, NEW through, Prune(through) PROVE RealtimeInv'
<1>1. /\ through \in (pruned + 1)..issued /\ pruned' = through /\ issued' = issued
      /\ pollCursor' = pollCursor /\ latestIssuedId' = latestIssuedId
      /\ stream' = stream /\ cursor' = cursor
  BY DEF Prune, pump
<1>2. pruned' \in 0..issued' /\ pruned' \in Nat /\ pruned <= pruned'
  BY <1>1, NumberFacts
<1>3. ASSUME NEW c \in Clients
      PROVE  StreamOK(c, stream'[c], StandsAt(c)', issued', pruned')
  <2>1. /\ StreamOK(c, stream[c], StandsAt(c), issued, pruned) /\ StandsAt(c) \in NoCursor..issued
        /\ StandsAt(c)' = StandsAt(c)
    BY <1>1, StandsWithinOutbox DEF RealtimeInv, StandsAt
  <2>2. StreamOK(c, stream[c], StandsAt(c), issued, pruned')
    BY <1>2, <2>1, NumberFacts, RowsComeAndGo
  <2> QED
    BY <1>1, <2>1, <2>2
<1> QED
  BY <1>1, <1>2, <1>3 DEF RealtimeInv

LEMMA RestartKeeps == ASSUME RealtimeInv, Restart PROVE RealtimeInv'
<1>1. /\ issued' = issued /\ pruned' = pruned /\ cursor' = cursor
      /\ pollCursor' = 0 /\ latestIssuedId' = 0
      /\ stream' = [c \in Clients |-> Closed]
  BY DEF Restart, database
<1>2. RealtimeAssumption
  BY DEF RealtimeInv
<1>3. stream' \in [Clients -> Record] /\ \A c \in Clients : stream'[c] = Closed
  BY <1>1, <1>2, ClosedIsFine
<1>4. 0 \in 0..issued
  BY NumberFacts
<1>5. \A c \in Clients : /\ StreamOK(c, stream'[c], StandsAt(c)', issued', pruned')
                         /\ ~Listens(stream'[c])
  BY <1>2, <1>3, ClosedIsFine
<1> QED
  BY <1>1, <1>3, <1>4, <1>5 DEF RealtimeInv

LEMMA PollIdleKeeps == ASSUME RealtimeInv, PollIdle PROVE RealtimeInv' /\ FeedPosition' = FeedPosition
<1>1. /\ issued' = issued /\ pruned' = pruned /\ stream' = stream /\ cursor' = cursor
      /\ pollCursor' = issued /\ latestIssuedId' = issued /\ Subscribers = {}
  BY DEF PollIdle, database
<1>2. \A c \in Clients : ~Listens(stream[c])
  BY <1>1 DEF Subscribers, Listens
<1>3. issued \in 0..issued
  BY NumberFacts
<1>4. FeedPosition' = FeedPosition /\ \A c \in Clients : StandsAt(c)' = StandsAt(c)
  BY <1>1 DEF FeedPosition, StandsAt
<1> QED
  BY <1>1, <1>2, <1>3, <1>4 DEF RealtimeInv

LEMMA PollFailsKeeps == ASSUME RealtimeInv, PollFails PROVE RealtimeInv' /\ FeedPosition' = FeedPosition
<1>1. /\ issued' = issued /\ pruned' = pruned /\ cursor' = cursor
      /\ pollCursor' = pollCursor /\ latestIssuedId' = latestIssuedId
      /\ stream' = [c \in Clients |-> IF c \in Subscribers \cup OpeningSubscribers
                                      THEN Fail(stream[c]) ELSE stream[c]]
  BY DEF PollFails, database, pump
<1>2. ASSUME NEW c \in Clients
      PROVE  /\ StreamOK(c, stream'[c], StandsAt(c), issued, pruned)
             /\ stream'[c].pc = stream[c].pc
             /\ Listens(stream'[c]) => PumpAgrees(stream'[c], pollCursor)
  <2>1. /\ StreamOK(c, stream[c], StandsAt(c), issued, pruned) /\ RealtimeAssumption
        /\ Listens(stream[c]) => PumpAgrees(stream[c], pollCursor)
    BY DEF RealtimeInv
  <2>2. CASE c \in Subscribers \cup OpeningSubscribers
    <3>1. stream'[c] = Fail(stream[c]) /\ stream[c].pc \in Attached \cup Opening
      BY <1>1, <2>2 DEF Subscribers, OpeningSubscribers
    <3>2. StreamOK(c, Fail(stream[c]), StandsAt(c), issued, pruned)
          /\ Fail(stream[c]).failure = "error" /\ Fail(stream[c]).pc = stream[c].pc
      BY <2>1, <3>1, FailKeeps
    <3> QED
      BY <3>1, <3>2 DEF Listens
  <2>3. CASE c \notin Subscribers \cup OpeningSubscribers
    <3>1. stream'[c] = stream[c]
      BY <1>1, <2>3
    <3> QED
      BY <2>1, <3>1
  <2> QED
    BY <2>2, <2>3
<1>3. stream' \in [Clients -> Record]
  <2>1. \A c \in Clients : stream'[c] \in Record
    BY <1>2 DEF StreamOK
  <2>2. stream' = [c \in Clients |-> stream'[c]]
    BY <1>1
  <2> QED
    BY <2>1, <2>2
<1>4. (\A c \in Clients : StandsAt(c)' = StandsAt(c)) /\ FeedPosition' = FeedPosition
  BY <1>1, <1>2, PolledStreamsStand
<1> QED
  BY <1>1, <1>2, <1>3, <1>4 DEF RealtimeInv

LEMMA PollOutsideRetentionKeeps ==
    ASSUME RealtimeInv, PollOutsideRetention
    PROVE  RealtimeInv' /\ FeedPosition' = FeedPosition
<1> DEFINE affected ==
             {c \in Subscribers : CursorIsOutsideRetention(stream[c].observed, Bounds)}
           remaining == Subscribers \ affected
<1>1. /\ issued' = issued /\ pruned' = pruned /\ cursor' = cursor
      /\ latestIssuedId' = issued /\ Subscribers # {}
      /\ CursorIsOutsideRetention(ActiveFloor, Bounds)
      /\ stream' = [c \in Clients |-> IF c \in affected
                                      THEN ForceResync(stream[c], issued) ELSE stream[c]]
      /\ pollCursor' = IF remaining = {} THEN issued
                       ELSE Larger(ActiveFloor, SmallestObserved(remaining))
  BY DEF PollOutsideRetention, database
<1>2. ActiveFloor < pruned /\ ActiveFloor \in Nat /\ pollCursor <= ActiveFloor
  BY <1>1, FloorFacts DEF CursorIsOutsideRetention, Bounds
<1>3. ASSUME NEW c \in remaining PROVE stream[c].observed >= pruned
  <2>1. stream[c].observed \in Nat
    BY ConstantFacts DEF Subscribers, RealtimeInv, Record
  <2> QED
    BY <2>1, NumberFacts DEF CursorIsOutsideRetention, Bounds
<1>4. remaining \subseteq Subscribers
  OBVIOUS
<1> HIDE DEF remaining
<1>5. ASSUME remaining # {}
      PROVE  /\ pollCursor' = SmallestObserved(remaining) /\ pollCursor' \in 0..issued
             /\ \A c \in remaining : pollCursor' <= stream[c].observed
  <2>1. /\ SmallestObserved(remaining) \in 0..issued /\ SmallestObserved(remaining) \in Nat
        /\ \E c \in remaining : stream[c].observed = SmallestObserved(remaining)
        /\ \A c \in remaining : SmallestObserved(remaining) <= stream[c].observed
    BY <1>4, <1>5, SlowestSubscriber
  <2>2. SmallestObserved(remaining) >= pruned
    BY <1>3, <2>1
  <2>3. pollCursor' = SmallestObserved(remaining)
    BY <1>1, <1>2, <1>5, <2>1, <2>2, NumberFacts DEF Larger
  <2> QED
    BY <2>1, <2>3
<1>6. pollCursor' \in 0..issued' /\ latestIssuedId' \in 0..issued'
  BY <1>1, <1>5, NumberFacts
<1>7. ASSUME NEW c \in Clients
      PROVE  /\ StreamOK(c, stream'[c], StandsAt(c), issued, pruned)
             /\ stream'[c].pc = stream[c].pc
             /\ Listens(stream'[c]) => PumpAgrees(stream'[c], pollCursor')
  <2>1. /\ StreamOK(c, stream[c], StandsAt(c), issued, pruned) /\ RealtimeAssumption
        /\ Listens(stream[c]) => PumpAgrees(stream[c], pollCursor)
    BY DEF RealtimeInv
  <2>2. CASE c \in affected
    <3>1. stream'[c] = ForceResync(stream[c], issued) /\ Listens(stream[c])
          /\ stream[c].observed < pruned
      BY <1>1, <2>2 DEF Subscribers, Listens, CursorIsOutsideRetention, Bounds
    <3>2. /\ StreamOK(c, ForceResync(stream[c], issued), StandsAt(c), issued, pruned)
          /\ ForceResync(stream[c], issued).failure = "resync"
          /\ ForceResync(stream[c], issued).pc = stream[c].pc
      <4> DEFINE r == stream[c]
                 k == StandsAt(c)
      <4>1. /\ RealtimeAssumption /\ issued \in Ids /\ StreamOK(c, r, k, issued, pruned)
            /\ Listens(r) /\ r.observed < pruned
        BY <2>1, <3>1, NumberFacts
      <4> HIDE DEF r, k
      <4>2. /\ StreamOK(c, ForceResync(r, issued), k, issued, pruned)
            /\ ForceResync(r, issued).failure = "resync" /\ ForceResync(r, issued).pc = r.pc
        BY <4>1, ForceResyncKeeps
      <4> QED
        BY <4>2 DEF r, k
    <3> QED
      BY <3>1, <3>2 DEF Listens
  <2>3. CASE c \notin affected
    <3>1. stream'[c] = stream[c]
      BY <1>1, <2>3
    <3>2. ASSUME Listens(stream[c]) PROVE PumpAgrees(stream[c], pollCursor')
      <4>1. c \in remaining
        BY <2>3, <3>2 DEF remaining, Subscribers, Listens
      <4>2. pollCursor' <= stream[c].observed
        BY <1>5, <4>1
      <4>3. stream[c].observed = stream[c].boundary
        <5>1. stream[c].observed >= pruned /\ stream[c].observed \in Nat
          <6>1. stream[c] \in Record
            BY <2>1 DEF StreamOK
          <6> QED
            BY <1>3, <2>1, <4>1, <6>1, ConstantFacts DEF Record
        <5>2. stream[c].observed # pollCursor
          BY <1>2, <5>1, NumberFacts
        <5> QED
          BY <2>1, <3>2, <5>2 DEF PumpAgrees
      <4> QED
        BY <4>2, <4>3 DEF PumpAgrees
    <3> QED
      BY <2>1, <3>1, <3>2
  <2> QED
    BY <2>2, <2>3
<1>8. stream' \in [Clients -> Record]
  <2>1. \A c \in Clients : stream'[c] \in Record
    BY <1>7 DEF StreamOK
  <2>2. stream' = [c \in Clients |-> stream'[c]]
    BY <1>1
  <2> QED
    BY <2>1, <2>2
<1>9. (\A c \in Clients : StandsAt(c)' = StandsAt(c)) /\ FeedPosition' = FeedPosition
  BY <1>1, <1>7, PolledStreamsStand
<1> QED
  BY <1>1, <1>6, <1>7, <1>8, <1>9 DEF RealtimeInv

LEMMA PollPageKeeps ==
    ASSUME RealtimeInv, PollPage PROVE RealtimeInv' /\ FeedPosition' = FeedPosition
<1> DEFINE floor == ActiveFloor
           page == Page(floor, issued, EveryTopic)
           last == IF page = {} THEN floor ELSE Max(page)
           served(c) == Observed(c, floor, page)[issued]
<1>1. /\ issued' = issued /\ pruned' = pruned /\ cursor' = cursor
      /\ latestIssuedId' = issued /\ Subscribers # {}
      /\ ~CursorIsOutsideRetention(floor, Bounds)
      /\ stream' = [c \in Clients |-> IF c \in Subscribers THEN served(c) ELSE stream[c]]
  BY DEF PollPage, database
<1>2. \/ pollCursor' = last
      \/ /\ pollCursor' = issued
         /\ \A c \in Subscribers : stream'[c].failure # "none"
  <2> DEFINE after == [c \in Clients |-> IF c \in Subscribers THEN served(c) ELSE stream[c]]
             someRemain == \E c \in Subscribers : after[c].failure = "none"
  <2>1. pollCursor' = IF ~someRemain THEN issued
                      ELSE IF page = {} THEN floor ELSE Max(page)
    BY DEF PollPage
  <2>2. stream' = after
    BY <1>1
  <2> HIDE DEF after, page, floor
  <2> QED
    BY <2>1, <2>2
<1>3. floor \in 0..issued /\ \A c \in Subscribers : floor <= stream[c].observed
  BY <1>1, FloorFacts
<1>4. pollCursor <= floor /\ floor \in Nat
  BY <1>1, FloorFacts
<1> HIDE DEF floor
<1>5. last \in floor..issued /\ page = (floor + 1)..last
  <2> HIDE DEF page, last
  <2>1. /\ page = Page(floor, issued, EveryTopic)
        /\ page = {} => last = floor
        /\ page # {} => last = Max(page)
    BY DEF page, last
  <2> QED
    BY <1>1, <1>3, <2>1, PageIsContiguous
<1> HIDE DEF page, last
<1>6. ASSUME NEW c \in Subscribers
      PROVE  /\ StreamOK(c, served(c), StandsAt(c), issued, pruned)
             /\ served(c).pc = stream[c].pc
             /\ served(c).failure = "none" => PumpAgrees(served(c), last)
  <2>1. c \in Clients /\ Listens(stream[c])
    BY DEF Subscribers, Listens
  <2>2. PumpAgrees(stream[c], pollCursor) /\ stream[c] \in Record
    BY <2>1 DEF RealtimeInv
  <2>3. PumpAgrees(stream[c], floor)
    <3>1. stream[c].observed \in Nat /\ stream[c].boundary \in Nat
      BY <2>2, ConstantFacts, NumberFacts DEF Record
    <3> QED
      BY <1>3, <1>4, <2>2, <3>1, NumberFacts DEF PumpAgrees
  <2> QED
    BY <1>3, <1>5, <2>1, <2>3, ObservedServes
<1> HIDE DEF served
<1>7. ASSUME NEW c \in Clients
      PROVE  /\ StreamOK(c, stream'[c], StandsAt(c), issued, pruned)
             /\ stream'[c].pc = stream[c].pc
             /\ Listens(stream'[c]) => PumpAgrees(stream'[c], pollCursor')
  <2>1. CASE c \in Subscribers
    <3>1. stream'[c] = served(c)
      BY <1>1, <2>1
    <3> QED
      BY <1>2, <1>6, <2>1, <3>1 DEF Listens
  <2>2. CASE c \notin Subscribers
    <3>1. stream'[c] = stream[c] /\ ~Listens(stream[c])
      BY <1>1, <2>2 DEF Subscribers, Listens
    <3> QED
      BY <3>1 DEF RealtimeInv
  <2> QED
    BY <2>1, <2>2
<1>8. stream' \in [Clients -> Record]
  <2>1. \A c \in Clients : stream'[c] \in Record
    BY <1>7 DEF StreamOK
  <2>2. stream' = [c \in Clients |-> stream'[c]]
    BY <1>1
  <2> QED
    BY <2>1, <2>2
<1>9. pollCursor' \in 0..issued /\ latestIssuedId' \in 0..issued
  BY <1>1, <1>2, <1>3, <1>5, NumberFacts
<1>10. (\A c \in Clients : StandsAt(c)' = StandsAt(c)) /\ FeedPosition' = FeedPosition
  BY <1>1, <1>7, PolledStreamsStand
<1> QED
  BY <1>1, <1>7, <1>8, <1>9, <1>10 DEF RealtimeInv

-----------------------------------------------------------------------------
(* The generator.  Each lemma also says what the step is for the feed.       *)

FeedStep == Feed!FeedNext \/ UNCHANGED Feed!feedVars

LEMMA StreamFacts ==
    ASSUME RealtimeInv, NEW c \in Clients
    PROVE  /\ stream[c] \in Record /\ StreamOK(c, stream[c], StandsAt(c), issued, pruned)
           /\ cursor[c] \in NoCursor..issued /\ cursor[c] \in Int
           /\ Listens(stream[c]) => PumpAgrees(stream[c], pollCursor)
           /\ stream[c].boundary \in Nat /\ stream[c].observed \in Nat
           /\ stream[c].position \in Nat /\ stream[c].required \in Nat
      /\ stream[c].replay \in Nat
           /\ stream[c].hand \in Nat /\ stream[c].tail \in Nat
           /\ stream[c].bounds.latest \in Nat /\ stream[c].bounds.pruned \in Nat
<1>1. stream[c] \in Record /\ cursor[c] \in NoCursor..issued
  BY DEF RealtimeInv
<1>2. /\ stream[c].boundary \in Nat /\ stream[c].observed \in Nat
      /\ stream[c].position \in Nat /\ stream[c].required \in Nat
      /\ stream[c].replay \in Nat
      /\ stream[c].hand \in Nat /\ stream[c].tail \in Nat
      /\ stream[c].bounds.latest \in Nat /\ stream[c].bounds.pruned \in Nat
  BY <1>1, NumberFacts, ConstantFacts DEF Record
<1> QED
  BY <1>1, <1>2 DEF RealtimeInv, NoCursor

\* The client receives nothing.
LEMMA StreamMoves ==
    ASSUME RealtimeInv, NEW c \in Clients, NEW r, UNCHANGED <<database, pollCursor, cursor>>,
           latestIssuedId' \in 0..issued, stream' = [stream EXCEPT ![c] = r],
           StreamOK(c, r, StandsAt(c), issued, pruned),
           r.pc \in Attached <=> stream[c].pc \in Attached,
           Listens(r) => PumpAgrees(r, pollCursor)
    PROVE  RealtimeInv' /\ FeedStep
<1>1. /\ UNCHANGED database /\ pollCursor' = pollCursor /\ pollCursor' \in 0..issued
      /\ cursor' = [cursor EXCEPT ![c] = cursor[c]] /\ cursor[c] \in NoCursor..issued
  BY DEF RealtimeInv
<1>2. \A other \in Clients \ {c} :
        Listens(stream[other]) => PumpAgrees(stream[other], pollCursor')
  BY <1>1 DEF RealtimeInv
<1>3. /\ r.pc \in Attached => StandsAt(c) = r.position /\ FeedPosition[c] = r.position
      /\ r.pc \notin Attached => StandsAt(c) = cursor[c] /\ FeedPosition[c] = NoStream
  BY StandsWithinOutbox DEF StreamOK, PositionOK, FeedPosition
<1>4. RealtimeInv'
  <2>1. /\ r.pc \in Attached => StreamOK(c, r, r.position, issued, pruned)
        /\ r.pc \notin Attached => StreamOK(c, r, cursor[c], issued, pruned)
    BY <1>3
  <2> QED
    BY <1>1, <1>2, <2>1, OneStreamMoves
<1>5. FeedPosition' = FeedPosition
  <2>1. FeedPosition' = [FeedPosition EXCEPT ![c] = FeedPosition[c]]
    BY <1>3, OneStreamPlaced
  <2> QED
    BY <2>1 DEF FeedPosition
<1>6. UNCHANGED Feed!feedVars
  BY <1>5 DEF Feed!feedVars, database
<1> QED
  BY <1>4, <1>6 DEF FeedStep

\* The client receives the next event.
LEMMA StreamDelivers ==
    ASSUME RealtimeInv, NEW c \in Clients, NEW r, NEW k, UNCHANGED <<database, pollCursor>>,
           latestIssuedId' \in 0..issued, stream' = [stream EXCEPT ![c] = r],
           cursor' = [cursor EXCEPT ![c] = k], stream[c].pc \in Attached,
           r.pc \in Attached, k \in 1..issued, Comes(c, StandsAt(c), k),
           StreamOK(c, r, k, issued, pruned), Listens(r) => PumpAgrees(r, pollCursor)
    PROVE  RealtimeInv' /\ FeedStep
<1>1. /\ UNCHANGED database /\ pollCursor' = pollCursor /\ pollCursor' \in 0..issued
      /\ k \in NoCursor..issued
  BY NumberFacts DEF RealtimeInv, NoCursor
<1>2. \A other \in Clients \ {c} :
        Listens(stream[other]) => PumpAgrees(stream[other], pollCursor')
  BY <1>1 DEF RealtimeInv
<1>3. k = r.position
  BY DEF StreamOK, PositionOK
<1>4. RealtimeInv' /\ FeedPosition' = [FeedPosition EXCEPT ![c] = k]
  BY <1>1, <1>2, <1>3, OneStreamMoves, OneStreamPlaced
<1>5. FeedPosition[c] = StandsAt(c) /\ StandsAt(c) \in Nat
  BY StandsWithinOutbox DEF FeedPosition
<1>6. Feed!Deliver(c)
  <2>1. FeedPosition[c] # Feed!NoStream
    BY <1>5 DEF Feed!NoStream
  <2>2. k \in Feed!Matching(c) /\ k > FeedPosition[c] /\ k \in Nat
    BY <1>5, NumberFacts DEF Feed!Matching, Comes, Mine
  <2>3. ASSUME NEW other \in Feed!Matching(c), other > FeedPosition[c] PROVE k <= other
    <3>1. other \in 1..issued /\ Mine(c, other) /\ other \in Nat
      BY NumberFacts DEF Feed!Matching, Mine
    <3>2. other \notin (FeedPosition[c] + 1)..(k - 1)
      BY <1>5, <3>1 DEF Comes, NoneBetween
    <3> QED
      BY <1>5, <2>2, <2>3, <3>1, <3>2
  <2>4. issued' = issued /\ pruned' = pruned
    BY DEF database
  <2> QED
    BY <1>4, <2>1, <2>2, <2>3, <2>4 DEF Feed!Deliver
<1> QED
  BY <1>4, <1>6 DEF FeedStep, Feed!FeedNext

\* The stream ends and the client starts over from a tail.
LEMMA StreamResyncs ==
    ASSUME RealtimeInv, NEW c \in Clients, NEW k, UNCHANGED <<database, pollCursor>>,
           latestIssuedId' \in 0..issued, stream' = [stream EXCEPT ![c] = Closed],
           cursor' = [cursor EXCEPT ![c] = k], StandsAt(c) \in Nat, StandsAt(c) < pruned,
           k \in StandsAt(c)..issued
    PROVE  RealtimeInv' /\ FeedStep
<1>1. /\ UNCHANGED database /\ pollCursor' = pollCursor /\ pollCursor' \in 0..issued
      /\ k \in NoCursor..issued /\ RealtimeAssumption
  BY NumberFacts DEF RealtimeInv, NoCursor
<1>2. \A other \in Clients \ {c} :
        Listens(stream[other]) => PumpAgrees(stream[other], pollCursor')
  BY <1>1 DEF RealtimeInv
<1>3. StreamOK(c, Closed, k, issued, pruned) /\ ~Listens(Closed) /\ Closed.pc \notin Attached
  BY <1>1, ClosedIsFine, SetFacts DEF Closed
<1>4. RealtimeInv' /\ FeedPosition' = [FeedPosition EXCEPT ![c] = NoStream]
  BY <1>1, <1>2, <1>3, OneStreamMoves, OneStreamPlaced
<1>5. Feed!Resync(c)
  <2>1. issued' = issued /\ pruned' = pruned /\ StandsAt(c) # Feed!NoCursor
        /\ pruned > StandsAt(c)
    BY NumberFacts DEF database, Feed!NoCursor
  <2> DEFINE after == IF FeedPosition[c] = Feed!NoStream THEN cursor[c] ELSE FeedPosition[c]
  <2>2. after = StandsAt(c)
    BY StandsWithinOutbox DEF FeedPosition, NoStream, Feed!NoStream
  <2>3. FeedPosition' = [FeedPosition EXCEPT ![c] = Feed!NoStream]
    BY <1>4 DEF NoStream, Feed!NoStream
  <2> HIDE DEF after
  <2>4. /\ after # Feed!NoCursor /\ pruned > after
        /\ \E tail \in after..issued : cursor' = [cursor EXCEPT ![c] = tail]
    BY <2>1, <2>2
  <2> QED
    BY <2>1, <2>3, <2>4 DEF Feed!Resync, after
<1> QED
  BY <1>4, <1>5 DEF FeedStep, Feed!FeedNext

LEMMA StreamEnds ==
    ASSUME RealtimeInv, NEW c \in Clients, UNCHANGED <<database, pump, cursor>>, Ended(c)
    PROVE  RealtimeInv' /\ FeedStep
<1>1. stream' = [stream EXCEPT ![c] = Closed] /\ UNCHANGED <<database, pollCursor, cursor>>
      /\ latestIssuedId' \in 0..issued /\ RealtimeAssumption
  BY DEF Ended, pump, RealtimeInv
<1>2. /\ UNCHANGED database /\ pollCursor' \in 0..issued /\ cursor[c] \in NoCursor..issued
      /\ cursor' = [cursor EXCEPT ![c] = cursor[c]]
      /\ \A other \in Clients \ {c} :
           Listens(stream[other]) => PumpAgrees(stream[other], pollCursor')
  BY <1>1 DEF RealtimeInv
<1>3. /\ StreamOK(c, Closed, cursor[c], issued, pruned) /\ ~Listens(Closed)
      /\ Closed.pc \notin Attached
  BY <1>1, ClosedIsFine, SetFacts DEF Closed
<1>4. RealtimeInv' /\ FeedPosition' = [FeedPosition EXCEPT ![c] = NoStream]
  BY <1>1, <1>2, <1>3, OneStreamMoves, OneStreamPlaced
<1>5. Feed!End({c})
  <2>1. issued' = issued /\ pruned' = pruned /\ cursor' = cursor
    BY <1>1 DEF database
  <2>2. FeedPosition' = [x \in Clients |-> IF x \in {c} THEN Feed!NoStream ELSE FeedPosition[x]]
    BY <1>4 DEF FeedPosition, NoStream, Feed!NoStream
  <2> QED
    BY <2>1, <2>2 DEF Feed!End
<1>6. Feed!FeedNext
  <2>1. {c} \in SUBSET Clients
    OBVIOUS
  <2> QED
    BY <1>5, <2>1 DEF Feed!FeedNext
<1> QED
  BY <1>4, <1>6 DEF FeedStep

LEMMA OpenKeeps ==
    ASSUME RealtimeInv, NEW c \in Clients, Open(c) PROVE RealtimeInv' /\ FeedStep
<1> DEFINE new == [stream[c] EXCEPT !.pc = "opening"]
<1>1. /\ stream[c].pc = "closed" /\ UNCHANGED <<database, pollCursor, cursor>>
      /\ latestIssuedId' \in 0..issued /\ stream' = [stream EXCEPT ![c] = new]
  BY DEF Open, pump, RealtimeInv
<1>2. stream[c] = Closed
  BY <1>1, StreamFacts DEF StreamOK
<1>3. /\ new \in Record
      /\ new.pc = "opening" /\ new.failure = "none" /\ new.queue = <<>>
  <2>1. Closed.failure = "none" /\ Closed.queue = <<>> /\ Closed \in Record
    BY NumberFacts, ClosedIsFine DEF Closed
  <2> QED
    BY <1>2, <2>1 DEF Record, Opening
<1> HIDE DEF new
<1>4. Len(new.queue) <= MaximumSubscriberQueueEvents
  BY <1>3, ConstantFacts, NumberFacts
<1>5. StreamOK(c, new, StandsAt(c), issued, pruned) /\ ~Listens(new)
      /\ new.pc \notin Attached /\ stream[c].pc \notin Attached
  BY <1>1, <1>3, <1>4, SetFacts DEF StreamOK, OpeningOK, Listens, Attached, Replaying, ReplayComplete
<1> QED
  BY <1>1, <1>5, StreamMoves

LEMMA ReadBoundsKeeps ==
    ASSUME RealtimeInv, NEW c \in Clients, ReadBounds(c) PROVE RealtimeInv' /\ FeedStep
<1> DEFINE bounds == Bounds
           new == [stream[c] EXCEPT !.pc = "opened", !.bounds = bounds]
<1>1. /\ stream[c].pc = "opening" /\ UNCHANGED <<database, pollCursor, cursor>>
      /\ latestIssuedId' \in 0..issued /\ stream' = [stream EXCEPT ![c] = new]
  BY DEF ReadBounds, pump, RealtimeInv
<1>2. bounds \in [latest : Ids, pruned : Ids] /\ bounds.latest = issued /\ bounds.pruned = pruned
  BY NumberFacts DEF Bounds
<1> HIDE DEF bounds
<1>3. /\ new \in Record
      /\ new.pc = "opened" /\ new.failure = stream[c].failure
      /\ new.queue = stream[c].queue /\ new.bounds = bounds
  BY <1>2, StreamFacts DEF Record, Opening
<1> HIDE DEF new
<1>4. /\ stream[c].failure # "resync" /\ Len(stream[c].queue) <= MaximumSubscriberQueueEvents
  BY <1>1, StreamFacts DEF StreamOK, OpeningOK, Opening
<1>5. StandsAt(c) <= issued /\ stream[c].pc \notin Attached
  BY <1>1, NumberFacts, StandsWithinOutbox, SetFacts DEF NoCursor, Opening
<1>6. StreamOK(c, new, StandsAt(c), issued, pruned) /\ ~Listens(new) /\ new.pc \notin Attached
  BY <1>2, <1>3, <1>4, <1>5, NumberFacts
  DEF StreamOK, OpeningOK, Listens, Attached, Replaying, ReplayComplete
<1> QED
  BY <1>1, <1>5, <1>6, StreamMoves

\* What the generator attaches with is within the outbox.
LEMMA BoundaryFacts ==
    ASSUME RealtimeInv, NEW c \in Clients, stream[c].pc = "opened"
    PROVE  /\ stream[c].bounds.latest <= issued /\ stream[c].bounds.pruned <= pruned
           /\ cursor[c] <= stream[c].bounds.latest /\ StandsAt(c) = cursor[c]
           /\ ReplayBoundary(c) \in 0..issued /\ ReplayBoundary(c) \in Nat
           /\ stream[c].bounds.latest <= ReplayBoundary(c)
           /\ pollCursor <= ReplayBoundary(c)
           /\ ObserveBounds(stream[c].bounds) => latestIssuedId' \in 0..issued
<1>1. /\ stream[c].bounds.latest <= issued /\ stream[c].bounds.pruned <= pruned
      /\ cursor[c] <= stream[c].bounds.latest /\ StandsAt(c) = cursor[c]
  <2>1. stream[c].pc \in Opening /\ stream[c].pc \notin Attached
    BY SetFacts DEF Opening
  <2>2. StandsAt(c) = cursor[c]
    BY <2>1, StandsWithinOutbox
  <2> QED
    BY <2>1, <2>2, StreamFacts DEF StreamOK, OpeningOK
<1>2. stream[c].bounds.latest \in Nat
  BY StreamFacts
<1>3. /\ ReplayBoundary(c) \in 0..issued /\ ReplayBoundary(c) \in Nat
      /\ stream[c].bounds.latest <= ReplayBoundary(c)
      /\ pollCursor <= ReplayBoundary(c)
  BY <1>1, <1>2, NumberFacts DEF ReplayBoundary, Larger
<1>4. ObserveBounds(stream[c].bounds) => latestIssuedId' \in 0..issued
  BY <1>1, <1>2, NumberFacts DEF ObserveBounds
<1> QED
  BY <1>1, <1>3, <1>4

LEMMA AttachOutsideRetentionKeeps ==
    ASSUME RealtimeInv, NEW c \in Clients, AttachOutsideRetention(c)
    PROVE  RealtimeInv' /\ FeedStep
<1> DEFINE k == ReplayBoundary(c)
<1>1. /\ stream[c].pc = "opened" /\ cursor[c] # NoCursor
      /\ CursorIsOutsideRetention(cursor[c], stream[c].bounds)
      /\ stream' = [stream EXCEPT ![c] = Closed] /\ cursor' = [cursor EXCEPT ![c] = k]
      /\ ObserveBounds(stream[c].bounds) /\ UNCHANGED <<database, pollCursor>>
  BY DEF AttachOutsideRetention, ResyncClient, Ended, Yielded
<1>2. latestIssuedId' \in 0..issued
  BY <1>1, BoundaryFacts
<1>3. cursor[c] \in Nat
  BY <1>1, StreamFacts, NumberFacts DEF NoCursor
<1>4. cursor[c] < pruned
  BY <1>1, <1>3, BoundaryFacts, StreamFacts, NumberFacts DEF CursorIsOutsideRetention
<1>5. k \in cursor[c]..issued
  BY <1>1, <1>3, BoundaryFacts, StreamFacts, NumberFacts
<1> HIDE DEF k
<1>6. StandsAt(c) = cursor[c]
  BY <1>1, BoundaryFacts
<1> QED
  BY <1>1, <1>2, <1>3, <1>4, <1>5, <1>6, StreamResyncs

LEMMA AttachKeeps ==
    ASSUME RealtimeInv, NEW c \in Clients, Attach(c) PROVE RealtimeInv' /\ FeedStep
<1> DEFINE boundary == ReplayBoundary(c)
           k == IF cursor[c] = NoCursor THEN boundary ELSE cursor[c]
           r == [Closed EXCEPT !.pc = "reading", !.boundary = boundary,
                               !.observed = boundary, !.required = k, !.position = k,
                               !.replay = k]
           new == ContinueReplay(r)
<1>1. /\ stream[c].pc = "opened" /\ k <= boundary
      /\ stream' = [stream EXCEPT ![c] = new]
      /\ pollCursor' = IF Subscribers = {} THEN boundary ELSE pollCursor
      /\ ObserveBounds(stream[c].bounds) /\ UNCHANGED <<database, cursor>>
  BY DEF Attach
<1>2. /\ boundary \in 0..issued /\ boundary \in Nat /\ pollCursor <= boundary
      /\ latestIssuedId' \in 0..issued
  BY <1>1, BoundaryFacts
<1> HIDE DEF boundary
<1>3. k \in 0..boundary /\ k \in Nat /\ k \in NoCursor..issued
  BY <1>1, <1>2, StreamFacts, NumberFacts DEF NoCursor
<1>4. cursor[c] = NoCursor \/ k = cursor[c]
  OBVIOUS
<1> HIDE DEF k
<1>5. k \in Ids /\ boundary \in Ids /\ RealtimeAssumption /\ issued \in Ids /\ pruned \in Nat
  BY <1>2, <1>3, NumberFacts
<1>6. /\ r \in Record
      /\ r.pc = "reading" /\ r.boundary = boundary /\ r.observed = boundary
      /\ r.required = k /\ r.position = k /\ r.replay = k /\ r.queue = <<>> /\ r.pending = <<>>
      /\ r.hand = 0 /\ r.failure = "none"
  <2>1. Closed \in Record /\ Closed.queue = <<>> /\ Closed.pending = <<>>
        /\ Closed.hand = 0 /\ Closed.failure = "none"
    BY <1>5, ClosedIsFine DEF Closed
  <2> QED
    BY <1>5, <2>1, SetFacts DEF Record
<1> HIDE DEF r
<1>7. Ready(c, r, k, issued, pruned)
  <2>1. Len(<<>>) <= MaximumSubscriberQueueEvents
    BY <1>5, ConstantFacts
  <2>2. PositionOK(c, r, k, issued, pruned)
    BY <1>2, <1>3, <1>6 DEF PositionOK
  <2>3. BufferOK(c, r, k)
    <3>1. QueueHolds(c, <<>>, boundary, boundary)
      BY <1>2, EmptyQueue
    <3> QED
      BY <1>6, <3>1, SetFacts DEF BufferOK
  <2>4. NoneBetween(c, k, k)
    BY <1>3 DEF NoneBetween
  <2> QED
    BY <1>3, <1>6, <2>1, <2>2, <2>3, <2>4, SetFacts DEF Ready
<1>8. /\ StreamOK(c, new, k, issued, pruned)
      /\ new.boundary = boundary /\ new.observed = boundary /\ new.pc \in Attached
  BY <1>5, <1>6, <1>7, ReadyContinues
<1> HIDE DEF new
<1>9. pollCursor' \in 0..issued /\ pollCursor' <= boundary
  BY <1>1, <1>2, NumberFacts
<1>10. PumpAgrees(new, pollCursor')
  BY <1>8, <1>9 DEF PumpAgrees
<1>11. ASSUME NEW other \in Clients \ {c}, Listens(stream[other])
       PROVE  PumpAgrees(stream[other], pollCursor')
  <2>1. other \in Subscribers
    BY <1>11 DEF Subscribers, Listens
  <2>2. pollCursor' = pollCursor
    BY <1>1, <2>1
  <2> QED
    BY <1>11, <2>2, StreamFacts
<1>12. RealtimeInv' /\ FeedPosition' = [FeedPosition EXCEPT ![c] = k]
  <2>1. new.position = k
    BY <1>8 DEF StreamOK, PositionOK
  <2>2. cursor' = [cursor EXCEPT ![c] = cursor[c]] /\ cursor[c] \in NoCursor..issued
    BY <1>1 DEF RealtimeInv
  <2>3. RealtimeInv'
    BY <1>1, <1>2, <1>8, <1>9, <1>10, <1>11, <2>1, <2>2, OneStreamMoves
  <2>4. FeedPosition' = [FeedPosition EXCEPT ![c] = k]
    BY <1>1, <1>8, <2>1, OneStreamPlaced
  <2> QED
    BY <2>3, <2>4
<1>13. Feed!Begin(c)
  <2>1. issued' = issued /\ pruned' = pruned /\ cursor' = cursor
    BY <1>1 DEF database
  <2>2. FeedPosition[c] = Feed!NoStream
    BY <1>1, SetFacts DEF FeedPosition, NoStream, Feed!NoStream, Opening
  <2>3. k \in 0..issued
    BY <1>2, <1>3, NumberFacts
  <2>4. cursor[c] # Feed!NoCursor => k = cursor[c]
    BY <1>4 DEF NoCursor, Feed!NoCursor
  <2> QED
    BY <1>12, <2>1, <2>2, <2>3, <2>4 DEF Feed!Begin
<1> QED
  BY <1>12, <1>13 DEF FeedStep, Feed!FeedNext

LEMMA AttachedFacts ==
    ASSUME RealtimeInv, NEW c \in Clients, stream[c].pc \in Attached
    PROVE  /\ PositionOK(c, stream[c], StandsAt(c), issued, pruned)
           /\ StandsAt(c) \in Nat /\ StandsAt(c) <= stream[c].observed
           /\ StandsAt(c) = stream[c].position
           /\ stream[c].observed <= issued /\ stream[c].boundary <= stream[c].observed
           /\ stream[c].pc \in Replaying =>
                ReplayOK(c, stream[c], StandsAt(c), issued, pruned) /\ stream[c].hand = 0
           /\ stream[c].failure = "none" =>
                BufferOK(c, stream[c], StandsAt(c)) /\ PumpAgrees(stream[c], pollCursor)
           /\ Len(stream[c].queue) <= MaximumSubscriberQueueEvents
           /\ stream[c].pc \notin Opening /\ stream[c].pc # "closed"
<1>1. PositionOK(c, stream[c], StandsAt(c), issued, pruned)
  BY StreamFacts DEF StreamOK
<1>2. StandsAt(c) \in Nat /\ StandsAt(c) <= stream[c].observed
      /\ StandsAt(c) = stream[c].position
      /\ stream[c].observed <= issued /\ stream[c].boundary <= stream[c].observed
  BY <1>1, StreamFacts DEF PositionOK
<1>3. stream[c].pc \in Replaying =>
        ReplayOK(c, stream[c], StandsAt(c), issued, pruned) /\ stream[c].hand = 0
  BY <1>1, StreamFacts, SetFacts DEF StreamOK, PositionOK
<1>4. stream[c].failure = "none" =>
        BufferOK(c, stream[c], StandsAt(c)) /\ PumpAgrees(stream[c], pollCursor)
  BY StreamFacts DEF StreamOK, Listens
<1>5. stream[c].pc \notin Opening /\ stream[c].pc # "closed"
  BY SetFacts
<1>6. Len(stream[c].queue) <= MaximumSubscriberQueueEvents
  BY StreamFacts DEF StreamOK
<1> QED
  BY <1>1, <1>2, <1>3, <1>4, <1>5, <1>6

LEMMA OpeningFailedKeeps ==
    ASSUME RealtimeInv, NEW c \in Clients, OpeningFailed(c) PROVE RealtimeInv' /\ FeedStep
BY StreamEnds DEF OpeningFailed

LEMMA DisconnectKeeps ==
    ASSUME RealtimeInv, NEW c \in Clients, Disconnect(c) PROVE RealtimeInv' /\ FeedStep
BY StreamEnds DEF Disconnect

LEMMA TerminalKeeps ==
    ASSUME RealtimeInv, NEW c \in Clients, Terminal(c) PROVE RealtimeInv' /\ FeedStep
<1>1. /\ stream[c].pc \in Attached /\ UNCHANGED <<database, pump>> /\ Ended(c)
      /\ \/ stream[c].failure = "resync" /\ cursor' = [cursor EXCEPT ![c] = stream[c].tail]
         \/ cursor' = cursor
  BY DEF Terminal, ResyncClient, Yielded
<1>2. CASE cursor' = cursor
  BY <1>1, <1>2, StreamEnds
<1>3. CASE /\ stream[c].failure = "resync"
           /\ cursor' = [cursor EXCEPT ![c] = stream[c].tail]
  <2>1. /\ StandsAt(c) \in Nat /\ StandsAt(c) <= stream[c].observed
        /\ stream[c].observed < pruned /\ stream[c].tail \in stream[c].observed..issued
    BY <1>1, <1>3, AttachedFacts DEF PositionOK
  <2>2. StandsAt(c) < pruned /\ stream[c].tail \in StandsAt(c)..issued
    BY <2>1, StreamFacts, NumberFacts
  <2>3. UNCHANGED <<database, pollCursor>> /\ latestIssuedId' \in 0..issued
        /\ stream' = [stream EXCEPT ![c] = Closed]
    BY <1>1 DEF pump, Ended, RealtimeInv
  <2> QED
    BY <1>3, <2>1, <2>2, <2>3, StreamResyncs
<1> QED
  BY <1>1, <1>2, <1>3

LEMMA ReadReplayKeeps ==
    ASSUME RealtimeInv, NEW c \in Clients, ReadReplay(c) PROVE RealtimeInv' /\ FeedStep
<1> DEFINE r == stream[c]
           k == StandsAt(c)
           bounds == Bounds
           page == Page(r.replay, r.boundary, TopicsOf[c])
           rows == Rows(r.replay, r.boundary, TopicsOf[c])
           new == [r EXCEPT !.pc = "read", !.bounds = bounds, !.page = page]
<1>1. /\ r.pc = "reading" /\ UNCHANGED <<database, pollCursor, cursor>>
      /\ latestIssuedId' \in 0..issued /\ stream' = [stream EXCEPT ![c] = new]
  BY DEF ReadReplay, pump, RealtimeInv
<1>2. r.pc \in Attached /\ r.pc \in Replaying
  BY <1>1, SetFacts
<1>3. /\ r \in Record /\ PositionOK(c, r, k, issued, pruned)
      /\ ReplayOK(c, r, k, issued, pruned) /\ r.hand = 0
      /\ r.failure = "none" => BufferOK(c, r, k) /\ PumpAgrees(r, pollCursor)
      /\ Len(r.queue) <= MaximumSubscriberQueueEvents
      /\ r.boundary \in Nat /\ r.observed \in Nat /\ r.replay \in Nat
      /\ r.boundary <= r.observed /\ r.observed <= issued
  BY <1>2, AttachedFacts, StreamFacts
<1>4. bounds \in [latest : Ids, pruned : Ids] /\ bounds.latest = issued /\ bounds.pruned = pruned
  BY NumberFacts DEF Bounds
<1>5. /\ page \subseteq rows
      /\ \A id \in rows : \/ id \in page
                          \/ /\ Cardinality(page) >= MaximumPageEvents
                             /\ \A other \in page : other < id
  <2> HIDE DEF page, rows, r
  <2>1. MaximumPageEvents \in Nat \ {0}
    BY NumberFacts, ConstantFacts
  <2> QED
    BY <1>3, <2>1, PageProperties DEF page, rows
<1>6. rows = {id \in (r.replay + 1)..r.boundary : id > pruned /\ Mine(c, id)}
  BY DEF Rows, Mine
<1> HIDE DEF page, rows, bounds
<1>7. page \subseteq Ids
  <2>1. (r.replay + 1)..r.boundary \subseteq Ids
    BY <1>3, NumberFacts, SMTT(30)
  <2> QED
    BY <1>5, <1>6, <2>1
<1> HIDE DEF r, k
<1>8. /\ new \in Record
      /\ new.pc = "read" /\ new.hand = 0 /\ new.boundary = r.boundary
      /\ new.position = r.position
      /\ new.observed = r.observed /\ new.required = r.required /\ new.replay = r.replay
      /\ new.queue = r.queue /\ new.pending = r.pending /\ new.bounds = bounds
      /\ new.page = page /\ new.failure = r.failure /\ new.tail = r.tail
  BY <1>3, <1>4, <1>7, SetFacts DEF Record
<1> HIDE DEF new
<1>9. PositionOK(c, new, k, issued, pruned)
  BY <1>1, <1>3, <1>8 DEF PositionOK
<1>10. ReplayOK(c, new, k, issued, pruned)
  <2>1. PageRead(c, new, issued, pruned)
    <3>1. issued \in r.boundary..issued
      BY <1>3, NumberFacts
    <3>2. \A id \in page : id \in (r.replay + 1)..r.boundary /\ Mine(c, id)
      BY <1>5, <1>6
    <3>3. \A id \in (r.replay + 1)..r.boundary : Mine(c, id) /\ id > pruned => id \in rows
      BY <1>6
    <3> QED
      BY <1>4, <1>5, <1>8, <3>1, <3>2, <3>3, NumberFacts DEF PageRead
  <2> QED
    BY <1>1, <1>3, <1>8, <2>1 DEF ReplayOK
<1>11. r.failure = "none" => BufferOK(c, new, k)
  BY <1>1, <1>2, <1>3, <1>8, SetFacts DEF BufferOK
<1>12. StreamOK(c, new, k, issued, pruned) /\ (Listens(new) => PumpAgrees(new, pollCursor))
  BY <1>3, <1>8, <1>9, <1>10, <1>11, SetFacts DEF StreamOK, Listens, PumpAgrees
<1>13. new.pc \in Attached /\ stream[c].pc \in Attached
  BY <1>2, <1>8, SetFacts DEF r
<1> QED
  BY <1>1, <1>12, <1>13, StreamMoves DEF k

LEMMA ReplayOutsideRetentionKeeps ==
    ASSUME RealtimeInv, NEW c \in Clients, ReplayOutsideRetention(c)
    PROVE  RealtimeInv' /\ FeedStep
<1> DEFINE k == stream[c].bounds.latest
<1>1. /\ stream[c].pc = "read" /\ CursorIsOutsideRetention(stream[c].replay, stream[c].bounds)
      /\ stream' = [stream EXCEPT ![c] = Closed] /\ cursor' = [cursor EXCEPT ![c] = k]
      /\ ObserveBounds(stream[c].bounds) /\ UNCHANGED <<database, pollCursor>>
  BY DEF ReplayOutsideRetention, ResyncClient, Ended, Yielded
<1>2. /\ ReplayOK(c, stream[c], StandsAt(c), issued, pruned)
      /\ PageRead(c, stream[c], issued, pruned) /\ StandsAt(c) \in Nat
  <2>1. stream[c].pc \in Attached /\ stream[c].pc \in Replaying
    BY <1>1, SetFacts
  <2> QED
    BY <1>1, <2>1, AttachedFacts DEF ReplayOK
<1>3. /\ StandsAt(c) <= stream[c].replay /\ stream[c].replay <= stream[c].boundary
      /\ stream[c].bounds.pruned <= pruned /\ k \in stream[c].boundary..issued
      /\ stream[c].replay < stream[c].bounds.pruned
  BY <1>1, <1>2 DEF ReplayOK, PageRead, CursorIsOutsideRetention
<1>4. latestIssuedId' \in 0..issued /\ StandsAt(c) < pruned /\ k \in StandsAt(c)..issued
  BY <1>1, <1>2, <1>3, StreamFacts, NumberFacts, SMTT(30) DEF ObserveBounds
<1> HIDE DEF k
<1> QED
  BY <1>1, <1>2, <1>4, StreamResyncs

\* A page of the client's next events gives it the first of them.
LEMMA YieldDelivers ==
    ASSUME RealtimeInv, NEW c \in Clients, NEW r, YieldFromPage(c, r),
           UNCHANGED <<database, pollCursor>>, latestIssuedId' \in 0..issued,
           stream[c].pc \in Attached, r \in Record,
           Len(r.queue) <= MaximumSubscriberQueueEvents, r.pc \in Replaying,
           r.failure = "none", PositionOK(c, r, StandsAt(c), issued, pruned),
           BufferOK(c, r, StandsAt(c)), PumpAgrees(r, pollCursor), r.page # {},
           r.replay <= r.boundary, r.page = {id \in (StandsAt(c) + 1)..r.replay : Mine(c, id)}
    PROVE  RealtimeInv' /\ FeedStep
<1> DEFINE first == Min(r.page)
           rest == r.page \ {first}
           new == [r EXCEPT !.pc = "paging", !.required = first - 1, !.position = first,
                           !.page = rest]
<1>1. stream' = [stream EXCEPT ![c] = new] /\ cursor' = [cursor EXCEPT ![c] = first]
  BY DEF YieldFromPage, Yielded
<1>2. /\ r.replay \in Nat /\ r.boundary \in Nat /\ r.observed \in Nat /\ StandsAt(c) \in Nat
      /\ r.boundary <= r.observed /\ r.observed <= issued /\ r.page \subseteq Ids
      /\ r.hand = 0
  <2>1. r.replay \in Ids /\ r.boundary \in Ids /\ r.observed \in Ids /\ r.page \subseteq Ids
    BY DEF Record
  <2>2. StandsAt(c) \in 0..r.observed /\ r.boundary <= r.observed /\ r.observed <= issued
        /\ r.hand = 0
    BY SetFacts DEF PositionOK
  <2> QED
    BY <2>1, <2>2, NumberFacts
<1>3. first \in r.page /\ \A id \in r.page : first <= id
  <2>1. r.page \subseteq Nat
    BY <1>2, NumberFacts
  <2> QED
    BY <2>1, MinProperties
<1> HIDE DEF first
<1>4. /\ first \in (StandsAt(c) + 1)..r.replay /\ Mine(c, first) /\ first \in Nat
      /\ first \in Ids /\ first - 1 \in Ids /\ first \in 1..issued /\ first <= r.observed
  <2>1. first \in (StandsAt(c) + 1)..r.replay /\ Mine(c, first)
    BY <1>3
  <2>2. first \in Nat /\ 1 <= first /\ first <= r.replay /\ first <= r.observed
        /\ first <= issued
    BY <1>2, <2>1, NumberFacts, SMTT(30)
  <2>3. first \in Ids /\ first - 1 \in Ids /\ first \in 1..issued
    BY <2>2, NumberFacts
  <2> QED
    BY <2>1, <2>2, <2>3
<1>5. Comes(c, StandsAt(c), first)
  <2>1. ASSUME NEW id \in (StandsAt(c) + 1)..(first - 1), Mine(c, id) PROVE FALSE
    <3>1. id \in r.page
      BY <1>2, <1>4, <2>1
    <3> QED
      BY <1>3, <1>4, <2>1, <3>1
  <2> QED
    BY <1>2, <1>4, <2>1 DEF Comes, NoneBetween
<1>6. /\ new \in Record
      /\ new.pc = "paging" /\ new.hand = 0 /\ new.boundary = r.boundary
      /\ new.position = first
      /\ new.observed = r.observed /\ new.required = first - 1 /\ new.replay = r.replay
      /\ new.queue = r.queue /\ new.pending = r.pending /\ new.page = rest
      /\ new.failure = "none" /\ new.tail = r.tail
  <2>1. rest \subseteq Ids
    BY <1>2
  <2> HIDE DEF rest
  <2> QED
    BY <1>2, <1>4, <2>1, SetFacts DEF Record
<1>7. rest = {id \in (first + 1)..r.replay : Mine(c, id)}
  <2>1. ASSUME NEW id \in rest PROVE id \in (first + 1)..r.replay /\ Mine(c, id)
    <3>1. id \in (StandsAt(c) + 1)..r.replay /\ Mine(c, id) /\ first <= id /\ id # first
      BY <1>3, <2>1
    <3> QED
      BY <1>2, <1>4, <3>1
  <2>2. ASSUME NEW id \in (first + 1)..r.replay, Mine(c, id) PROVE id \in rest
    <3>1. id \in (StandsAt(c) + 1)..r.replay /\ id # first
      BY <1>2, <1>4
    <3> QED
      BY <2>2, <3>1
  <2> QED
    BY <2>1, <2>2
<1> HIDE DEF new, rest
<1>8. PositionOK(c, new, first, issued, pruned)
  BY <1>2, <1>4, <1>6 DEF PositionOK
<1>9. ReplayOK(c, new, first, issued, pruned)
  BY <1>2, <1>4, <1>6, <1>7 DEF ReplayOK
<1>10. BufferOK(c, new, first)
  BY <1>6, SetFacts DEF BufferOK
<1>11. StreamOK(c, new, first, issued, pruned)
  BY <1>6, <1>8, <1>9, <1>10, SetFacts DEF StreamOK
<1>12. PumpAgrees(new, pollCursor)
  BY <1>6 DEF PumpAgrees
<1>13. new.pc \in Attached
  BY <1>6, SetFacts
<1> QED
  BY <1>1, <1>4, <1>5, <1>11, <1>12, <1>13, StreamDelivers

LEMMA PullReplayKeeps ==
    ASSUME RealtimeInv, NEW c \in Clients, PullReplay(c) PROVE RealtimeInv' /\ FeedStep
<1> DEFINE k == StandsAt(c)
           r == [stream[c] EXCEPT !.required = k]
<1>1. /\ stream[c].pc = "paging" /\ stream[c].failure = "none" /\ UNCHANGED <<database, pump>>
      /\ \/ /\ r.page = {} /\ stream' = [stream EXCEPT ![c] = ContinueReplay(r)]
            /\ cursor' = cursor
         \/ r.page # {} /\ YieldFromPage(c, r)
  <2>1. stream[c].pc = "paging"
    BY DEF PullReplay
  <2>2. k = stream[c].position
    BY <2>1, StandsWithinOutbox, SetFacts
  <2> HIDE DEF k
  <2> QED
    BY <2>2 DEF PullReplay
<1>2. stream[c].pc \in Attached /\ stream[c].pc \in Replaying
  BY <1>1, SetFacts
<1>3. /\ stream[c] \in Record /\ PositionOK(c, stream[c], k, issued, pruned)
      /\ ReplayOK(c, stream[c], k, issued, pruned)
      /\ BufferOK(c, stream[c], k) /\ PumpAgrees(stream[c], pollCursor)
      /\ Len(stream[c].queue) <= MaximumSubscriberQueueEvents
      /\ k \in Nat /\ k \in Ids
  <2>1. k \in Nat /\ k <= stream[c].observed /\ stream[c].observed <= issued
    BY <1>2, AttachedFacts
  <2> QED
    BY <1>1, <1>2, <2>1, AttachedFacts, StreamFacts, NumberFacts
<1>4. /\ k <= stream[c].replay /\ stream[c].replay <= stream[c].boundary
      /\ stream[c].page = {id \in (k + 1)..stream[c].replay : Mine(c, id)}
  BY <1>1, <1>3 DEF ReplayOK
<1>5. /\ r \in Record
      /\ r.pc = "paging" /\ r.hand = stream[c].hand /\ r.boundary = stream[c].boundary
      /\ r.position = stream[c].position
      /\ r.observed = stream[c].observed /\ r.required = k /\ r.replay = stream[c].replay
      /\ r.queue = stream[c].queue /\ r.pending = stream[c].pending
      /\ r.page = stream[c].page /\ r.failure = "none" /\ r.tail = stream[c].tail
  <2> HIDE DEF k
  <2> QED
    BY <1>1, <1>3, SetFacts DEF Record
<1> HIDE DEF r
<1>6. /\ PositionOK(c, r, k, issued, pruned) /\ BufferOK(c, r, k)
      /\ PumpAgrees(r, pollCursor)
  BY <1>1, <1>2, <1>3, <1>5, SetFacts DEF PositionOK, BufferOK, PumpAgrees
<1>7. pollCursor' = pollCursor /\ latestIssuedId' \in 0..issued /\ UNCHANGED database
      /\ RealtimeAssumption /\ issued \in Ids /\ pruned \in Nat
  BY <1>1, NumberFacts DEF pump, RealtimeInv
<1>8. CASE r.page = {} /\ stream' = [stream EXCEPT ![c] = ContinueReplay(r)]
           /\ cursor' = cursor
  <2>1. NoneBetween(c, k, r.replay)
    BY <1>4, <1>5, <1>8 DEF NoneBetween
  <2>2. Ready(c, r, k, issued, pruned)
    BY <1>2, <1>3, <1>4, <1>5, <1>6, <2>1, SetFacts DEF Ready
  <2>3. /\ StreamOK(c, ContinueReplay(r), k, issued, pruned)
        /\ ContinueReplay(r).pc \in Attached
        /\ ContinueReplay(r).boundary = r.boundary /\ ContinueReplay(r).observed = r.observed
    BY <1>7, <2>2, ReadyContinues
  <2>4. PumpAgrees(ContinueReplay(r), pollCursor)
    BY <1>6, <2>3 DEF PumpAgrees
  <2> QED
    BY <1>2, <1>7, <1>8, <2>3, <2>4, StreamMoves
<1>9. CASE r.page # {} /\ YieldFromPage(c, r)
  BY <1>2, <1>3, <1>4, <1>5, <1>6, <1>7, <1>9, SetFacts, YieldDelivers
<1> QED
  BY <1>1, <1>8, <1>9

LEMMA ResumeReadKeeps ==
    ASSUME RealtimeInv, NEW c \in Clients, ResumeRead(c) PROVE RealtimeInv' /\ FeedStep
<1> DEFINE k == StandsAt(c)
           s == stream[c]
           page == s.page
           replay == IF Cardinality(page) < MaximumPageEvents THEN s.boundary ELSE Max(page)
           bounds == Closed.bounds
           r == [s EXCEPT !.bounds = bounds, !.replay = replay]
<1>1. /\ s.pc = "read" /\ s.failure = "none" /\ UNCHANGED <<database, pollCursor>>
      /\ ~CursorIsOutsideRetention(s.replay, s.bounds) /\ ObserveBounds(s.bounds)
      /\ \/ /\ page = {} /\ stream' = [stream EXCEPT ![c] = StartLive(r)]
            /\ cursor' = cursor
         \/ page # {} /\ YieldFromPage(c, r)
  BY DEF ResumeRead
<1>2. s.pc \in Attached /\ s.pc \in Replaying
  BY <1>1, SetFacts
<1>3. /\ s \in Record /\ PositionOK(c, s, k, issued, pruned)
      /\ ReplayOK(c, s, k, issued, pruned) /\ PageRead(c, s, issued, pruned)
      /\ BufferOK(c, s, k) /\ PumpAgrees(s, pollCursor)
      /\ Len(s.queue) <= MaximumSubscriberQueueEvents
      /\ k \in Nat /\ s.replay \in Nat /\ s.boundary \in Nat
      /\ s.bounds.latest \in Nat /\ s.bounds.pruned \in Nat
  BY <1>1, <1>2, AttachedFacts, StreamFacts DEF ReplayOK
<1>4. /\ k <= s.replay /\ s.replay < s.boundary /\ NoneBetween(c, k, s.replay)
      /\ s.required <= k
  BY <1>1, <1>3 DEF ReplayOK
<1>5. /\ s.bounds.latest \in s.boundary..issued
      /\ \A id \in page : id \in (s.replay + 1)..s.boundary /\ Mine(c, id)
      /\ \A id \in (s.replay + 1)..s.boundary :
           Mine(c, id) /\ id > s.bounds.pruned =>
             \/ id \in page
             \/ /\ Cardinality(page) >= MaximumPageEvents
                /\ \A other \in page : other < id
  BY <1>3 DEF PageRead
<1>6. s.bounds.pruned <= s.replay
  <2>1. ~(s.replay < s.bounds.latest /\ s.replay < s.bounds.pruned)
    BY <1>1 DEF CursorIsOutsideRetention
  <2> HIDE DEF s
  <2>2. s.replay < s.bounds.latest
    BY <1>3, <1>4, <1>5, NumberFacts
  <2> QED
    BY <1>3, <2>1, <2>2
<1>7. /\ latestIssuedId' \in 0..issued /\ UNCHANGED database /\ pollCursor' = pollCursor
      /\ RealtimeAssumption /\ issued \in Ids /\ pruned \in Nat
      /\ MaximumPageEvents \in Nat \ {0}
  BY <1>1, <1>3, <1>5, NumberFacts, ConstantFacts DEF ObserveBounds
<1>8. page \subseteq Nat /\ \A id \in page : id <= s.boundary /\ id > s.replay
  BY <1>3, <1>5, SMTT(30)
<1>9. IsFiniteSet(page) /\ Cardinality(page) \in Nat
  <2>1. IsFiniteSet(page)
    BY <1>3, <1>8, FS_BoundedSetOfNaturals
  <2> QED
    BY <2>1, FS_CardinalityType
<1>10. /\ replay \in Nat /\ replay <= s.boundary /\ k <= replay
       /\ \A id \in page : id <= replay
       /\ \A id \in (s.replay + 1)..replay :
            Mine(c, id) => id \in page
  <2>1. CASE Cardinality(page) < MaximumPageEvents
    <3>1. replay = s.boundary
      BY <2>1
    <3> HIDE DEF page, replay
    <3> QED
      <4> HIDE DEF s, k
      <4>1. replay \in Nat /\ replay <= s.boundary /\ k <= replay
            /\ \A id \in page : id <= replay
        BY <1>3, <1>4, <1>8, <3>1
      <4>2. ASSUME NEW id \in (s.replay + 1)..replay, Mine(c, id) PROVE id \in page
        <5>1. id \in (s.replay + 1)..s.boundary /\ id > s.bounds.pruned
          BY <1>3, <1>6, <3>1
        <5>2. ~(Cardinality(page) >= MaximumPageEvents)
          BY <1>7, <1>9, <2>1
        <5> QED
          BY <1>5, <4>2, <5>1, <5>2
      <4> QED
        BY <4>1, <4>2
  <2>2. CASE ~(Cardinality(page) < MaximumPageEvents)
    <3>1. replay = Max(page)
      BY <2>2
    <3>2. page # {}
      BY <1>7, <2>2, FS_EmptySet
    <3>3. replay \in page /\ \A id \in page : id <= replay
      BY <1>3, <1>8, <3>1, <3>2, MaxProperties
    <3> HIDE DEF page, replay
    <3>4. replay \in Nat /\ replay <= s.boundary /\ replay > s.replay
      BY <1>8, <3>3
    <3>5. ASSUME NEW id \in (s.replay + 1)..replay, Mine(c, id) PROVE id \in page
      <4>1. id \in (s.replay + 1)..s.boundary /\ id > s.bounds.pruned /\ ~(replay < id)
        BY <1>3, <1>6, <3>4
      <4> QED
        BY <1>5, <3>3, <3>5, <4>1
    <3> QED
      <4> HIDE DEF s, k
      <4>1. k <= replay
        BY <1>3, <1>4, <3>4
      <4> QED
        BY <3>3, <3>4, <3>5, <4>1
  <2> QED
    BY <2>1, <2>2
<1>11. replay \in Ids /\ bounds \in [latest : Ids, pruned : Ids]
  <2>1. replay \in Ids
    <3> HIDE DEF replay
    <3>1. s.boundary \in Ids
      BY <1>3 DEF Record
    <3> QED
      BY <1>10, <3>1, NumberFacts
  <2>2. bounds \in [latest : Ids, pruned : Ids]
    BY NumberFacts DEF Closed
  <2> QED
    BY <2>1, <2>2
<1> HIDE DEF page, replay, bounds
<1>12. /\ r \in Record
       /\ r.pc = "read" /\ r.hand = s.hand /\ r.boundary = s.boundary
       /\ r.position = s.position
       /\ r.observed = s.observed /\ r.required = s.required /\ r.replay = replay
       /\ r.queue = s.queue /\ r.pending = s.pending
       /\ r.page = page /\ r.failure = "none" /\ r.tail = s.tail
  <2>1. s.page = page
    BY DEF page
  <2> HIDE DEF s
  <2> QED
    BY <1>1, <1>3, <1>11, <2>1 DEF Record
<1> HIDE DEF r
<1>13. /\ PositionOK(c, r, k, issued, pruned) /\ BufferOK(c, r, k)
       /\ PumpAgrees(r, pollCursor)
  BY <1>1, <1>2, <1>3, <1>12, SetFacts DEF PositionOK, BufferOK, PumpAgrees
<1>14. page = {id \in (k + 1)..replay : Mine(c, id)}
  <2>1. ASSUME NEW id \in page PROVE id \in (k + 1)..replay /\ Mine(c, id)
    BY <1>3, <1>4, <1>5, <1>8, <1>10
  <2>2. ASSUME NEW id \in (k + 1)..replay, Mine(c, id) PROVE id \in page
    <3>1. id \notin (k + 1)..s.replay
      BY <1>4, <2>2 DEF NoneBetween
    <3>2. id \in (s.replay + 1)..replay
      BY <1>3, <1>10, <3>1
    <3> QED
      BY <1>10, <2>2, <3>2
  <2> QED
    BY <2>1, <2>2
<1>15. CASE page = {} /\ stream' = [stream EXCEPT ![c] = StartLive(r)] /\ cursor' = cursor
  <2>1. replay = s.boundary
    BY <1>7, <1>15, FS_EmptySet DEF replay
  <2>2. NoneBetween(c, k, replay)
    BY <1>14, <1>15 DEF NoneBetween
  <2>3. Ready(c, r, k, issued, pruned)
    BY <1>2, <1>3, <1>4, <1>10, <1>12, <1>13, <2>2, SetFacts DEF Ready
  <2>4. /\ StreamOK(c, StartLive(r), k, issued, pruned)
        /\ StartLive(r).pc = "waiting"
        /\ StartLive(r).boundary = r.boundary /\ StartLive(r).observed = r.observed
    BY <1>7, <1>12, <2>1, <2>3, ReadyStartsLive
  <2>5. PumpAgrees(StartLive(r), pollCursor)
    BY <1>13, <2>4 DEF PumpAgrees
  <2> QED
    BY <1>2, <1>7, <1>15, <2>4, <2>5, SetFacts, StreamMoves
<1>16. CASE page # {} /\ YieldFromPage(c, r)
  BY SMTT(30), <1>2, <1>3, <1>7, <1>10, <1>12, <1>13, <1>14, <1>16, SetFacts, YieldDelivers
<1> QED
  BY <1>1, <1>15, <1>16

LEMMA DeliverLiveKeeps ==
    ASSUME RealtimeInv, NEW c \in Clients, DeliverLive(c) PROVE RealtimeInv' /\ FeedStep
<1> DEFINE r == stream[c]
           k == r.hand
           new == [r EXCEPT !.pc = "yielded", !.position = k, !.hand = 0]
<1>1. /\ r.pc = "waiting" /\ k # 0 /\ UNCHANGED <<database, pump>>
      /\ stream' = [stream EXCEPT ![c] = new] /\ cursor' = [cursor EXCEPT ![c] = k]
  BY DEF DeliverLive, Yielded, RealtimeInv
<1>2. r.pc \in Attached /\ r.pc \notin Replaying
  BY <1>1, SetFacts
<1>3. /\ r \in Record /\ PositionOK(c, r, StandsAt(c), issued, pruned)
      /\ r.failure = "none" => BufferOK(c, r, StandsAt(c)) /\ PumpAgrees(r, pollCursor)
      /\ Len(r.queue) <= MaximumSubscriberQueueEvents
      /\ StandsAt(c) \in Nat /\ k \in Nat /\ r.observed \in Nat /\ r.observed <= issued
  BY <1>2, AttachedFacts, StreamFacts
<1>4. /\ Comes(c, StandsAt(c), k) /\ k <= r.observed /\ r.pending # <<>>
  BY <1>1, <1>3 DEF PositionOK
<1>5. k \in 1..issued /\ k \in 0..r.observed /\ k \in Ids
  BY <1>1, <1>3, <1>4, NumberFacts
<1> HIDE DEF r
<1>6. /\ new \in Record
      /\ new.pc = "yielded" /\ new.hand = 0 /\ new.boundary = r.boundary
      /\ new.position = k
      /\ new.observed = r.observed /\ new.required = r.required
      /\ new.queue = r.queue /\ new.pending = r.pending
      /\ new.failure = r.failure /\ new.tail = r.tail
  <2>1. 0 \in Ids
    BY NumberFacts
  <2> QED
    BY <1>3, <1>5, <2>1, SetFacts DEF Record
<1> HIDE DEF new, k
<1>7. PositionOK(c, new, k, issued, pruned)
  BY <1>3, <1>4, <1>5, <1>6 DEF PositionOK
<1>8. ASSUME r.failure = "none" PROVE BufferOK(c, new, k) /\ PumpAgrees(new, pollCursor)
  <2>1. QueueHolds(c, r.queue, k, r.observed) /\ r.pending = <<k>> \o r.queue
        /\ r.required = RequiredAfter(r)
    BY <1>1, <1>3, <1>8, SetFacts DEF BufferOK, k
  <2>2. new.required = RequiredAfter(new)
    BY <1>6, <2>1 DEF RequiredAfter
  <2> QED
    BY <1>3, <1>6, <1>8, <2>1, <2>2, SetFacts DEF BufferOK, PumpAgrees
<1>9. StreamOK(c, new, k, issued, pruned) /\ (Listens(new) => PumpAgrees(new, pollCursor))
  BY <1>3, <1>6, <1>7, <1>8, SetFacts DEF StreamOK, Listens
<1>10. UNCHANGED <<database, pollCursor>> /\ latestIssuedId' \in 0..issued
  BY <1>1 DEF pump, RealtimeInv
<1>11. new.pc \in Attached /\ stream[c].pc \in Attached
  BY <1>2, <1>6, SetFacts DEF r
<1> QED
  BY <1>1, <1>4, <1>5, <1>9, <1>10, <1>11, StreamDelivers

LEMMA PullLiveKeeps ==
    ASSUME RealtimeInv, NEW c \in Clients, PullLive(c) PROVE RealtimeInv' /\ FeedStep
<1> DEFINE r == stream[c]
           k == StandsAt(c)
           acknowledged == [r EXCEPT !.pending = Tail(@)]
           told == AdvanceRequiredCursor(acknowledged)
<1>1. /\ r.pc = "yielded" /\ UNCHANGED <<database, pump, cursor>>
      /\ stream' = [stream EXCEPT ![c] = NextFromQueue(told)]
  <2>1. /\ r.pc = "yielded" /\ UNCHANGED <<database, pump, cursor>>
        /\ stream' = [stream EXCEPT ![c] = NextFromQueue(AdvanceRequiredCursor(
                                       [stream[c] EXCEPT !.pending = Tail(@)]))]
    BY DEF PullLive
  <2> QED
    BY <2>1
<1>2. r.pc \in Attached /\ r.pc \notin Replaying /\ r.pc \in ReplayComplete
  BY <1>1, SetFacts
<1>3. /\ r \in Record /\ PositionOK(c, r, k, issued, pruned)
      /\ r.failure = "none" => BufferOK(c, r, k) /\ PumpAgrees(r, pollCursor)
      /\ Len(r.queue) <= MaximumSubscriberQueueEvents /\ k \in Nat
  BY <1>2, AttachedFacts, StreamFacts
<1>4. r.pending # <<>> /\ r.hand = 0
  BY <1>1, <1>3 DEF PositionOK
<1>5. Tail(r.pending) \in Seq(Ids \ {0})
  <2>1. r.pending \in Seq(Ids \ {0})
    BY <1>3 DEF Record
  <2> QED
    BY <1>4, <2>1, HeadTailProperties
<1> HIDE DEF r, k
<1>6. /\ acknowledged \in Record
      /\ acknowledged.pc = r.pc /\ acknowledged.hand = 0
      /\ acknowledged.boundary = r.boundary
      /\ acknowledged.position = r.position
      /\ acknowledged.observed = r.observed /\ acknowledged.queue = r.queue
      /\ acknowledged.pending = Tail(r.pending)
      /\ acknowledged.failure = r.failure /\ acknowledged.tail = r.tail
  BY <1>3, <1>4, <1>5 DEF Record
<1> HIDE DEF acknowledged
<1>7. /\ told \in Record
      /\ told.hand = 0 /\ told.boundary = r.boundary
      /\ told.position = r.position
      /\ told.observed = r.observed /\ told.queue = r.queue
      /\ told.pending = Tail(r.pending)
      /\ told.failure = r.failure /\ told.tail = r.tail
      /\ told.required = RequiredAfter(told)
  <2>1. RequiredAfter(told) = RequiredAfter(acknowledged)
    BY <1>6, NumberFacts, AdvanceMovesRequired DEF RequiredAfter
  <2> QED
    BY <1>2, <1>6, <2>1, NumberFacts, AdvanceMovesRequired
<1> HIDE DEF told
<1>8. ASSUME r.failure = "none"
      PROVE  QueueHolds(c, r.queue, k, r.observed) /\ Tail(r.pending) = r.queue
  <2>1. QueueHolds(c, r.queue, k, r.observed) /\ r.pending = <<k>> \o r.queue
    BY <1>1, <1>3, <1>8 DEF BufferOK
  <2>2. Tail(<<k>> \o r.queue) = r.queue
    <3>1. r.queue \in Seq(Nat)
      <4>1. r.queue \in Seq(Ids \ {0})
        BY <1>3 DEF Record
      <4>2. Ids \ {0} \subseteq Nat
        BY NumberFacts
      <4> QED
        BY <4>1, <4>2
    <3> QED
      BY <1>3, <3>1, Prepended
  <2> QED
    BY <2>1, <2>2
<1>9. Live(c, told, k, issued, pruned)
  BY <1>3, <1>7, <1>8 DEF Live, PositionOK
<1>10. /\ StreamOK(c, NextFromQueue(told), k, issued, pruned)
       /\ NextFromQueue(told).pc = "waiting"
       /\ NextFromQueue(told).boundary = r.boundary
       /\ NextFromQueue(told).observed = r.observed
       /\ NextFromQueue(told).failure = r.failure
  BY <1>7, <1>9, NumberFacts, NextServes
<1>11. Listens(NextFromQueue(told)) => PumpAgrees(NextFromQueue(told), pollCursor)
  BY <1>3, <1>10 DEF Listens, PumpAgrees
<1>12. UNCHANGED <<database, pollCursor, cursor>> /\ latestIssuedId' \in 0..issued
  BY <1>1 DEF pump, RealtimeInv
<1>13. NextFromQueue(told).pc \in Attached /\ stream[c].pc \in Attached
  BY <1>2, <1>10, SetFacts DEF r
<1> QED
  BY <1>1, <1>10, <1>11, <1>12, <1>13, StreamMoves DEF k

-----------------------------------------------------------------------------
(* The theorems                                                              *)

LEMMA GeneratorKeeps ==
    ASSUME RealtimeInv, NEW c \in Clients, Generator(c) PROVE RealtimeInv' /\ FeedStep
BY ReadBoundsKeeps, OpeningFailedKeeps, AttachOutsideRetentionKeeps, AttachKeeps,
   ReadReplayKeeps, ReplayOutsideRetentionKeeps, ResumeReadKeeps, PullReplayKeeps,
   DeliverLiveKeeps, PullLiveKeeps, TerminalKeeps
DEF Generator

LEMMA StepKeeps ==
    ASSUME RealtimeInv, [Next]_vars PROVE RealtimeInv' /\ FeedStep
<1>1. CASE Issue
  <2>1. Feed!Issue
    BY <1>1 DEF Issue, Feed!Issue, FeedPosition
  <2> QED
    BY <1>1, <2>1, IssueKeeps DEF FeedStep, Feed!FeedNext
<1>2. ASSUME NEW through, Prune(through) PROVE RealtimeInv' /\ FeedStep
  <2>1. through \in 1..issued /\ through > pruned
    BY <1>2, NumberFacts DEF Prune
  <2>2. Feed!Prune(through)
    BY <1>2, <2>1 DEF Prune, Feed!Prune, FeedPosition
  <2> QED
    BY <1>2, <2>1, <2>2, PruneKeeps DEF FeedStep, Feed!FeedNext
<1>3. CASE Poll
  <2>1. RealtimeInv' /\ FeedPosition' = FeedPosition
    BY <1>3, PollIdleKeeps, PollOutsideRetentionKeeps, PollPageKeeps DEF Poll
  <2>2. UNCHANGED Feed!feedVars
    BY <1>3, <2>1
    DEF Poll, PollIdle, PollOutsideRetention, PollPage, database, Feed!feedVars
  <2> QED
    BY <2>1, <2>2 DEF FeedStep
<1>4. CASE PollFails
  <2>1. UNCHANGED Feed!feedVars
    BY <1>4, PollFailsKeeps DEF PollFails, database, Feed!feedVars
  <2> QED
    BY <1>4, <2>1, PollFailsKeeps DEF FeedStep
<1>5. ASSUME NEW c \in Clients, Open(c) \/ Generator(c) \/ Disconnect(c)
      PROVE  RealtimeInv' /\ FeedStep
  BY <1>5, OpenKeeps, GeneratorKeeps, DisconnectKeeps
<1>6. CASE Restart
  <2>1. issued' = issued /\ pruned' = pruned /\ cursor' = cursor
        /\ stream' = [c \in Clients |-> Closed]
    BY <1>6 DEF Restart, database
  <2>2. FeedPosition' = [c \in Clients |-> NoStream]
    BY <2>1, SetFacts DEF FeedPosition, Closed
  <2>3. Feed!End(Clients)
    BY <2>1, <2>2 DEF Feed!End, NoStream, Feed!NoStream
  <2>4. Clients \in SUBSET Clients
    OBVIOUS
  <2> QED
    BY <1>6, <2>3, <2>4, RestartKeeps DEF FeedStep, Feed!FeedNext
<1>7. CASE UNCHANGED vars
  <2>1. /\ issued' = issued /\ pruned' = pruned /\ pollCursor' = pollCursor
        /\ latestIssuedId' = latestIssuedId /\ stream' = stream /\ cursor' = cursor
    BY <1>7 DEF vars
  <2>2. RealtimeInv'
    BY <2>1 DEF RealtimeInv, StandsAt
  <2> QED
    BY <2>1, <2>2 DEF FeedStep, Feed!feedVars, FeedPosition
<1> QED
  BY <1>1, <1>2, <1>3, <1>4, <1>5, <1>6, <1>7 DEF Next

LEMMA FeedBegins == Init => Feed!FeedInit
BY SetFacts DEF Init, Feed!FeedInit, NoCursor, Feed!NoCursor, FeedPosition, NoStream,
                Feed!NoStream, Closed

\* The inductive invariant: every stream stands to its client, the poll and retention
\* as the part of its life it is in requires.
THEOREM RealtimeInvariance == RealtimeAssumption /\ Spec => []RealtimeInv
<1>1. RealtimeAssumption /\ Init => RealtimeInv
  BY InitInv
<1>2. RealtimeInv /\ [Next]_vars => RealtimeInv'
  BY StepKeeps
<1> QED
  BY <1>1, <1>2, PTL DEF Spec

LEMMA InvIsTyped == RealtimeInv => TypeOK
<1> SUFFICES ASSUME RealtimeInv PROVE TypeOK
  OBVIOUS
<1>1. Seq(Ids \ {0}) \subseteq Seq(Ids)
  OBVIOUS
<1>2. Record \subseteq StreamType
  BY <1>1 DEF Record, StreamType
<1>3. stream \in [Clients -> StreamType]
  BY <1>2 DEF RealtimeInv
<1>4. cursor \in [Clients -> Ids \cup {NoCursor}]
  <2>1. NoCursor..issued \subseteq Ids \cup {NoCursor}
    BY NumberFacts DEF NoCursor
  <2> QED
    BY <2>1 DEF RealtimeInv
<1>5. \A c \in Clients : Len(stream[c].queue) <= MaximumSubscriberQueueEvents
  BY DEF RealtimeInv, StreamOK
<1> QED
  BY <1>3, <1>4, <1>5 DEF TypeOK, RealtimeInv

\* The outbox, the pump, the generators and the cursors keep their types, and no queue
\* outgrows its budget, however many subscribers follow the outbox.
THEOREM PumpStaysTyped == RealtimeAssumption /\ Spec => []TypeOK
BY InvIsTyped, RealtimeInvariance, PTL

LEMMA NothingThrows == RealtimeInv => PollNeverThrows
<1> SUFFICES ASSUME RealtimeInv PROVE PollNeverThrows
  OBVIOUS
<1>1. ASSUME Subscribers # {}, CursorIsOutsideRetention(ActiveFloor, Bounds)
      PROVE  \E c \in Subscribers : CursorIsOutsideRetention(stream[c].observed, Bounds)
  <2>1. PICK c \in Subscribers : stream[c].observed = ActiveFloor
    BY <1>1, FloorFacts
  <2> QED
    BY <1>1, <2>1
<1>2. ASSUME NEW c \in Clients, stream[c].pc = "opened"
      PROVE  cursor[c] <= ReplayBoundary(c)
  BY <1>2, BoundaryFacts, StreamFacts
<1> QED
  BY <1>1, <1>2 DEF PollNeverThrows

LEMMA PendingAgrees == RealtimeInv => PendingIsWhatIsBuffered
<1> SUFFICES ASSUME RealtimeInv, NEW c \in Clients, Listens(stream[c])
             PROVE  stream[c].pending =
                      (IF stream[c].pc = "yielded" THEN <<stream[c].position>> ELSE <<>>)
                      \o (IF stream[c].hand # 0 THEN <<stream[c].hand>> ELSE <<>>)
                      \o stream[c].queue
  BY DEF PendingIsWhatIsBuffered, Listens
<1> DEFINE r == stream[c]
           k == stream[c].position
<1>1. /\ r \in Record /\ PositionOK(c, r, k, issued, pruned) /\ BufferOK(c, r, k)
      /\ k \in Nat /\ r.hand \in Nat
  BY AttachedFacts, StreamFacts DEF Listens
<1>2. r.queue \in Seq(Nat)
  <2>1. Ids \ {0} \subseteq Nat
    BY NumberFacts
  <2>2. r.queue \in Seq(Ids \ {0})
    BY <1>1 DEF Record
  <2> QED
    BY <2>1, <2>2
<1>3. /\ <<>> \o r.queue = r.queue
      /\ \A x \in Nat : <<>> \o <<x>> = <<x>> /\ <<x>> \o <<>> = <<x>>
  BY <1>2
<1>4. r.pc \in Replaying \/ r.pc = "waiting" \/ r.pc = "yielded"
  BY SetFacts DEF Listens
<1> HIDE DEF r, k
<1>5. CASE r.pc \in Replaying
  <2>1. r.hand = 0 /\ r.pc # "yielded" /\ r.pending = r.queue
    BY <1>1, <1>5, SetFacts DEF PositionOK, BufferOK
  <2>2. r.pending = (<<>> \o <<>>) \o r.queue
    BY <1>3, <2>1
  <2> QED
    BY <2>1, <2>2 DEF r, k
<1>6. CASE r.pc = "waiting" /\ r.hand = 0
  <2>1. r.pending = <<>> /\ r.queue = <<>>
    BY <1>1, <1>6 DEF BufferOK
  <2>2. r.pending = (<<>> \o <<>>) \o r.queue
    BY <1>3, <2>1
  <2> QED
    BY <1>6, <2>2 DEF r, k
<1>7. CASE r.pc = "waiting" /\ r.hand # 0
  <2>1. r.pending = <<r.hand>> \o r.queue
    BY <1>1, <1>7 DEF BufferOK
  <2>2. r.pending = (<<>> \o <<r.hand>>) \o r.queue
    BY <1>1, <1>3, <2>1
  <2> QED
    BY <1>7, <2>2 DEF r, k
<1>8. CASE r.pc = "yielded"
  <2>1. r.hand = 0 /\ r.pending = <<k>> \o r.queue
    BY <1>1, <1>8 DEF BufferOK, PositionOK
  <2>2. r.pending = (<<k>> \o <<>>) \o r.queue
    BY <1>1, <1>3, <2>1
  <2> QED
    BY <1>8, <2>1, <2>2 DEF r, k
<1> QED
  BY <1>4, <1>5, <1>6, <1>7, <1>8

LEMMA RequiredAgrees == RealtimeInv => RequiredCursorProtects
<1> SUFFICES ASSUME RealtimeInv, NEW c \in Subscribers,
                    NEW id \in (stream[c].position + 1)..stream[c].required
             PROVE  ~Mine(c, id)
  BY DEF RequiredCursorProtects, Mine
<1> DEFINE r == stream[c]
           k == stream[c].position
<1>1. c \in Clients /\ Listens(r)
  BY DEF Subscribers, Listens
<1>2. /\ r \in Record /\ PositionOK(c, r, k, issued, pruned) /\ BufferOK(c, r, k)
      /\ r.pc \in Replaying => ReplayOK(c, r, k, issued, pruned)
      /\ k \in Nat /\ r.hand \in Nat /\ r.required \in Nat /\ r.observed \in Nat
  BY <1>1, AttachedFacts, StreamFacts DEF Listens
<1>3. r.pc \in Replaying \/ r.pc = "waiting" \/ r.pc = "yielded"
  BY <1>1, SetFacts DEF Listens
<1>4. id \in (k + 1)..r.required
  OBVIOUS
<1>5. r.queue \in Seq(Nat)
  <2>1. Ids \ {0} \subseteq Nat
    BY NumberFacts
  <2>2. r.queue \in Seq(Ids \ {0})
    BY <1>2 DEF Record
  <2> QED
    BY <2>1, <2>2
<1> HIDE DEF r, k
<1>6. CASE r.pc \in Replaying
  BY <1>2, <1>4, <1>6 DEF ReplayOK
<1>7. CASE r.pc = "waiting" /\ r.hand = 0
  <2>1. r.required = r.observed /\ NoneBetween(c, k, r.observed)
    BY <1>2, <1>7, SetFacts DEF BufferOK, RequiredAfter
  <2> QED
    BY <1>4, <2>1 DEF NoneBetween
<1>8. CASE r.pc = "waiting" /\ r.hand # 0
  <2>1. /\ r.required = RequiredAfter(r) /\ r.pending = <<r.hand>> \o r.queue
        /\ r.pending # <<>> /\ Comes(c, k, r.hand)
    BY <1>2, <1>8, SetFacts DEF BufferOK, PositionOK
  <2>2. Head(<<r.hand>> \o r.queue) = r.hand
    BY <1>2, <1>5, Prepended
  <2>3. r.required = r.hand - 1
    BY <2>1, <2>2 DEF RequiredAfter
  <2> QED
    BY <1>4, <2>1, <2>3 DEF Comes, NoneBetween
<1>9. CASE r.pc = "yielded"
  <2>1. /\ r.required = RequiredAfter(r) /\ r.pending = <<k>> \o r.queue /\ r.pending # <<>>
    BY <1>2, <1>9, SetFacts DEF BufferOK, PositionOK
  <2>2. Head(<<k>> \o r.queue) = k
    BY <1>2, <1>5, Prepended
  <2>3. r.required = k - 1
    BY <2>1, <2>2 DEF RequiredAfter
  <2> QED
    BY <1>2, <1>4, <2>3
<1> QED
  BY <1>3, <1>6, <1>7, <1>8, <1>9

\* The poll and the streams never end by a defect of their own, and retention that keeps
\* what each subscriber requires keeps every event its stream has not yielded: for any
\* pages, queues, topics and number of clients.
THEOREM CursorsAlwaysProtect == RealtimeAssumption /\ Spec => []CursorsProtect
<1>1. RealtimeInv => CursorsProtect
  BY NothingThrows, PendingAgrees, RequiredAgrees DEF CursorsProtect
<1> QED
  BY <1>1, RealtimeInvariance, PTL

\* The pump, its streams, their failures and restarts give every client what EventFeed
\* promises: within a stream, each event of its topics once and in order, or a resync
\* after a loss; the next stream resumes at the last delivery. A client that was given
\* nothing yet has nothing to resume from, and the promise says so.
THEOREM PumpImplementsFeed == RealtimeAssumption /\ Spec => ImplementsFeed
<1>1. Init => Feed!FeedInit
  BY FeedBegins
<1>2. RealtimeInv /\ [Next]_vars => [Feed!FeedNext]_(Feed!feedVars)
  BY StepKeeps DEF FeedStep
<1> QED
  BY <1>1, <1>2, RealtimeInvariance, PTL DEF Spec, ImplementsFeed, Feed!FeedSpec
=============================================================================
