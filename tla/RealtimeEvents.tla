--------------------------- MODULE RealtimeEvents ---------------------------
(***************************************************************************)
(* The realtime event pump of one server process: the durable outbox, the   *)
(* poll that moves one cursor over it for all streams, and the async         *)
(* generator of each stream (opening, replay up to a boundary, live queue).  *)
(* A generator action runs from one suspension point, an await or a yield,   *)
(* to the next; a poll is one synchronous action.                            *)
(***************************************************************************)
EXTENDS Integers, Sequences, FiniteSets, FiniteSetsExt

CONSTANTS
    Clients,                       \* browser tabs, one stream each
    MaximumIssued,                 \* bound: events ever written
    TopicAt,                       \* the topic of every event, by its id
    TopicsOf,                      \* the topics each client subscribes to
    MaximumPageEvents,             \* maximumPageEvents
    MaximumSubscriberQueueEvents,  \* maximumSubscriberQueueEvents
    MaximumSubscribers             \* maximumSubscribers

\* What the constants are taken to be
RealtimeAssumption ==
    /\ MaximumIssued \in Nat
    /\ DOMAIN TopicAt = 1..MaximumIssued
    /\ DOMAIN TopicsOf = Clients
    /\ MaximumPageEvents \in Nat \ {0}
    /\ MaximumSubscriberQueueEvents \in Nat
    /\ MaximumSubscriberQueueEvents >= MaximumPageEvents
    /\ MaximumSubscribers \in Nat \ {0}

VARIABLES
    issued,         \* AUTOINCREMENT high-water mark of the outbox
    pruned,         \* rows 1..pruned have been deleted
    pollCursor,     \* RealtimeEventPumpState.pollCursor
    latestIssuedId, \* RealtimeEventPumpState.latestIssuedId, as last observed
    stream,         \* the subscriber generator of each client
    cursor          \* last id the client received, the resume point of its next stream

database == <<issued, pruned>>
pump == <<pollCursor, latestIssuedId>>
vars == <<issued, pruned, pollCursor, latestIssuedId, stream, cursor>>

Ids == 0..MaximumIssued
NoCursor == -1
NoStream == -1

\* RealtimeCursorBounds: the high-water mark survives pruning.
Bounds == [latest |-> issued, pruned |-> pruned]

CursorIsOutsideRetention(id, bounds) ==
    /\ id < bounds.latest
    /\ id < bounds.pruned

\* No stream. The generator has not been created or has returned.
Closed ==
    [pc |-> "closed", boundary |-> 0, observed |-> 0, required |-> 0, position |-> 0,
     replay |-> 0, bounds |-> [latest |-> 0, pruned |-> 0], page |-> {},
     queue |-> <<>>, pending |-> <<>>, hand |-> 0, failure |-> "none", tail |-> 0]

Opening == {"opening", "opened"}
ReplayComplete == {"waiting", "yielded"}
Attached == {"reading", "read", "paging"} \cup ReplayComplete

Subscribers == {c \in Clients : stream[c].pc \in Attached /\ stream[c].failure = "none"}
OpeningSubscribers == {c \in Clients : stream[c].pc \in Opening}

Larger(a, b) == IF a >= b THEN a ELSE b

\* Rows readable after one id and through another, the oldest, one page at most.
EveryTopic == {TopicAt[id] : id \in DOMAIN TopicAt}
Rows(afterId, throughId, topics) ==
    {id \in (afterId + 1)..throughId : id > pruned /\ TopicAt[id] \in topics}
Page(afterId, throughId, topics) ==
    LET rows == Rows(afterId, throughId, topics) IN
    {id \in rows : Cardinality({older \in rows : older < id}) < MaximumPageEvents}

SmallestObserved(clients) == Min({stream[c].observed : c \in clients})
-----------------------------------------------------------------------------
(* The subscriber record.                                                    *)

\* advanceRequiredCursor: what must stay in the outbox for this subscriber.
\* It never decreases: that throws.
RequiredAfter(r) == IF r.pending = <<>> THEN r.observed ELSE Head(r.pending) - 1
AdvanceRequiredCursor(r) ==
    IF r.pc \in ReplayComplete THEN [r EXCEPT !.required = RequiredAfter(r)] ELSE r

\* failSubscriber and forceSubscriberResync: buffered deliveries are discarded.
Fail(r) == [r EXCEPT !.failure = "error", !.queue = <<>>]
ForceResync(r, tailId) == [r EXCEPT !.failure = "resync", !.tail = tailId, !.queue = <<>>]

(* Mutant: a pending read is not woken by a new value.                         *)
PushWithoutWaking(r, id) ==
    IF Len(r.queue) >= MaximumSubscriberQueueEvents THEN Fail(r)
    ELSE [r EXCEPT !.queue = Append(@, id)]

\* BoundedAsyncQueue.push: a pending read takes the value at once.
Push(r, id) ==
    IF r.pc = "waiting" /\ r.hand = 0 /\ r.queue = <<>> THEN [r EXCEPT !.hand = id]
    ELSE IF Len(r.queue) >= MaximumSubscriberQueueEvents THEN Fail(r)
    ELSE [r EXCEPT !.queue = Append(@, id)]

\* BoundedAsyncQueue.next: a buffered value, or a read left pending.
NextFromQueue(r) ==
    IF r.queue = <<>> THEN [r EXCEPT !.pc = "waiting", !.hand = 0]
    ELSE [r EXCEPT !.pc = "waiting", !.hand = Head(r.queue), !.queue = Tail(@)]

\* What the poll does with one event for one subscriber.
Observe(c, r, id) ==
    IF r.failure # "none" \/ id <= r.boundary THEN r
    ELSE LET seen == [r EXCEPT !.observed = id]
         IN IF TopicAt[id] \in TopicsOf[c]
            THEN Push(AdvanceRequiredCursor([seen EXCEPT !.pending = Append(@, id)]), id)
            ELSE AdvanceRequiredCursor(seen)

\* The subscriber record after each id the poll comes to, the ids of a page in order
Observed(c, floor, page) ==
    LET after[id \in floor..issued] ==
            IF id = floor THEN stream[c]
            ELSE IF id \in page THEN Observe(c, after[id - 1], id)
            ELSE after[id - 1]
    IN after
-----------------------------------------------------------------------------
Init ==
    /\ issued = 0
    /\ pruned = 0
    /\ pollCursor = 0
    /\ latestIssuedId = 0
    /\ stream = [c \in Clients |-> Closed]
    /\ cursor = [c \in Clients |-> NoCursor]

(* The database: mutations write their event in their own transaction; rows  *)
(* leave by retention, oldest first.                                         *)
Issue ==
    /\ issued < MaximumIssued
    /\ issued' = issued + 1
    /\ UNCHANGED <<pruned, pump, stream, cursor>>

Prune(through) ==
    /\ through \in (pruned + 1)..issued
    /\ pruned' = through
    /\ UNCHANGED <<issued, pump, stream, cursor>>
-----------------------------------------------------------------------------
(* The poll.                                                                 *)

(* Mutant: the poll keeps a cursor that only a departed subscriber needed.     *)
FloorOfDepartedSubscribers == pollCursor

ActiveFloor ==
    Larger(pollCursor, SmallestObserved(Subscribers))

PollIdle ==
    /\ Subscribers = {}
    /\ latestIssuedId' = issued
    /\ pollCursor' = issued
    /\ UNCHANGED <<database, stream, cursor>>

\* Retention has passed the poll cursor: the subscribers that needed the rows resync.
PollOutsideRetention ==
    /\ Subscribers # {}
    /\ CursorIsOutsideRetention(ActiveFloor, Bounds)
    /\ LET affected ==
               {c \in Subscribers : CursorIsOutsideRetention(stream[c].observed, Bounds)}
           remaining == Subscribers \ affected
       IN /\ stream' = [c \in Clients |-> IF c \in affected
                                          THEN ForceResync(stream[c], issued)
                                          ELSE stream[c]]
          /\ pollCursor' = IF remaining = {} THEN issued
                           ELSE Larger(ActiveFloor, SmallestObserved(remaining))
    /\ latestIssuedId' = issued
    /\ UNCHANGED <<database, cursor>>

PollPage ==
    /\ Subscribers # {}
    /\ ~CursorIsOutsideRetention(ActiveFloor, Bounds)
    /\ LET page == Page(ActiveFloor, issued, EveryTopic)
           after == [c \in Clients |->
                        IF c \in Subscribers
                        THEN Observed(c, ActiveFloor, page)[issued]
                        ELSE stream[c]]
           someRemain == \E c \in Subscribers : after[c].failure = "none"
       IN /\ stream' = after
          /\ pollCursor' = IF ~someRemain THEN issued
                           ELSE IF page = {} THEN ActiveFloor ELSE Max(page)
    /\ latestIssuedId' = issued
    /\ UNCHANGED <<database, cursor>>

\* The store stays busy or unavailable through every retry of the poll.
PollFails ==
    /\ stream' = [c \in Clients |-> IF c \in Subscribers \cup OpeningSubscribers
                                    THEN Fail(stream[c]) ELSE stream[c]]
    /\ UNCHANGED <<database, pump, cursor>>
-----------------------------------------------------------------------------
(* The generator of one stream.                                              *)

Open(c) ==
    /\ stream[c].pc = "closed"
    /\ Cardinality(OpeningSubscribers \cup Subscribers) < MaximumSubscribers
    /\ stream' = [stream EXCEPT ![c].pc = "opening"]
    /\ UNCHANGED <<database, pump, cursor>>

\* The asynchronous read of the bounds; its result waits for the generator.
ReadBounds(c) ==
    /\ stream[c].pc = "opening"
    /\ stream' = [stream EXCEPT ![c].pc = "opened", ![c].bounds = Bounds]
    /\ UNCHANGED <<database, pump, cursor>>

\* A yield reaches the client: the browser's cursor moves by a delivery, and only so.
Yielded(c, id) == cursor' = [cursor EXCEPT ![c] = id]

\* The stream ends; the client keeps what it received.
Ended(c) == stream' = [stream EXCEPT ![c] = Closed]

ResyncClient(c, tailId) ==
    /\ Ended(c)
    /\ Yielded(c, tailId)

(* Mutant: the bounds read before the poll decide alone.                       *)
StaleBoundary(c) == stream[c].bounds.latest

ReplayBoundary(c) ==
    Larger(stream[c].bounds.latest, Larger(latestIssuedId, pollCursor))

ObserveBounds(bounds) ==
    latestIssuedId' = IF bounds.latest >= latestIssuedId THEN bounds.latest
                      ELSE latestIssuedId

\* requiredCursor and replayComplete at the end of the replay, then the first read
\* of the live queue.
StartLive(r) ==
    NextFromQueue(AdvanceRequiredCursor(
        [r EXCEPT !.pc = "waiting", !.required = Larger(@, r.boundary)]))

\* The top of the replay loop: another read, or the live part of the stream.
ContinueReplay(r) ==
    IF r.replay < r.boundary THEN [r EXCEPT !.pc = "reading"] ELSE StartLive(r)

OpeningFailed(c) ==
    /\ stream[c].pc = "opened"
    /\ stream[c].failure # "none"
    /\ Ended(c)
    /\ UNCHANGED <<database, pump, cursor>>

AttachOutsideRetention(c) ==
    /\ stream[c].pc = "opened"
    /\ stream[c].failure = "none"
    /\ cursor[c] # NoCursor
    /\ cursor[c] <= stream[c].bounds.latest
    /\ CursorIsOutsideRetention(cursor[c], stream[c].bounds)
    /\ ResyncClient(c, ReplayBoundary(c))
    /\ ObserveBounds(stream[c].bounds)
    /\ UNCHANGED <<database, pollCursor>>

\* The subscriber joins with the boundary between its replay and the live poll:
\* the larger of the held bounds and what the pump has seen since. Nothing is yielded
\* here: a client that brought no cursor still has none until its first delivery.
Attach(c) ==
    LET boundary == ReplayBoundary(c)
        afterId == IF cursor[c] = NoCursor THEN boundary ELSE cursor[c]
    IN /\ stream[c].pc = "opened"
       /\ stream[c].failure = "none"
       /\ afterId <= boundary
       /\ ~(/\ afterId <= stream[c].bounds.latest
            /\ CursorIsOutsideRetention(afterId, stream[c].bounds))
       /\ stream' = [stream EXCEPT ![c] = ContinueReplay(
                        [Closed EXCEPT !.pc = "reading", !.boundary = boundary,
                         !.observed = boundary, !.required = afterId,
                         !.position = afterId, !.replay = afterId])]
       /\ pollCursor' = IF Subscribers = {} THEN boundary ELSE pollCursor
       /\ ObserveBounds(stream[c].bounds)
       /\ UNCHANGED <<database, cursor>>

\* One page of the replay and the bounds, in one read transaction.
ReadReplay(c) ==
    /\ stream[c].pc = "reading"
    /\ stream' = [stream EXCEPT ![c].pc = "read",
                                ![c].bounds = Bounds,
                                ![c].page = Page(stream[c].replay, stream[c].boundary,
                                                 TopicsOf[c])]
    /\ UNCHANGED <<database, pump, cursor>>

\* A failure the pump left behind ends the stream wherever the generator looks.
Terminal(c) ==
    /\ stream[c].pc \in Attached \ {"yielded"}
    /\ stream[c].hand = 0
    /\ IF stream[c].failure = "resync" THEN ResyncClient(c, stream[c].tail)
       ELSE stream[c].failure = "error" /\ Ended(c) /\ UNCHANGED cursor
    /\ UNCHANGED <<database, pump>>

ReplayOutsideRetention(c) ==
    /\ stream[c].pc = "read"
    /\ stream[c].failure = "none"
    /\ CursorIsOutsideRetention(stream[c].replay, stream[c].bounds)
    /\ ResyncClient(c, stream[c].bounds.latest)
    /\ ObserveBounds(stream[c].bounds)
    /\ UNCHANGED <<database, pollCursor>>

\* requiredCursor stands one before the event until the client asks for the next.
YieldFromPage(c, r) ==
    /\ stream' = [stream EXCEPT ![c] = [r EXCEPT !.pc = "paging",
                                                 !.required = Min(r.page) - 1,
                                                 !.position = Min(r.page),
                                                 !.page = @ \ {Min(r.page)}]]
    /\ Yielded(c, Min(r.page))

ResumeRead(c) ==
    /\ stream[c].pc = "read"
    /\ stream[c].failure = "none"
    /\ ~CursorIsOutsideRetention(stream[c].replay, stream[c].bounds)
    /\ LET page == stream[c].page
           r == [stream[c] EXCEPT !.bounds = Closed.bounds,
                                  !.replay = IF Cardinality(page) < MaximumPageEvents
                                             THEN stream[c].boundary ELSE Max(page)]
       IN IF page = {}
          THEN stream' = [stream EXCEPT ![c] = StartLive(r)] /\ UNCHANGED cursor
          ELSE YieldFromPage(c, r)
    /\ ObserveBounds(stream[c].bounds)
    /\ UNCHANGED <<database, pollCursor>>

\* The client asks for the event after the one it was given in the replay.
PullReplay(c) ==
    /\ stream[c].pc = "paging"
    /\ stream[c].failure = "none"
    /\ LET r == [stream[c] EXCEPT !.required = stream[c].position]
       IN IF r.page = {}
          THEN stream' = [stream EXCEPT ![c] = ContinueReplay(r)] /\ UNCHANGED cursor
          ELSE YieldFromPage(c, r)
    /\ UNCHANGED <<database, pump>>

\* A value taken from the live queue reaches the client.
DeliverLive(c) ==
    /\ stream[c].pc = "waiting"
    /\ stream[c].hand # 0
    /\ Yielded(c, stream[c].hand)
    /\ stream' = [stream EXCEPT ![c].pc = "yielded", ![c].position = stream[c].hand,
                                ![c].hand = 0]
    /\ UNCHANGED <<database, pump>>

PullLive(c) ==
    /\ stream[c].pc = "yielded"
    /\ stream' = [stream EXCEPT ![c] = NextFromQueue(AdvanceRequiredCursor(
                                    [stream[c] EXCEPT !.pending = Tail(@)]))]
    /\ UNCHANGED <<database, pump, cursor>>

\* The client goes away, or a read of its own fails through every retry.
Disconnect(c) ==
    /\ stream[c].pc # "closed"
    /\ Ended(c)
    /\ UNCHANGED <<database, pump, cursor>>

\* The process dies; the outbox and the clients' cursors survive it.
Restart ==
    /\ stream' = [c \in Clients |-> Closed]
    /\ pollCursor' = 0
    /\ latestIssuedId' = 0
    /\ UNCHANGED <<database, cursor>>
-----------------------------------------------------------------------------
Poll == PollIdle \/ PollOutsideRetention \/ PollPage

Generator(c) ==
    \/ ReadBounds(c) \/ OpeningFailed(c) \/ AttachOutsideRetention(c) \/ Attach(c)
    \/ ReadReplay(c) \/ ReplayOutsideRetention(c) \/ ResumeRead(c)
    \/ PullReplay(c) \/ DeliverLive(c) \/ PullLive(c) \/ Terminal(c)

Next ==
    \/ Issue
    \/ \E through \in Ids : Prune(through)
    \/ Poll
    \/ PollFails
    \/ \E c \in Clients : Open(c) \/ Generator(c) \/ Disconnect(c)
    \/ Restart

Spec == Init /\ [][Next]_vars

\* The poll loop never stops, and a connected client keeps reading.
Fairness ==
    /\ WF_vars(Poll)
    /\ \A c \in Clients : WF_vars(Generator(c))

FairSpec == Spec /\ Fairness
-----------------------------------------------------------------------------
(* Properties.                                                               *)

StreamType ==
    [pc : {"closed"} \cup Opening \cup Attached,
     boundary : Ids, observed : Ids, required : Ids, position : Ids, replay : Ids,
     bounds : [latest : Ids, pruned : Ids],
     page : SUBSET Ids, queue : Seq(Ids), pending : Seq(Ids), hand : Ids,
     failure : {"none", "error", "resync"}, tail : Ids]

\* The outbox, the pump, the generators and the cursors stay within their types,
\* and no queue holds more than its budget (boundedAsyncQueue.ts:130).
TypeOK ==
    /\ issued \in Ids
    /\ pruned \in 0..issued
    /\ pollCursor \in 0..issued
    /\ latestIssuedId \in 0..issued
    /\ stream \in [Clients -> StreamType]
    /\ cursor \in [Clients -> Ids \cup {NoCursor}]
    /\ \A c \in Clients : Len(stream[c].queue) <= MaximumSubscriberQueueEvents

\* The pump's own defects stay unreachable ("without an affected subscriber",
\* "tail moved behind", "is ahead of the outbox tail" for a cursor the server gave):
\* any of them would end the poll loop for good (eventPumpService.ts:329-351).
PollNeverThrows ==
    /\ Subscribers # {} /\ CursorIsOutsideRetention(ActiveFloor, Bounds)
         => \E c \in Subscribers : CursorIsOutsideRetention(stream[c].observed, Bounds)
    /\ \A c \in Clients : stream[c].pc = "opened" => cursor[c] <= ReplayBoundary(c)

\* What waits for the client is exactly what is pending for the retention cursor:
\* the event it holds, the one in hand, then the queue. Otherwise a stream dies with
\* "delivery cursor is inconsistent" (eventPumpSubscription.ts:252).
PendingIsWhatIsBuffered ==
    \A c \in Clients :
        LET r == stream[c] IN
        r.pc \in Attached /\ r.failure = "none" =>
            r.pending = (IF r.pc = "yielded" THEN <<r.position>> ELSE <<>>)
                        \o (IF r.hand # 0 THEN <<r.hand>> ELSE <<>>) \o r.queue

\* Retention that keeps every row after requiredCursor keeps every event of its topics
\* the stream has not yielded yet (metricsSnapshot, eventPumpState.ts:118-125).
RequiredCursorProtects ==
    \A c \in Subscribers : \A id \in (stream[c].position + 1)..stream[c].required :
        TopicAt[id] \notin TopicsOf[c]

\* The cursors agree, so that neither the poll loop nor a stream ever ends by a defect
\* of its own, and retention is told of all that is still needed.
CursorsProtect == PollNeverThrows /\ PendingIsWhatIsBuffered /\ RequiredCursorProtects

\* Where the stream of each client stands, as EventFeed sees it
FeedPosition ==
    [c \in Clients |-> IF stream[c].pc \in Attached THEN stream[c].position ELSE NoStream]

\* The detailed pump gives every client what EventFeed promises: within a stream no
\* event of its topics skipped or repeated over attach, replay, live queue and failure;
\* the next stream resumes where the last delivery left the client, or starts anew when
\* there was none; and a resync only after retention took an event after its position.
Feed == INSTANCE EventFeed WITH position <- FeedPosition
ImplementsFeed == Feed!FeedSpec

\* Not so in the code: a first stream that ends before its first delivery leaves its
\* client without a cursor (realtimeHub.ts:109-121), and the next one begins at the tail
\* of its own time. What was written in between the client never hears of.
FirstStreamLosesNothing ==
    [][\A c \in Clients :
         /\ cursor[c] = NoCursor /\ stream[c].pc \in Attached
         /\ cursor'[c] = NoCursor /\ stream'[c].pc = "closed"
         => \A id \in (stream[c].position + 1)..issued : TopicAt[id] \notin TopicsOf[c]]_vars

\* A connected client that keeps reading has, again and again, every event of its topics
\* written since its stream began, or that stream has ended (the poll loop,
\* eventPumpService.ts:165).
CaughtUpOrEnded ==
    \A c \in Clients :
        []<>(\/ stream[c].pc = "closed"
             \/ \A id \in 1..issued : TopicAt[id] \in TopicsOf[c] => stream[c].position >= id)
=============================================================================
