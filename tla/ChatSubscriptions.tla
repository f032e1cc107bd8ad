-------------------------- MODULE ChatSubscriptions --------------------------
(***************************************************************************)
(* The subscription of one chat session: the lease of the chat domain      *)
(* (src/server/domains/chat/subscriptionManager.ts), the scope and the     *)
(* subscriber queue of the gateway transport and its reconnecting          *)
(* connection (src/server/platform/gateway/persistentGatewayTransport.ts), *)
(* and the gateway, which keeps one subscription per connection and        *)
(* session, not one per request (scripts/audits/openclaw/sourceAudit.ts).  *)
(*                                                                         *)
(* The manager gives every scope one subscriber, so a scope and its        *)
(* subscriber are one record here.  A promise callback runs in the same    *)
(* step as the message or the failure that settles its promise; listeners  *)
(* are asynchronous and may take any time.  One run is followed, which     *)
(* does not end; sizes are abstracted to the length of the queue.          *)
(***************************************************************************)
EXTENDS Naturals, Sequences, FiniteSets

CONSTANTS
    MaximumScopes,      \* bound on the scopes opened, each by one lease
    MaximumGeneration,  \* bound on the connections made
    MaximumSequence,    \* bound on the events of the run
    QueueMaximum        \* events a subscriber may have waiting

\* What the constants are taken to be
SubscriptionAssumption ==
    /\ MaximumScopes \in Nat /\ MaximumGeneration \in Nat
    /\ MaximumSequence \in Nat /\ QueueMaximum \in Nat \ {0}

VARIABLES
    lane,        \* state of the connection
    generation,  \* connections made so far
    reconnect,   \* the transport will connect (again)
    outbound,    \* frames on their way to the gateway
    inbound,     \* frames on their way to the transport
    upstream,    \* the gateway forwards the session to this connection
    emitted,     \* sequence number of the run's last event
    pending,     \* scopes whose subscribe request is unanswered
    scope,       \* [Scopes -> scope with its subscriber]
    opened,      \* scopes opened so far
    lease,       \* the manager's lease: a scope, or 0
    seen         \* last event the chat domain has, or knows that it lacks

connection == <<lane, generation, reconnect>>
wire == <<outbound, inbound, upstream, emitted>>
client == <<pending, scope, opened, lease, seen>>
vars == <<connection, wire, client>>

Scopes == 1 .. MaximumScopes
Sequences == 1 .. MaximumSequence

\* An event carries its connection, a gap the first event after it.
Item == [kind : {"event", "gap", "reconciliation"}, sequence : 0 .. MaximumSequence,
         generation : 0 .. MaximumGeneration]

Nothing == [kind |-> "none", sequence |-> 0, generation |-> 0]
Reconciliation == [kind |-> "reconciliation", sequence |-> 0, generation |-> 0]

\* member: in #chatScopes with its subscriber; last: highest sequence of the
\* run, or 0; terminal: terminalBoundaryQueued; handling: what the listener
\* is busy with.  subscribed and synchronizing are generations, or 0.
Scope == [member : BOOLEAN, subscribed : 0 .. MaximumGeneration,
          synchronizing : 0 .. MaximumGeneration, quarantined : BOOLEAN,
          baseline : 0 .. MaximumSequence, last : 0 .. MaximumSequence,
          queue : Seq(Item), terminal : BOOLEAN, handling : Item \cup {Nothing}]

Unopened == [member |-> FALSE, subscribed |-> 0, synchronizing |-> 0,
             quarantined |-> FALSE, baseline |-> 0, last |-> 0,
             queue |-> <<>>, terminal |-> FALSE, handling |-> Nothing]

Init ==
    /\ lane = "none" /\ generation = 0 /\ reconnect = TRUE
    /\ outbound = <<>> /\ inbound = <<>> /\ upstream = FALSE /\ emitted = 0
    /\ pending = {} /\ scope = [s \in Scopes |-> Unopened]
    /\ opened = 0 /\ lease = 0 /\ seen = 0

Subscribe(s) == [kind |-> "subscribe", scope |-> s]
Unsubscribe(s) == [kind |-> "unsubscribe", scope |-> s]

Highest(a, b) == IF a > b THEN a ELSE b

-----------------------------------------------------------------------------
(* Parts of the transport's steps on one scope record *)

\* #enqueueChatBoundary of a reconciliation: it replaces what is queued.
Boundary(r) ==
    IF r.terminal \/ ~r.member THEN r
    ELSE [r EXCEPT !.queue = <<Reconciliation>>, !.terminal = TRUE]

HasUpstream(r) == lane \in {"connected", "closing"} /\ r.subscribed = generation

\* #unsubscribeChatScope; the frame leaves only on an open connection.
Unsubscribed(r) == IF HasUpstream(r) THEN [r EXCEPT !.subscribed = 0] ELSE r

FrameOf(s) ==
    IF HasUpstream(scope[s]) /\ lane = "connected" THEN <<Unsubscribe(s)>> ELSE <<>>

\* #notifyChatScope, with #quarantineChatScope
Notified(r) ==
    Boundary([Unsubscribed(r) EXCEPT !.quarantined = TRUE, !.last = 0])

\* #deleteChatSubscriber of the only subscriber
Deleted(r) ==
    IF r.member THEN [Unsubscribed(r) EXCEPT !.member = FALSE, !.queue = <<>>] ELSE r

\* The rejection handler of a subscribe request
Rejected(r) ==
    Notified([r EXCEPT !.synchronizing = IF @ = generation THEN 0 ELSE @])

\* The scopes #synchronizeChatScope sends a request for
Unsynchronized(r) ==
    /\ r.member /\ ~r.quarantined
    /\ r.subscribed # generation /\ r.synchronizing # generation

-----------------------------------------------------------------------------
(* The connection *)

Connect ==
    /\ lane = "none" /\ reconnect /\ generation < MaximumGeneration
    /\ lane' = "connecting" /\ generation' = generation + 1
    /\ outbound' = <<>> /\ inbound' = <<>> /\ upstream' = FALSE
    /\ UNCHANGED <<reconnect, emitted, client>>

\* The handshake ends; every scope asks for its subscription.
Connected ==
    /\ lane = "connecting"
    /\ lane' = "connected"
    /\ \E order \in [1 .. Cardinality({s \in Scopes : Unsynchronized(scope[s])})
                       -> {s \in Scopes : Unsynchronized(scope[s])}] :
         /\ \A i, j \in DOMAIN order : order[i] = order[j] => i = j
         /\ outbound' = outbound \o [i \in DOMAIN order |-> Subscribe(order[i])]
    /\ scope' = [s \in Scopes |->
         IF Unsynchronized(scope[s])
         THEN [scope[s] EXCEPT !.synchronizing = generation] ELSE scope[s]]
    /\ pending' = pending \cup {s \in Scopes : Unsynchronized(scope[s])}
    /\ UNCHANGED <<generation, reconnect, inbound, upstream, emitted, opened,
                   lease, seen>>

\* #fail: a gap, a protocol error, a silent gateway, or stop(); requests are
\* rejected at once and frames no longer read.
Fail ==
    /\ lane = "connected"
    /\ lane' = "closing"
    /\ inbound' = <<>> /\ pending' = {}
    /\ scope' = [s \in Scopes |->
         IF s \in pending THEN Rejected(scope[s]) ELSE scope[s]]
    /\ UNCHANGED <<generation, reconnect, outbound, upstream, emitted, opened,
                   lease, seen>>

(* Mutant: a closed connection leaves its subscribers alone. *)
ClosedSilently(again) ==
    /\ lane # "none"
    /\ lane' = "none" /\ reconnect' = again
    /\ outbound' = <<>> /\ inbound' = <<>> /\ upstream' = FALSE /\ pending' = {}
    /\ scope' = [s \in Scopes |->
         IF ~scope[s].member THEN scope[s]
         ELSE [scope[s] EXCEPT !.subscribed = 0, !.synchronizing = 0]]
    /\ UNCHANGED <<generation, emitted, opened, lease, seen>>

\* #finishClose and #handleLaneClosed.  again: neither stopped nor refused
\* for good.
Closed(again) ==
    /\ lane # "none"
    /\ lane' = "none" /\ reconnect' = again
    /\ outbound' = <<>> /\ inbound' = <<>> /\ upstream' = FALSE /\ pending' = {}
    /\ scope' = [s \in Scopes |->
         LET reset == [scope[s] EXCEPT !.subscribed = 0, !.synchronizing = 0, !.last = 0]
             told == IF generation \in {scope[s].subscribed, scope[s].synchronizing}
                     THEN Boundary([reset EXCEPT !.quarantined = TRUE]) ELSE reset
         IN CASE scope[s].member -> told
              [] ~scope[s].member /\ s \in pending -> Rejected(scope[s])
              [] OTHER -> scope[s]]
    /\ UNCHANGED <<generation, emitted, opened, lease, seen>>

-----------------------------------------------------------------------------
(* The gateway (external) *)

GatewayTakesFrame ==
    /\ outbound # <<>>
    /\ outbound' = Tail(outbound)
    /\ IF Head(outbound).kind = "unsubscribe"
       THEN upstream' = FALSE /\ UNCHANGED inbound
       ELSE \E ok \in BOOLEAN :
              /\ upstream' = (upstream \/ ok)
              /\ inbound' = IF lane # "connected" THEN inbound
                            ELSE Append(inbound, [kind |-> "answer", ok |-> ok,
                                                  scope |-> Head(outbound).scope])
    /\ UNCHANGED <<connection, emitted, client>>

\* A frame may be dropped on a slow connection.
GatewayEmits(forwarded) ==
    /\ emitted < MaximumSequence
    /\ emitted' = emitted + 1
    /\ inbound' = IF upstream /\ forwarded /\ lane = "connected"
                  THEN Append(inbound, [kind |-> "event", sequence |-> emitted'])
                  ELSE inbound
    /\ UNCHANGED <<connection, outbound, upstream, client>>

-----------------------------------------------------------------------------
(* Frames *)

\* The answer settles its request; one that timed out is retired.
ReceiveAnswer ==
    /\ inbound # <<>> /\ Head(inbound).kind = "answer"
    /\ inbound' = Tail(inbound)
    /\ LET s == Head(inbound).scope
           acknowledged == [scope[s] EXCEPT !.synchronizing = 0,
                              !.subscribed = IF scope[s].member THEN generation ELSE 0,
                              !.last = scope[s].baseline]
       IN /\ pending' = pending \ {s}
          /\ IF s \notin pending THEN UNCHANGED <<scope, outbound>>
             ELSE IF Head(inbound).ok
             THEN /\ scope' = [scope EXCEPT ![s] = acknowledged]
                  /\ outbound' = IF scope[s].member THEN outbound
                                 ELSE Append(outbound, Unsubscribe(s))
             ELSE /\ scope' = [scope EXCEPT ![s] = Rejected(@)]
                  /\ UNCHANGED outbound
    /\ UNCHANGED <<connection, upstream, emitted, opened, lease, seen>>

RequestTimesOut(s) ==
    /\ s \in pending
    /\ pending' = pending \ {s}
    /\ scope' = [scope EXCEPT ![s] = Rejected(@)]
    /\ UNCHANGED <<connection, wire, opened, lease, seen>>

Event(n) == [kind |-> "event", sequence |-> n, generation |-> generation]
Gap(n) == [kind |-> "gap", sequence |-> n, generation |-> generation]

Receives(r) == r.member /\ r.subscribed = generation /\ ~r.quarantined

(* Mutant: a gap is not looked for. *)
FollowedLoosely(r, n) ==
    IF n <= r.last THEN r
    ELSE IF r.terminal THEN [r EXCEPT !.last = n]
    ELSE IF Len(r.queue) >= QueueMaximum THEN Boundary([r EXCEPT !.last = n])
    ELSE [r EXCEPT !.last = n, !.queue = Append(r.queue, Event(n))]

\* #handleChatEvent: replays are dropped, a gap is announced before the event
\* after it, the first event of an unknown run sets the baseline.
Followed(r, n) ==
    LET gap == IF r.last # 0 /\ n > r.last + 1 THEN <<Gap(n)>> ELSE <<>>
    IN IF n <= r.last THEN r
       ELSE IF r.terminal THEN [r EXCEPT !.last = n]
       ELSE IF Len(r.queue \o gap) >= QueueMaximum THEN Boundary([r EXCEPT !.last = n])
       ELSE [r EXCEPT !.last = n, !.queue = r.queue \o gap \o <<Event(n)>>]

ReceiveEvent ==
    /\ inbound # <<>> /\ Head(inbound).kind = "event"
    /\ inbound' = Tail(inbound)
    /\ scope' = [s \in Scopes |->
         IF Receives(scope[s]) THEN Followed(scope[s], Head(inbound).sequence)
         ELSE scope[s]]
    /\ UNCHANGED <<connection, outbound, upstream, emitted, pending, opened,
                   lease, seen>>

-----------------------------------------------------------------------------
(* The listener and the manager *)

\* #drainChatSubscriber hands out the next item; the manager ignores what
\* belongs to a lease it has given up.
Handle(s) ==
    /\ scope[s].member /\ scope[s].handling = Nothing /\ scope[s].queue # <<>>
    /\ LET item == Head(scope[s].queue)
       IN /\ scope' = [scope EXCEPT ![s].queue = Tail(@), ![s].handling = item]
          /\ seen' = CASE lease = s /\ item.kind = "event" -> Highest(seen, item.sequence)
                       [] lease = s /\ item.kind = "gap" -> Highest(seen, item.sequence - 1)
                       [] OTHER -> seen
    /\ UNCHANGED <<connection, wire, pending, opened, lease>>

Handled(s) ==
    /\ scope[s].handling.kind \in {"event", "gap"}
    /\ scope' = [scope EXCEPT ![s].handling = Nothing]
    /\ UNCHANGED <<connection, wire, pending, opened, lease, seen>>

\* The listener rejects: the subscriber ends with a reconciliation.
ListenerFails(s) ==
    /\ scope[s].handling.kind \in {"event", "gap"}
    /\ scope' = [scope EXCEPT ![s].handling = Reconciliation, ![s].queue = <<>>,
                              ![s].terminal = TRUE]
    /\ UNCHANGED <<connection, wire, pending, opened, lease, seen>>

\* subscribeChat of a new scope
Open(n, watermark) ==
    LET fresh == [Unopened EXCEPT !.member = TRUE, !.baseline = watermark]
    IN CASE lane = "connected" -> [fresh EXCEPT !.synchronizing = generation]
         [] lane = "closing" -> Notified(fresh)
         [] OTHER -> fresh

OpenFrame(n) == IF lane = "connected" THEN <<Subscribe(n)>> ELSE <<>>

\* touch without a lease.  A stopped transport gives no subscription.
Touch ==
    /\ lease = 0 /\ opened < MaximumScopes /\ reconnect
    /\ opened' = opened + 1 /\ lease' = opened'
    /\ scope' = [scope EXCEPT ![opened'] = Open(opened', seen)]
    /\ outbound' = outbound \o OpenFrame(opened')
    /\ pending' = IF lane = "connected" THEN pending \cup {opened'} ELSE pending
    /\ UNCHANGED <<connection, inbound, upstream, emitted, seen>>

\* invalidate, releaseIfUnpinned, sweep: #closeLease
Release ==
    /\ lease # 0
    /\ lease' = 0
    /\ scope' = [scope EXCEPT ![lease] = Deleted(@)]
    /\ outbound' = outbound \o FrameOf(lease)
    /\ UNCHANGED <<connection, inbound, upstream, emitted, pending, opened, seen>>

(* Mutant: the manager keeps the lease of a subscriber that has ended. *)
ReconciledWithLease(s, known) ==
    /\ scope[s].handling.kind = "reconciliation"
    /\ seen' = IF lease = s THEN known ELSE seen
    /\ scope' = [scope EXCEPT ![s] = [Deleted(@) EXCEPT !.handling = Nothing]]
    /\ outbound' = outbound \o FrameOf(s)
    /\ UNCHANGED <<connection, inbound, upstream, emitted, pending, opened, lease>>

\* The domain has read the history up to known (or failed to); then the
\* lease is rotated (#rotateAfterTerminalBoundary) and the subscriber deleted.
Reconciled(s, known) ==
    /\ scope[s].handling.kind = "reconciliation"
    /\ known \in seen .. Highest(seen, emitted)
    /\ seen' = IF lease = s THEN known ELSE seen
    /\ scope' = [scope EXCEPT ![s] = [Deleted(@) EXCEPT !.handling = Nothing]]
    /\ outbound' = outbound \o FrameOf(s)
    /\ lease' = IF lease = s THEN 0 ELSE lease
    /\ UNCHANGED <<connection, inbound, upstream, emitted, pending, opened>>

-----------------------------------------------------------------------------
Next ==
    \/ Connect \/ Connected \/ Fail \/ \E again \in BOOLEAN : Closed(again)
    \/ GatewayTakesFrame \/ \E forwarded \in BOOLEAN : GatewayEmits(forwarded)
    \/ ReceiveAnswer \/ ReceiveEvent \/ Touch \/ Release
    \/ \E s \in Scopes :
         \/ RequestTimesOut(s) \/ Handle(s) \/ Handled(s) \/ ListenerFails(s)
         \/ \E known \in 0 .. MaximumSequence : Reconciled(s, known)

Spec == Init /\ [][Next]_vars

\* A connection that is closing ends; microtasks run; listeners settle.
Fairness ==
    /\ WF_vars(lane = "closing" /\ \E again \in BOOLEAN : Closed(again))
    /\ \A s \in Scopes :
         /\ WF_vars(Handle(s)) /\ WF_vars(Handled(s) \/ ListenerFails(s))
         /\ WF_vars(\E known \in 0 .. MaximumSequence : Reconciled(s, known))

FairSpec == Spec /\ Fairness

-----------------------------------------------------------------------------
TypeOK ==
    /\ lane \in {"none", "connecting", "connected", "closing"}
    /\ generation \in 0 .. MaximumGeneration /\ reconnect \in BOOLEAN
    /\ upstream \in BOOLEAN /\ emitted \in 0 .. MaximumSequence
    /\ pending \subseteq Scopes /\ scope \in [Scopes -> Scope]
    /\ opened \in 0 .. MaximumScopes /\ lease \in 0 .. MaximumScopes
    /\ seen \in 0 .. MaximumSequence
    /\ \A s \in Scopes : Len(scope[s].queue) <= QueueMaximum

\* An event is never handed to the chat domain over one that it lacks and
\* does not know to be missing (once a first event of the run is known).
LossIsReported ==
    [][\A s \in Scopes :
         (/\ lease = s /\ scope[s].handling = Nothing
          /\ scope'[s].handling.kind = "event")
         => scope'[s].handling.sequence <= seen + 1 \/ seen = 0]_vars

\* Nothing of an earlier connection is handed out as long as no
\* reconciliation has ended the subscriber that was waiting for it.
QueuedEventsAreCurrent ==
    \A s \in Scopes : \A i \in DOMAIN scope[s].queue :
        scope[s].queue[i].kind = "event" =>
            scope[s].queue[i].generation = generation /\ lane # "none"

\* A lease always has a subscriber that can still be served: one that has
\* ended is replaced, and never blocks the next touch.
LeaseIsAlive ==
    \A s \in Scopes : lease = s ~> (lease # s \/ ~scope[s].terminal)

\* "Never retain a zombie lease" (subscriptionManager.ts:187): when the
\* transport takes the session of a live scope for subscribed and no frame is
\* on its way, the gateway does forward it.  A scope closed before its
\* subscribe request was answered breaks it for the scope that follows: the
\* late answer makes the transport unsubscribe the session for both.
BelievedSubscriptionIsReal ==
    (/\ lane = "connected" /\ outbound = <<>>
     /\ \E s \in Scopes : Receives(scope[s])) => upstream
=============================================================================
