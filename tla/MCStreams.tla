------------------------------ MODULE MCStreams ------------------------------
(***************************************************************************)
(* The event history of a run, the realtime event pump, the chat           *)
(* subscription and the one-shot calls to the gateway.  They share no      *)
(* state, so a behaviour chooses one of them when it starts and runs it    *)
(* alone: side by side, their steps would only be shuffled.                *)
(***************************************************************************)
EXTENDS JobRunEvents, Sequences, TLC

CONSTANTS
    Chosen,                        \* the components a run checks
    Clients, MaximumIssued,        \* of RealtimeEvents
    MaximumScopes, MaximumGeneration, MaximumSequence, QueueMaximum,
    Calls, AdminConcurrencyMaximum \* of GatewayRequests

VARIABLES
    chosen,
    issued, pruned, pollCursor, latestIssuedId, stream, cursor,
    lane, generation, reconnect, outbound, inbound, upstream, emitted,
    pendingScopes, scope, opened, lease, seen,
    callLane, adminLanes, request, dispatched, sent, outcome, returned, reply,
    executed, stopped

(* Run definitions with the attempt maximum of the code and its structural *)
(* reserve of 33.  The payload share is cut from 967 to 4 events: it only  *)
(* shifts the point at which structural events begin to use the reserve.   *)
Definition(limit, policy, scheduled, delivery) ==
    [attemptLimit |-> limit, retrySafe |-> TRUE, cancellationPolicy |-> policy,
     scheduled |-> scheduled, delivery |-> delivery]

\* The largest limit, scheduled or not where it matters, and the largest
\* limit of a delivery run that the reserve is enough for.
FittingDefinitions ==
    {Definition(10, "cooperative", FALSE, FALSE), Definition(10, "queued-only", TRUE, FALSE),
     Definition(10, "never", TRUE, FALSE), Definition(9, "never", FALSE, TRUE)}

\* Two topics in turn; "all" follows both of them, every other client one.
EventTopics == [id \in 1 .. MaximumIssued |-> IF id = 2 THEN "u" ELSE "t"]
FollowedTopics == [c \in Clients |-> IF c = "all" THEN {"t", "u"} ELSE {"t"}]

Realtime == INSTANCE RealtimeEvents WITH
    TopicAt <- EventTopics, TopicsOf <- FollowedTopics,
    MaximumPageEvents <- 1, MaximumSubscriberQueueEvents <- 1, MaximumSubscribers <- 2

Chat == INSTANCE ChatSubscriptions WITH pending <- pendingScopes

OneShot == INSTANCE GatewayRequests WITH lane <- callLane

ASSUME ConstantsMeetAssumptions ==
    /\ Realtime!RealtimeAssumption /\ Chat!SubscriptionAssumption
    /\ OneShot!RequestsAssumption

-----------------------------------------------------------------------------
realtimeVars == <<issued, pruned, pollCursor, latestIssuedId, stream, cursor>>
chatVars == <<lane, generation, reconnect, outbound, inbound, upstream, emitted,
              pendingScopes, scope, opened, lease, seen>>
oneShotVars == <<callLane, adminLanes, request, dispatched, sent, outcome, returned,
                 reply, executed, stopped>>
streamVars == <<chosen, vars, realtimeVars, chatVars, oneShotVars>>

StreamsInit ==
    /\ chosen \in Chosen
    /\ Init /\ Realtime!Init /\ Chat!Init /\ OneShot!Init
    /\ chosen # "run events" => definition = CHOOSE d \in Definitions : TRUE

RunEventsStep ==
    /\ chosen = "run events" /\ Next
    /\ UNCHANGED <<chosen, realtimeVars, chatVars, oneShotVars>>

RealtimeStep ==
    /\ chosen = "realtime" /\ Realtime!Next
    /\ UNCHANGED <<chosen, vars, chatVars, oneShotVars>>

ChatStep ==
    /\ chosen = "chat" /\ Chat!Next
    /\ UNCHANGED <<chosen, vars, realtimeVars, oneShotVars>>

OneShotStep ==
    /\ chosen = "one-shot" /\ OneShot!Next
    /\ UNCHANGED <<chosen, vars, realtimeVars, chatVars>>

StreamsNext == RunEventsStep \/ RealtimeStep \/ ChatStep \/ OneShotStep

StreamsSpec == StreamsInit /\ [][StreamsNext]_streamVars

\* One-shot calls are interchangeable.
Symmetry == Permutations(Calls)

-----------------------------------------------------------------------------
(* The properties of the components, under their own names *)

\* The types, columns and counters of the four components; what a chat
\* subscriber has queued is of the open connection, and the bound on one-shot
\* calls holds for sockets.
StreamsConsistent ==
    /\ chosen = "run events" => TypeOK
    /\ chosen = "realtime" => Realtime!TypeOK
    /\ chosen = "chat" => Chat!TypeOK /\ Chat!QueuedEventsAreCurrent
    /\ chosen = "one-shot" => OneShot!TypeOK /\ OneShot!SocketsAreBounded

\* See RealtimeEvents: the cursors of the pump and its subscribers agree.
CursorsProtect == chosen = "realtime" => Realtime!CursorsProtect

\* See RealtimeEvents: the pump implements EventFeed.
ImplementsFeed == Realtime!ImplementsFeed

\* See ChatSubscriptions: no event is handed out over an unknown loss.
LossIsReported == Chat!LossIsReported

\* See ChatSubscriptions: a session taken for subscribed is forwarded.
BelievedSubscriptionIsReal == chosen = "chat" => Chat!BelievedSubscriptionIsReal

\* See GatewayRequests: a known failure may be repeated, success relied on.
AnswerIsTruthful == chosen = "one-shot" => OneShot!AnswerIsTruthful
=============================================================================
