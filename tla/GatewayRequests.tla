--------------------------- MODULE GatewayRequests ---------------------------
(***************************************************************************)
(* Gateway mutations on connections of their own                           *)
(* (#runOneShotRequest, src/server/platform/gateway/                       *)
(* persistentGatewayTransport.ts): every call opens a lane, shakes hands,  *)
(* may prepare (beforeDispatch), sends one request and closes the lane.    *)
(* Callers repeat what is known not to have happened and never what may    *)
(* have, so what matters is which failure they are told.                   *)
(*                                                                         *)
(* A promise callback runs in the step that settles its promise, so an     *)
(* answer and the request to close the lane are one step.                  *)
(***************************************************************************)
EXTENDS Naturals, FiniteSets

CONSTANTS
    Calls,                    \* calls made
    AdminConcurrencyMaximum   \* lanes there may be at a time

\* What the constants are taken to be
RequestsAssumption == AdminConcurrencyMaximum \in Nat

VARIABLES
    lane,       \* [Calls -> stage of the lane's socket]
    adminLanes, \* calls whose lane is in #adminLanes
    request,    \* [Calls -> what has become of the lane's request]
    dispatched, \* calls that take their request for dispatched
    outcome,    \* [Calls -> the outcome promise]
    returned,   \* calls that have returned or thrown it
    sent,       \* calls whose request has left
    reply,      \* [Calls -> the gateway's answer, not yet read]
    executed,   \* calls the gateway has carried out
    stopped     \* #permanentlyStopped

sockets == <<lane, adminLanes>>
gateway == <<reply, executed>>
frames == <<dispatched, sent>>
vars == <<sockets, request, frames, outcome, returned, gateway, stopped>>

Stages == {"none", "connecting", "connected", "closing", "closed"}

\* Failures that say that the gateway has not been asked
KnownFailures == {"unavailable", "aborted", "timeout", "capacity", "failed"}

Outcomes == {"open", "ok", "refused", "unknown"} \cup KnownFailures

Init ==
    /\ lane = [c \in Calls |-> "none"] /\ adminLanes = {}
    /\ request = [c \in Calls |-> "none"] /\ dispatched = {} /\ sent = {}
    /\ outcome = [c \in Calls |-> "open"] /\ returned = {}
    /\ reply = [c \in Calls |-> "none"] /\ executed = {}
    /\ stopped = FALSE

-----------------------------------------------------------------------------
(* Mutant: a failure is passed on whether or not the request has left. *)
RejectAsIs(c, error) == IF outcome[c] = "open" THEN error ELSE outcome[c]

\* rejectOutcome of an error that is not the gateway's own answer
RejectOutcome(c, error) ==
    IF outcome[c] # "open" THEN outcome[c]
    ELSE IF c \in dispatched THEN "unknown" ELSE error

Settle(c, result) == outcome' = [outcome EXCEPT ![c] = result]

\* #requestClose; a pending request is forgotten.
RequestClose(c) ==
    /\ lane' = [lane EXCEPT ![c] = IF @ = "closed" THEN @ ELSE "closing"]
    /\ request' = [request EXCEPT ![c] = IF @ = "pending" THEN "settled" ELSE @]

\* The outcome is settled; the call goes on to close its lane.
Ends(c, result) == Settle(c, result) /\ RequestClose(c)

-----------------------------------------------------------------------------
\* #assertOneShotAdmission, and the lane that is opened when it passes
Start(c) ==
    /\ lane[c] = "none" /\ outcome[c] = "open"
    /\ CASE stopped -> Settle(c, "unavailable") /\ UNCHANGED sockets
         [] ~stopped /\ Cardinality(adminLanes) >= AdminConcurrencyMaximum ->
              Settle(c, "capacity") /\ UNCHANGED sockets
         [] OTHER -> /\ lane' = [lane EXCEPT ![c] = "connecting"]
                     /\ adminLanes' = adminLanes \cup {c}
                     /\ UNCHANGED outcome
    /\ UNCHANGED <<request, frames, returned, gateway, stopped>>

\* lane.request.  It is refused on a lane that is closing, and may be for
\* its size, its method or because the socket throws; the flag is set last.
Dispatch(c) ==
    \/ /\ lane[c] = "connected"
       /\ request' = [request EXCEPT ![c] = "pending"]
       /\ sent' = sent \cup {c} /\ dispatched' = dispatched \cup {c}
       /\ UNCHANGED <<lane, outcome>>
    \/ /\ \E error \in {"unavailable", "capacity"} : Settle(c, RejectOutcome(c, error))
       /\ request' = [request EXCEPT ![c] = "settled"]
       /\ lane' = [lane EXCEPT ![c] = "closing"]
       /\ UNCHANGED frames

\* onConnected: the request is sent at once, or after a preparation.
Connected(c) ==
    /\ lane[c] = "connecting"
    /\ lane' = [lane EXCEPT ![c] = "connected"]
    /\ request' = [request EXCEPT ![c] = "preparing"]
    /\ UNCHANGED <<adminLanes, frames, outcome, returned, gateway, stopped>>

\* The preparation ends (at once if there is none).
Prepared(c) ==
    /\ request[c] = "preparing"
    /\ IF outcome[c] # "open"
       THEN /\ request' = [request EXCEPT ![c] = "settled"]
            /\ UNCHANGED <<lane, frames, outcome>>
       ELSE Dispatch(c)
    /\ UNCHANGED <<adminLanes, returned, gateway, stopped>>

\* The preparation is rejected or outlasts the request's timeout.
PreparationFails(c) ==
    /\ request[c] = "preparing"
    /\ \E error \in {"failed", "timeout"} : Settle(c, RejectOutcome(c, error))
    /\ request' = [request EXCEPT ![c] = "settled"]
    /\ lane' = [lane EXCEPT ![c] = IF @ = "closed" THEN @ ELSE "closing"]
    /\ UNCHANGED <<adminLanes, frames, returned, gateway, stopped>>

\* The gateway (external) takes a request that has left, even one whose lane
\* has been closed meanwhile, carries it out or refuses it, and answers.
GatewayAnswers(c) ==
    /\ c \in sent /\ reply[c] = "none"
    /\ \/ /\ executed' = executed \cup {c}
          /\ reply' = [reply EXCEPT ![c] = "ok"]
       \/ /\ reply' = [reply EXCEPT ![c] = "refused"]
          /\ UNCHANGED executed
    /\ UNCHANGED <<sockets, request, frames, outcome, returned, stopped>>

\* #settleResponse of a request that is still waited for
ReceiveReply(c) ==
    /\ request[c] = "pending" /\ reply[c] # "none"
    /\ Ends(c, reply[c])
    /\ UNCHANGED <<adminLanes, frames, returned, gateway, stopped>>

\* The request's own timer; a later answer is a retired one.
RequestTimesOut(c) ==
    /\ request[c] = "pending"
    /\ Ends(c, RejectOutcome(c, "timeout"))
    /\ UNCHANGED <<adminLanes, frames, returned, gateway, stopped>>

\* The caller's signal; it is listened to until the call returns.
Abort(c) ==
    /\ c \in adminLanes /\ c \notin returned
    /\ Ends(c, RejectOutcome(c, "aborted"))
    /\ UNCHANGED <<adminLanes, frames, returned, gateway, stopped>>

\* #fail: the handshake times out or is refused, the gateway is silent or
\* breaks the protocol.  What waits for the handshake or a preparation is
\* told when the lane is closed.
LaneFails(c) ==
    /\ lane[c] \in {"connecting", "connected"}
    /\ RequestClose(c)
    /\ IF request[c] = "pending"
       THEN Settle(c, RejectOutcome(c, "unavailable"))
       ELSE UNCHANGED outcome
    /\ UNCHANGED <<adminLanes, frames, returned, gateway, stopped>>

\* The socket's close event, the only thing that gives the permit back
Closed(c) ==
    /\ lane[c] \in {"connecting", "connected", "closing"}
    /\ lane' = [lane EXCEPT ![c] = "closed"]
    /\ adminLanes' = adminLanes \ {c}
    /\ request' = [request EXCEPT ![c] = IF @ = "pending" THEN "settled" ELSE @]
    /\ Settle(c, RejectOutcome(c, "unavailable"))
    /\ UNCHANGED <<frames, returned, gateway, stopped>>

\* closeAndWait ends with the close event or after gracefulStopTimeoutMs.
Return(c) ==
    /\ outcome[c] # "open" /\ c \notin returned
    /\ returned' = returned \cup {c}
    /\ UNCHANGED <<sockets, request, frames, outcome, gateway, stopped>>

\* #stop asks every lane to close.
Stop ==
    /\ ~stopped
    /\ stopped' = TRUE
    /\ lane' = [c \in Calls |-> IF c \in adminLanes THEN "closing" ELSE lane[c]]
    /\ request' = [c \in Calls |->
         IF request[c] = "pending" THEN "settled" ELSE request[c]]
    /\ outcome' = [c \in Calls |->
         IF request[c] = "pending" THEN RejectOutcome(c, "unavailable") ELSE outcome[c]]
    /\ UNCHANGED <<adminLanes, frames, returned, gateway>>

-----------------------------------------------------------------------------
Next ==
    \/ Stop
    \/ \E c \in Calls :
         \/ Start(c) \/ Connected(c) \/ Prepared(c) \/ PreparationFails(c)
         \/ GatewayAnswers(c) \/ ReceiveReply(c) \/ RequestTimesOut(c)
         \/ Abort(c) \/ LaneFails(c) \/ Closed(c) \/ Return(c)

Spec == Init /\ [][Next]_vars

\* Timers fire: of the handshake (it fails the lane unless it has ended), of
\* the preparation, of the request and of closeAndWait; a socket that is
\* closing is closed by the runtime at last.
Fairness ==
    \A c \in Calls :
        /\ WF_vars(lane[c] = "connecting" /\ (LaneFails(c) \/ Connected(c)))
        /\ WF_vars(Prepared(c) \/ PreparationFails(c))
        /\ WF_vars(RequestTimesOut(c))
        /\ WF_vars(lane[c] = "closing" /\ Closed(c))
        /\ WF_vars(Return(c))

FairSpec == Spec /\ Fairness

-----------------------------------------------------------------------------
TypeOK ==
    /\ lane \in [Calls -> Stages] /\ adminLanes \subseteq Calls
    /\ request \in [Calls -> {"none", "preparing", "pending", "settled"}]
    /\ dispatched \subseteq Calls /\ sent \subseteq Calls
    /\ outcome \in [Calls -> Outcomes] /\ returned \subseteq Calls
    /\ reply \in [Calls -> {"none", "ok", "refused"}] /\ executed \subseteq Calls
    /\ stopped \in BOOLEAN

\* A caller that is told of a known failure may repeat the mutation: the
\* gateway has not carried it out, and never will.  One that is told of
\* success may rely on it, and an unknown outcome is reported only of a
\* request that has left.
AnswerIsTruthful ==
    \A c \in Calls :
        /\ outcome[c] \in KnownFailures => c \notin sent
        /\ outcome[c] = "refused" => c \notin executed
        /\ outcome[c] = "ok" => c \in executed
        /\ outcome[c] = "unknown" => c \in sent

\* The bound is on sockets, not on calls: a call that has returned while its
\* socket would not close still counts.
SocketsAreBounded ==
    Cardinality({c \in Calls : lane[c] \in {"connecting", "connected", "closing"}})
        <= AdminConcurrencyMaximum

\* Every call that was made returns, and every permit comes back.
CallReturns(c) == lane[c] # "none" ~> (c \in returned /\ c \notin adminLanes)
CallsReturn == \A c \in Calls : CallReturns(c)
=============================================================================
