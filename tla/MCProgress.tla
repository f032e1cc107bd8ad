----------------------------- MODULE MCProgress -----------------------------
(***************************************************************************)
(* What must happen in the end, under the fairness each component states:  *)
(* the components of MCServices and, on small instances, those of          *)
(* MCStreams.  Again a behaviour chooses one component and runs it alone;  *)
(* the fairness of the others demands nothing of it.                       *)
(***************************************************************************)
EXTENDS MCServices, Sequences

CONSTANTS
    Clients, MaximumIssued,
    MaximumScopes, MaximumGeneration, MaximumSequence, QueueMaximum,
    OneShotCalls, AdminConcurrencyMaximum

VARIABLES
    issued, pruned, pollCursor, latestIssuedId, stream, cursor,
    lane, generation, reconnect, outbound, inbound, upstream, emitted,
    pendingScopes, scope, opened, lease, seen,
    callLane, adminLanes, request, dispatched, sent, callOutcome, returned, reply,
    executed, stopped

Realtime == INSTANCE RealtimeEvents WITH
    TopicAt <- [id \in 1 .. MaximumIssued |-> IF id = 2 THEN "u" ELSE "t"],
    TopicsOf <- [c \in Clients |-> {"t", "u"}],
    MaximumPageEvents <- 1, MaximumSubscriberQueueEvents <- 1, MaximumSubscribers <- 2

Chat == INSTANCE ChatSubscriptions WITH pending <- pendingScopes

OneShot == INSTANCE GatewayRequests WITH
    Calls <- OneShotCalls, lane <- callLane, outcome <- callOutcome

-----------------------------------------------------------------------------
realtimeVars == <<issued, pruned, pollCursor, latestIssuedId, stream, cursor>>
chatVars == <<lane, generation, reconnect, outbound, inbound, upstream, emitted,
              pendingScopes, scope, opened, lease, seen>>
oneShotVars == <<callLane, adminLanes, request, dispatched, sent, callOutcome,
                 returned, reply, executed, stopped>>
streamVars == <<realtimeVars, chatVars, oneShotVars>>
progressVars == <<serviceVars, streamVars>>

\* An action of one component, while it is the one that runs
InGate(action) ==
    /\ chosen = "authentication" /\ action
    /\ UNCHANGED <<chosen, tasksVars, releaseVars, writesVars, logsVars, streamVars>>

InTasks(action) ==
    /\ chosen = "tasks" /\ action
    /\ UNCHANGED <<chosen, vars, releaseVars, writesVars, logsVars, streamVars>>

InWrites(action) ==
    /\ chosen = "writes" /\ action
    /\ UNCHANGED <<chosen, vars, tasksVars, releaseVars, logsVars, streamVars>>

\* No read of a log moves its rotation: readers are left out here.
InLogs(action) ==
    /\ chosen = "logs" /\ action
    /\ UNCHANGED <<chosen, vars, tasksVars, releaseVars, writesVars, streamVars>>

InRealtime(action) ==
    /\ chosen = "realtime" /\ action
    /\ UNCHANGED <<chosen, vars, tasksVars, releaseVars, writesVars, logsVars, chatVars,
                   oneShotVars>>

InChat(action) ==
    /\ chosen = "chat" /\ action
    /\ UNCHANGED <<chosen, vars, tasksVars, releaseVars, writesVars, logsVars, realtimeVars,
                   oneShotVars>>

InOneShot(action) ==
    /\ chosen = "one-shot" /\ action
    /\ UNCHANGED <<chosen, vars, tasksVars, releaseVars, writesVars, logsVars, realtimeVars,
                   chatVars>>

ProgressInit ==
    /\ ServicesInit
    /\ Realtime!Init /\ Chat!Init /\ OneShot!Init

ProgressNext ==
    \/ InGate(Next) \/ InTasks(Tasks!Next) \/ InWrites(Writes!Next)
    \/ InLogs(Logs!WriteLine \/ Logs!RemoveLog \/ Logs!ChangeAccess
              \/ Logs!EngineStep \/ Logs!Stop)
    \/ InRealtime(Realtime!Next) \/ InChat(Chat!Next) \/ InOneShot(OneShot!Next)

-----------------------------------------------------------------------------
(* The Fairness of every component, while it is the one that runs *)

If(component, action) == chosen = component /\ action

GateFairness == \A c \in Calls :
    /\ WF_vars(If("authentication", WorkerStep(c)))
    /\ WF_vars(If("authentication", CallerStep(c)))
    /\ WF_vars(If("authentication", SettleStep(c)))

TasksFairness ==
    /\ \A e \in Notifications :
         /\ WF_tasksVars(If("tasks", Tasks!BackoffOver(e)))
         /\ WF_tasksVars(If("tasks", Tasks!LeaseLapses(e)))
         /\ SF_tasksVars(If("tasks", Tasks!GatewayAccepts(e)))
         /\ SF_tasksVars(If("tasks", \E w \in Workers : Tasks!Claim(w, e)))
         /\ SF_tasksVars(If("tasks", \E w \in Workers :
                              sender[w].claim = e /\ Tasks!AnswersInTime(w)))
         /\ SF_tasksVars(If("tasks", \E w \in Workers :
                              sender[w].claim = e /\ Tasks!MarkDelivered(w)))
    /\ \A w \in Workers :
         /\ WF_tasksVars(If("tasks", Tasks!ReadClaimInstant(w)))
         /\ WF_tasksVars(If("tasks", Tasks!ClaimNothing(w)))
         /\ WF_tasksVars(If("tasks", Tasks!SendFails(w)))
         /\ WF_tasksVars(If("tasks", Tasks!RetryLater(w)))
         /\ WF_tasksVars(If("tasks", Tasks!LeaseLost(w)))
         /\ WF_tasksVars(If("tasks", Tasks!Start(w)))

WritesFairness == \A c \in Writers :
    /\ WF_writesVars(If("writes", Writes!Begin(c) \/ Writes!Busy(c)))
    /\ WF_writesVars(If("writes", Writes!Commit(c)))
    /\ WF_writesVars(If("writes", Writes!TimeOut(c)))

LogsFairness == WF_logsVars(If("logs", Logs!EngineStep))

RealtimeFairness ==
    /\ WF_realtimeVars(If("realtime", Realtime!Poll))
    /\ \A c \in Clients : WF_realtimeVars(If("realtime", Realtime!Generator(c)))

ChatFairness ==
    /\ WF_chatVars(If("chat", lane = "closing"
                              /\ \E again \in BOOLEAN : Chat!Closed(again)))
    /\ \A s \in Chat!Scopes :
         /\ WF_chatVars(If("chat", Chat!Handle(s)))
         /\ WF_chatVars(If("chat", Chat!Handled(s) \/ Chat!ListenerFails(s)))
         /\ WF_chatVars(If("chat", \E known \in 0 .. MaximumSequence :
                                     Chat!Reconciled(s, known)))

OneShotFairness == \A c \in OneShotCalls :
    /\ WF_oneShotVars(If("one-shot", callLane[c] = "connecting"
                         /\ (OneShot!LaneFails(c) \/ OneShot!Connected(c))))
    /\ WF_oneShotVars(If("one-shot", OneShot!Prepared(c) \/ OneShot!PreparationFails(c)))
    /\ WF_oneShotVars(If("one-shot", OneShot!RequestTimesOut(c)))
    /\ WF_oneShotVars(If("one-shot", callLane[c] = "closing" /\ OneShot!Closed(c)))
    /\ WF_oneShotVars(If("one-shot", OneShot!Return(c)))

ProgressSpec ==
    /\ ProgressInit /\ [][ProgressNext]_progressVars
    /\ GateFairness /\ TasksFairness /\ WritesFairness /\ LogsFairness
    /\ RealtimeFairness /\ ChatFairness /\ OneShotFairness

-----------------------------------------------------------------------------
\* Every call comes to an end although its work, its gateway or the lock may
\* not: the gate answers an admitted caller and gets its permits back, a write
\* is answered, and a one-shot call returns and frees its socket (CallersReturn,
\* PermitsReturn, CallsAnswered and CallsReturn of the components; calls of one
\* kind are interchangeable, so the first of each is watched).
CallsEnd ==
    /\ CallerReturns("c1") /\ PermitReturns("c1")
    /\ chosen = "writes" => Writes!CallAnswered("x")
    /\ OneShot!CallReturns("r1")

\* See TaskNotifications: every notification is delivered in the end.
EventuallyDelivered == Tasks!EventuallyDelivered

\* No client is left behind: a connected one catches up or its stream has ended
\* (RealtimeEvents), no lease of a chat subscription keeps a subscriber that has
\* ended (ChatSubscriptions), and no log that its writer and everybody else leave
\* alone stays closed to its readers by a rotation that stopped (LogRotation).
ClientsAreServed ==
    /\ chosen = "realtime" => Realtime!CaughtUpOrEnded
    /\ Chat!LeaseIsAlive
    /\ Logs!ReadersAreServed
=============================================================================
