------------------------------ MODULE ChatRuns ------------------------------
(***************************************************************************)
(* The runs of one chat session (server/domains/chat): the rows the        *)
(* repository keeps for what an operator sent, the web process that sends, *)
(* follows, aborts and reconciles them, and the transcript whose           *)
(* generation fences them.  A step is one transaction or one answer of the *)
(* gateway; the process may be somewhere else between two steps of a call, *)
(* or gone.                                                                *)
(*                                                                         *)
(* Every transaction on a row demands that the run's generation is the     *)
(* transcript's and that the transcript is ready (Current).  Events reach  *)
(* a run when they are handled: the batches of the coalescer, sequence     *)
(* numbers, text and snapshots are left out, and a final message of the    *)
(* history always names its run.                                           *)
(***************************************************************************)
EXTENDS Naturals, FiniteSets

CONSTANTS
    Runs,                  \* what the operator sends, each with attachments
    MaximumActive,         \* chatActiveRunsPerSessionMaximum
    MaximumDisturbances    \* bound: restarts, lost connections, controls,
                           \* boundaries and failed passes

ASSUME ChatRunsAssumption ==
    /\ MaximumActive \in Nat \ {0}
    /\ MaximumDisturbances \in Nat

VARIABLES
    chatRun,        \* chat_runs
    transcript,     \* chat_transcript_generations
    controlling,    \* whether a control of the transcript is being called
    sending,        \* where the send of a run is
    ticket,         \* the reservation of its attachments
    aborting,       \* where the abort of a run is
    reconciling,    \* the reconciliation of a run with the gateway's history
    blocked,        \* runs whose provider events are dropped
    abortAcknowledged,
    recovery,       \* candidates of the maintenance pass, as they were listed
    overdue,        \* runs admitted 24 hours ago
    provider,       \* the gateway: what became of a message
    disturbances

vars == <<chatRun, transcript, controlling, sending, ticket, aborting, reconciling,
          blocked, abortAcknowledged, recovery, overdue, provider, disturbances>>

transcriptVars == <<transcript, controlling>>
callVars == <<sending, ticket, aborting>>
followVars == <<reconciling, blocked, abortAcknowledged>>
worldVars == <<recovery, overdue, provider, disturbances>>

-----------------------------------------------------------------------------
(* Rows *)

Outcomes == {"completed", "failed", "cancelled"}
Settled == Outcomes \cup {"unresolved"}
Active == {"admitted", "active", "cancel-requested", "interrupted", "outcome-unknown"}
Failures == {"none", "before-dispatch", "provider"}

\* Every boundary of the transcript is one of the disturbances.
Generations == 1 + MaximumDisturbances

ChatRun ==
    [state : Active \cup Settled \cup {"absent"}, generation : 0 .. Generations,
     cancelled : BOOLEAN, attempted : BOOLEAN, acknowledged : BOOLEAN,
     failure : Failures, reconciled : BOOLEAN]

Absent ==
    [state |-> "absent", generation |-> 0, cancelled |-> FALSE, attempted |-> FALSE,
     acknowledged |-> FALSE, failure |-> "none", reconciled |-> FALSE]

Admitted ==
    [Absent EXCEPT !.state = "admitted", !.generation = transcript.generation]

\* A terminal event settles, a cancel or an interruption takes over, and any
\* other event of the provider makes the run active unless it is being cancelled.
StateAfter(state, event) ==
    IF event \in Outcomes THEN event
    ELSE IF event = "cancel" THEN "cancel-requested"
    ELSE IF event = "interrupted" THEN "interrupted"
    ELSE IF state = "cancel-requested" THEN state
    ELSE "active"

After(row, event) ==
    [row EXCEPT !.state = StateAfter(@, event),
                !.cancelled = @ \/ event \in {"cancel", "cancelled"},
                !.failure = IF event = "failed" THEN "provider" ELSE @]

FailedBeforeDispatch(row) ==
    [row EXCEPT !.state = "failed", !.failure = "before-dispatch"]

Unresolved(row) == [row EXCEPT !.state = "unresolved"]

\* chat_runs_cancellation_check
Storable(row) ==
    /\ row.state \in {"cancel-requested", "cancelled"} => row.cancelled
    /\ row.state \in {"admitted", "active", "interrupted"} => ~row.cancelled

Current(r) ==
    /\ chatRun[r].state # "absent"
    /\ chatRun[r].generation = transcript.generation
    /\ transcript.status = "ready"

Open(r) == Current(r) /\ chatRun[r].state \in Active

\* The runs a maintenance pass, a gap or a transcript boundary is about
ActiveRuns == {r \in Runs : /\ chatRun[r].state \in Active
                            /\ chatRun[r].generation = transcript.generation}

\* The transaction of an event: refused for a settled run and by the table.
Accepts(r, event) == Open(r) /\ Storable(After(chatRun[r], event))

Store(r, row) == chatRun' = [chatRun EXCEPT ![r] = row]

StoreIf(condition, r, row) == Store(r, IF condition THEN row ELSE chatRun[r])

\* The gateway has taken the message.
Accepted(r) == provider[r] \in {"running"} \cup Outcomes

\* A reservation that is still held is spent or given back, any other is left.
SettleTicket(r, settlement) ==
    ticket' = [ticket EXCEPT ![r] = IF @ = "held" THEN settlement ELSE @]

-----------------------------------------------------------------------------
(* Reconciliation starts only for a run that is neither waiting for its    *)
(* timer nor being read, and gives up on a run whose transcript is fenced. *)

Start(r) == IF ~Current(r) THEN "idle" ELSE IF overdue[r] THEN "settling" ELSE "reading"
Again(r) == IF ~Current(r) THEN "idle" ELSE IF overdue[r] THEN "settling" ELSE "timer"

StartReconciliation(r) ==
    reconciling' = [reconciling EXCEPT ![r] = IF @ = "idle" THEN Start(r) ELSE @]

Forget(r) ==
    /\ blocked' = blocked \ {r}
    /\ abortAcknowledged' = abortAcknowledged \ {r}

ChatInit ==
    /\ chatRun = [r \in Runs |-> Absent]
    /\ transcript = [generation |-> 1, status |-> "ready", previous |-> "ready"]
    /\ controlling = FALSE
    /\ sending = [r \in Runs |-> "none"]
    /\ ticket = [r \in Runs |-> "none"]
    /\ aborting = [r \in Runs |-> "none"]
    /\ reconciling = [r \in Runs |-> "idle"]
    /\ blocked = {} /\ abortAcknowledged = {}
    /\ recovery = [r \in Runs |-> "none"]
    /\ overdue = [r \in Runs |-> FALSE]
    /\ provider = [r \in Runs |-> "none"]
    /\ disturbances = 0

-----------------------------------------------------------------------------
(* Sending: admit, subscribe and reserve, begin the dispatch, call the     *)
(* gateway, record its answer                                              *)

Send(r) ==
    /\ sending[r] = "none" /\ chatRun[r].state = "absent"
    /\ transcript.status = "ready"
    /\ Cardinality(ActiveRuns) < MaximumActive
    /\ Store(r, Admitted)
    /\ sending' = [sending EXCEPT ![r] = "admitted"]
    /\ UNCHANGED <<transcriptVars, ticket, aborting, followVars, worldVars>>

\* The subscription, the attachments or the transaction of the dispatch fails.
PreparationFails(r) ==
    /\ sending[r] = "admitted"
    /\ sending' = [sending EXCEPT ![r] = "failing"]
    /\ UNCHANGED <<chatRun, transcriptVars, ticket, aborting, followVars, worldVars>>

\* terminalFailure of a run that was not dispatched
FailRun(r) ==
    /\ sending[r] = "failing"
    /\ StoreIf(Open(r), r, FailedBeforeDispatch(chatRun[r]))
    /\ sending' = [sending EXCEPT ![r] = "done"]
    /\ UNCHANGED <<transcriptVars, ticket, aborting, followVars, worldVars>>

(* Mutant: a run that was cancelled while it was prepared is dispatched. *)
DispatchableUnattempted(row) == ~row.attempted

Dispatchable(row) == row.state = "admitted" /\ ~row.attempted

BeginDispatch(r) ==
    /\ sending[r] = "admitted" /\ Current(r)
    /\ LET dispatch == Dispatchable(chatRun[r]) IN
         /\ StoreIf(dispatch, r, [chatRun[r] EXCEPT !.attempted = TRUE])
         /\ ticket' = [ticket EXCEPT ![r] = IF dispatch THEN "held" ELSE "released"]
         /\ sending' = [sending EXCEPT ![r] = IF dispatch THEN "calling" ELSE "done"]
         /\ provider' = [provider EXCEPT ![r] = IF dispatch THEN "sent" ELSE @]
    /\ UNCHANGED <<transcriptVars, aborting, followVars, recovery, overdue, disturbances>>

\* The gateway refuses the message: a definitive failure.
SendRefused(r) ==
    /\ sending[r] = "calling" /\ provider[r] = "sent"
    /\ provider' = [provider EXCEPT ![r] = "refused"]
    /\ StoreIf(Open(r), r, After(chatRun[r], "failed"))
    /\ SettleTicket(r, "released")
    /\ sending' = [sending EXCEPT ![r] = "done"]
    /\ UNCHANGED <<transcriptVars, aborting, followVars, recovery, overdue, disturbances>>

\* The answer is lost, or cannot be recorded: the run may have been dispatched.
SendUnknown(r) ==
    /\ sending[r] = "calling"
    /\ sending' = [sending EXCEPT ![r] = "unknown"]
    /\ UNCHANGED <<chatRun, transcriptVars, ticket, aborting, followVars, worldVars>>

SendAnswered(r) ==
    /\ sending[r] = "calling" /\ Accepted(r)
    /\ SettleTicket(r, "committed")
    /\ StoreIf(Current(r), r, [chatRun[r] EXCEPT !.acknowledged = TRUE])
    /\ sending' = [sending EXCEPT ![r] = IF Current(r) THEN "done" ELSE "unknown"]
    /\ UNCHANGED <<transcriptVars, aborting, followVars, worldVars>>

\* The ticket of an unknown outcome is spent, for it cannot safely be retried.
UnknownTicket == "committed"

UnknownRow(row) == [row EXCEPT !.state = IF @ \in Active THEN "outcome-unknown" ELSE @]

MarkOutcomeUnknown(r) ==
    /\ sending[r] = "unknown"
    /\ StoreIf(Current(r), r, UnknownRow(chatRun[r]))
    /\ SettleTicket(r, UnknownTicket)
    /\ StartReconciliation(r)
    /\ sending' = [sending EXCEPT ![r] = "done"]
    /\ UNCHANGED <<transcriptVars, aborting, blocked, abortAcknowledged, worldVars>>

-----------------------------------------------------------------------------
(* The gateway (external) and its events *)

\* The message arrives, perhaps when nobody waits for the answer any more.
Deliver(r) ==
    /\ provider[r] = "sent"
    /\ provider' = [provider EXCEPT ![r] = "running"]
    /\ UNCHANGED <<chatRun, transcriptVars, callVars, followVars, recovery, overdue,
                   disturbances>>

Finish(r, outcome) ==
    /\ provider[r] = "running"
    /\ provider' = [provider EXCEPT ![r] = outcome]
    /\ UNCHANGED <<chatRun, transcriptVars, callVars, followVars, recovery, overdue,
                   disturbances>>

\* An event correlates with a run that was dispatched.
Correlates(r) == Current(r) /\ chatRun[r].attempted

Follows(r) == Correlates(r) /\ r \notin blocked /\ Accepted(r)

HandleProgress(r) ==
    /\ Follows(r) /\ Accepts(r, "progress")
    /\ Store(r, [After(chatRun[r], "progress") EXCEPT !.acknowledged = TRUE])
    /\ UNCHANGED <<transcriptVars, callVars, followVars, worldVars>>

HandleTerminal(r) ==
    /\ Follows(r) /\ provider[r] \in Outcomes /\ Open(r)
    /\ Store(r, [After(chatRun[r], provider[r]) EXCEPT !.acknowledged = TRUE])
    /\ blocked' = blocked \cup {r}
    /\ StartReconciliation(r)
    /\ UNCHANGED <<transcriptVars, callVars, abortAcknowledged, worldVars>>

\* A gap, an event that cannot be stored, or back pressure, which is about every
\* open run: the run is blocked and, if the table takes it, interrupted; its
\* history decides.
BlockAndReconcile(r) ==
    /\ Correlates(r) \/ Open(r)
    /\ StoreIf(chatRun[r].state # "interrupted" /\ Accepts(r, "interrupted"),
               r, After(chatRun[r], "interrupted"))
    /\ blocked' = blocked \cup {r}
    /\ StartReconciliation(r)
    /\ UNCHANGED <<transcriptVars, callVars, abortAcknowledged, worldVars>>

\* The subscription ends in order: every open run is compared with the history.
SessionReconciliation ==
    /\ \E r \in Runs : Open(r) /\ reconciling[r] = "idle"
    /\ reconciling' = [r \in Runs |->
           IF Open(r) /\ reconciling[r] = "idle" THEN Start(r) ELSE reconciling[r]]
    /\ UNCHANGED <<chatRun, transcriptVars, callVars, blocked, abortAcknowledged, worldVars>>

-----------------------------------------------------------------------------
(* Reconciliation of one run with the gateway's history *)

\* The history cannot be read, or has no final message; a run in flight proves
\* the gateway's identity of the run.
ReadNoFinal(r) ==
    /\ reconciling[r] = "reading"
    /\ \E inFlight \in BOOLEAN :
         /\ inFlight => provider[r] = "running" /\ Correlates(r)
         /\ StoreIf(inFlight, r, [chatRun[r] EXCEPT !.acknowledged = TRUE])
    /\ reconciling' = [reconciling EXCEPT ![r] = Again(r)]
    /\ UNCHANGED <<transcriptVars, callVars, blocked, abortAcknowledged, worldVars>>

ReadFinal(r) ==
    /\ reconciling[r] = "reading" /\ provider[r] = "completed"
    /\ IF Current(r)
       THEN /\ Store(r, [IF Open(r) THEN After(chatRun[r], "completed") ELSE chatRun[r]
                             EXCEPT !.acknowledged = TRUE])
            /\ reconciling' = [reconciling EXCEPT ![r] = "recording"]
       ELSE /\ reconciling' = [reconciling EXCEPT ![r] = "idle"]
            /\ UNCHANGED chatRun
    /\ UNCHANGED <<transcriptVars, callVars, blocked, abortAcknowledged, worldVars>>

RecordReconciled(r) ==
    /\ reconciling[r] = "recording"
    /\ StoreIf(Current(r), r, [chatRun[r] EXCEPT !.reconciled = TRUE])
    /\ reconciling' = [reconciling EXCEPT ![r] = "idle"]
    /\ IF Current(r)
       THEN SettleTicket(r, "committed") /\ Forget(r)
       ELSE UNCHANGED <<ticket, blocked, abortAcknowledged>>
    /\ UNCHANGED <<transcriptVars, sending, aborting, worldVars>>

TimerFires(r) ==
    /\ reconciling[r] = "timer"
    /\ reconciling' = [reconciling EXCEPT ![r] = Start(r)]
    /\ UNCHANGED <<chatRun, transcriptVars, callVars, blocked, abortAcknowledged, worldVars>>

\* settleReconciliationDeadline, of the timer and of the maintenance pass
SettleAtDeadline(r) ==
    IF Open(r)
    THEN /\ Store(r, Unresolved(chatRun[r]))
         /\ SettleTicket(r, "released")
         /\ Forget(r)
         /\ reconciling' = [reconciling EXCEPT ![r] =
                IF @ \in {"timer", "settling"} THEN "idle" ELSE @]
    ELSE /\ reconciling' = [reconciling EXCEPT ![r] = IF @ = "settling" THEN "idle" ELSE @]
         /\ UNCHANGED <<chatRun, ticket, blocked, abortAcknowledged>>

SettleDeadline(r) ==
    /\ reconciling[r] = "settling"
    /\ SettleAtDeadline(r)
    /\ UNCHANGED <<transcriptVars, sending, aborting, worldVars>>

\* The calls of the gateway time out long before the 24 hours.
DeadlinePasses(r) ==
    /\ chatRun[r].state # "absent" /\ ~overdue[r]
    /\ sending[r] \in {"none", "done"}
    /\ overdue' = [overdue EXCEPT ![r] = TRUE]
    /\ UNCHANGED <<chatRun, transcriptVars, callVars, followVars, recovery, provider,
                   disturbances>>

-----------------------------------------------------------------------------
(* Aborting *)

\* A first request is stored; a repeated one goes on only while the run is
\* still being cancelled.
RequestCancellation(r) ==
    /\ aborting[r] = "none" /\ Open(r)
    /\ chatRun[r].cancelled => chatRun[r].state = "cancel-requested"
    /\ StoreIf(~chatRun[r].cancelled, r, After(chatRun[r], "cancel"))
    /\ aborting' = [aborting EXCEPT ![r] = "requested"]
    /\ UNCHANGED <<transcriptVars, sending, ticket, followVars, worldVars>>

\* An acknowledged abort is not repeated, an unknown run is not aborted, and a
\* run that was not dispatched is cancelled here.
AbortDecides(r) ==
    /\ aborting[r] = "requested"
    /\ LET ends == r \in abortAcknowledged \/ ~Current(r) \/ ~chatRun[r].attempted IN
         /\ aborting' = [aborting EXCEPT ![r] = IF ends THEN "none" ELSE "calling"]
         /\ StoreIf(r \notin abortAcknowledged /\ Open(r) /\ ~chatRun[r].attempted,
                    r, After(chatRun[r], "cancelled"))
    /\ UNCHANGED <<transcriptVars, sending, ticket, followVars, worldVars>>

\* The gateway answers, and may have stopped the run.
AbortAnswered(r) ==
    /\ aborting[r] = "calling"
    /\ provider' \in {provider, [provider EXCEPT ![r] = IF @ = "running"
                                                        THEN "cancelled" ELSE @]}
    /\ abortAcknowledged' = abortAcknowledged \cup {r}
    /\ StartReconciliation(r)
    /\ aborting' = [aborting EXCEPT ![r] = "none"]
    /\ UNCHANGED <<chatRun, transcriptVars, sending, ticket, blocked, recovery, overdue,
                   disturbances>>

\* Whether the gateway aborted is unknown: so is then the run's outcome.
AbortUnknown(r) ==
    /\ aborting[r] = "calling"
    /\ StoreIf(Current(r), r, UnknownRow(chatRun[r]))
    /\ IF Current(r)
       THEN /\ abortAcknowledged' = abortAcknowledged \cup {r}
            /\ StartReconciliation(r)
       ELSE UNCHANGED <<abortAcknowledged, reconciling>>
    /\ aborting' = [aborting EXCEPT ![r] = "none"]
    /\ UNCHANGED <<transcriptVars, sending, ticket, blocked, worldVars>>

AbortRejected(r) ==
    /\ aborting[r] = "calling"
    /\ StartReconciliation(r)
    /\ aborting' = [aborting EXCEPT ![r] = "none"]
    /\ UNCHANGED <<chatRun, transcriptVars, sending, ticket, blocked, abortAcknowledged,
                   worldVars>>

-----------------------------------------------------------------------------
(* The transcript.  Its generation advances at a boundary; that settles    *)
(* the active runs of the old one as unresolved.                           *)

Advanced(status) ==
    [generation |-> transcript.generation + 1, status |-> status, previous |-> "ready"]

(* Mutant: only the runs that were dispatched are settled. *)
RetiredDispatched == {r \in ActiveRuns : chatRun[r].attempted}

Retired == ActiveRuns

\* The rows, and what the service does with the runs the change retired
Advance(status) ==
    /\ transcript' = Advanced(status)
    /\ controlling' = FALSE
    /\ chatRun' = [r \in Runs |-> IF r \in Retired THEN Unresolved(chatRun[r])
                                                   ELSE chatRun[r]]
    /\ ticket' = [r \in Runs |-> IF r \in Retired /\ ticket[r] = "held"
                                 THEN "committed" ELSE ticket[r]]
    /\ reconciling' = [r \in Runs |-> IF r \in Retired /\ reconciling[r] = "timer"
                                      THEN "idle" ELSE reconciling[r]]
    /\ blocked' = blocked \cup Retired
    /\ abortAcknowledged' = abortAcknowledged \ Retired

Disturb ==
    /\ disturbances < MaximumDisturbances
    /\ disturbances' = disturbances + 1

\* An exact lifecycle event, or a snapshot newer than the fence
ObserveBoundary ==
    /\ \E status \in {"ready", "absent"} : Advance(status)
    /\ IF transcript.status = "control-pending" THEN UNCHANGED disturbances ELSE Disturb
    /\ UNCHANGED <<sending, aborting, recovery, overdue, provider>>

BeginControl ==
    /\ transcript.status \in {"ready", "absent"}
    /\ Disturb
    /\ transcript' = [transcript EXCEPT !.status = "control-pending",
                                        !.previous = transcript.status]
    /\ controlling' = TRUE
    /\ UNCHANGED <<chatRun, callVars, followVars, recovery, overdue, provider>>

\* The control failed, or left the transcript as it was.
ReopenTranscript ==
    /\ controlling /\ controlling' = FALSE
    /\ transcript' = [transcript EXCEPT !.status = transcript.previous,
                                        !.previous = "ready"]
    /\ UNCHANGED <<chatRun, callVars, followVars, worldVars>>

\* A boundary of the transport fences a transcript with active runs, and
\* advances one without.
FencedTranscript ==
    IF transcript.status = "control-pending" THEN transcript
    ELSE IF ActiveRuns # {} THEN [transcript EXCEPT !.status = "reconciling"]
    ELSE Advanced(IF transcript.status = "absent" THEN "absent" ELSE "ready")

TransportBoundary ==
    /\ Disturb
    /\ transcript' = FencedTranscript
    /\ UNCHANGED <<chatRun, controlling, callVars, followVars, recovery, overdue, provider>>

\* The process dies.  The next one fences the transcript before it serves.
Restart ==
    /\ Disturb
    /\ transcript' = FencedTranscript
    /\ controlling' = FALSE
    /\ sending' = [r \in Runs |-> IF sending[r] = "none" THEN "none" ELSE "done"]
    /\ ticket' = [r \in Runs |-> IF ticket[r] = "held" THEN "lost" ELSE ticket[r]]
    /\ aborting' = [r \in Runs |-> "none"]
    /\ reconciling' = [r \in Runs |-> "idle"]
    /\ blocked' = {} /\ abortAcknowledged' = {}
    /\ recovery' = [r \in Runs |-> "none"]
    /\ UNCHANGED <<chatRun, overdue, provider>>

-----------------------------------------------------------------------------
(* The maintenance pass: after a start and every 30 seconds *)

\* A fenced transcript is reopened when the history represents every active run.
Represented ==
    \A r \in ActiveRuns : chatRun[r].attempted /\ provider[r] \in {"running", "completed"}

(* Mutant: a fence is lifted only if the history represents the active runs. *)
RecoverTranscriptRepresented ==
    /\ transcript.status = "reconciling"
    /\ ActiveRuns # {} /\ Represented
    /\ transcript' = [transcript EXCEPT !.status = "ready"]
    /\ UNCHANGED <<chatRun, controlling, ticket, followVars, sending, aborting, worldVars>>

RecoverTranscript ==
    /\ transcript.status = "reconciling"
    /\ IF ActiveRuns # {} /\ Represented
       THEN /\ transcript' = [transcript EXCEPT !.status = "ready"]
            /\ UNCHANGED <<chatRun, controlling, ticket, followVars>>
       ELSE Advance("ready")
    /\ UNCHANGED <<sending, aborting, worldVars>>

ListCandidates ==
    /\ \A r \in Runs : recovery[r] = "none"
    /\ \E r \in Runs : Open(r)
    /\ recovery' = [r \in Runs |-> IF ~Open(r) THEN "none"
                                   ELSE IF chatRun[r].attempted THEN "dispatched"
                                   ELSE "undispatched"]
    /\ UNCHANGED <<chatRun, transcriptVars, callVars, followVars, overdue, provider,
                   disturbances>>

RecoverUndispatched(r) ==
    /\ recovery[r] = "undispatched"
    /\ StoreIf(Open(r), r, FailedBeforeDispatch(chatRun[r]))
    /\ recovery' = [recovery EXCEPT ![r] = "none"]
    /\ UNCHANGED <<transcriptVars, callVars, followVars, overdue, provider, disturbances>>

RecoverDispatched(r) ==
    /\ recovery[r] = "dispatched"
    /\ IF overdue[r]
       THEN SettleAtDeadline(r)
       ELSE /\ StartReconciliation(r)
            /\ UNCHANGED <<chatRun, ticket, blocked, abortAcknowledged>>
    /\ recovery' = [recovery EXCEPT ![r] = "none"]
    /\ UNCHANGED <<transcriptVars, sending, aborting, overdue, provider, disturbances>>

\* A pass that fails leaves the rest to the next.
RecoveryFails ==
    /\ \E r \in Runs : recovery[r] # "none"
    /\ Disturb
    /\ recovery' = [r \in Runs |-> "none"]
    /\ UNCHANGED <<chatRun, transcriptVars, callVars, followVars, overdue, provider>>

-----------------------------------------------------------------------------
SendStep(r) ==
    \/ Send(r) \/ PreparationFails(r) \/ FailRun(r) \/ BeginDispatch(r)
    \/ SendRefused(r) \/ SendUnknown(r) \/ SendAnswered(r) \/ MarkOutcomeUnknown(r)

ProviderStep(r) ==
    \/ Deliver(r) \/ (\E outcome \in Outcomes : Finish(r, outcome))
    \/ HandleProgress(r) \/ HandleTerminal(r) \/ BlockAndReconcile(r)

ReconciliationStep(r) ==
    \/ ReadNoFinal(r) \/ ReadFinal(r) \/ RecordReconciled(r)
    \/ TimerFires(r) \/ SettleDeadline(r) \/ DeadlinePasses(r)

AbortStep(r) ==
    \/ RequestCancellation(r) \/ AbortDecides(r)
    \/ AbortAnswered(r) \/ AbortUnknown(r) \/ AbortRejected(r)

TranscriptStep ==
    \/ ObserveBoundary \/ BeginControl \/ ReopenTranscript
    \/ TransportBoundary \/ Restart

MaintenanceStep ==
    \/ RecoverTranscript \/ ListCandidates \/ RecoveryFails
    \/ \E r \in Runs : RecoverUndispatched(r) \/ RecoverDispatched(r)

Next ==
    \/ \E r \in Runs : \/ SendStep(r) \/ ProviderStep(r)
                       \/ ReconciliationStep(r) \/ AbortStep(r)
    \/ SessionReconciliation \/ TranscriptStep \/ MaintenanceStep

Spec == ChatInit /\ [][Next]_vars

-----------------------------------------------------------------------------
TypeOK ==
    /\ chatRun \in [Runs -> ChatRun]
    /\ transcript \in [generation : 1 .. Generations,
                       status : {"ready", "absent", "control-pending", "reconciling"},
                       previous : {"ready", "absent"}]
    /\ controlling \in BOOLEAN /\ (controlling => transcript.status = "control-pending")
    /\ sending \in [Runs -> {"none", "admitted", "failing", "calling", "unknown", "done"}]
    /\ ticket \in [Runs -> {"none", "held", "committed", "released", "lost"}]
    /\ aborting \in [Runs -> {"none", "requested", "calling"}]
    /\ reconciling \in [Runs -> {"idle", "reading", "recording", "timer", "settling"}]
    /\ blocked \subseteq Runs /\ abortAcknowledged \subseteq Runs
    /\ recovery \in [Runs -> {"none", "undispatched", "dispatched"}]
    /\ overdue \in [Runs -> BOOLEAN]
    /\ provider \in [Runs -> {"none", "sent", "refused", "running"} \cup Outcomes]
    /\ disturbances \in 0 .. MaximumDisturbances
    /\ \A r \in Runs : Storable(chatRun[r])

\* An active run belongs to the transcript that is there now: whatever boundary
\* passes between the steps of a send, an abort or a reconciliation, no run of an
\* earlier generation stays open, where it would hold capacity and take no event.
ActiveRunsAreCurrent ==
    \A r \in Runs : chatRun[r].state \in Active =>
        chatRun[r].generation = transcript.generation

\* A settled run stays as it is: neither a late answer of the send, an unknown
\* abort, a late event, the deadline, the maintenance pass nor a boundary changes
\* its outcome, and a run that was settled before its dispatch is never dispatched.
SettledIsFinal ==
    [][\A r \in Runs : chatRun[r].state \in Settled =>
           /\ chatRun'[r].state = chatRun[r].state
           /\ chatRun'[r].failure = chatRun[r].failure
           /\ chatRun'[r].attempted = chatRun[r].attempted
           /\ chatRun[r].reconciled => chatRun'[r].reconciled]_vars

\* Attachments are given back only if the gateway did not take their message,
\* and spent only for a run whose dispatch was begun.
TicketFollowsDispatch ==
    \A r \in Runs :
        /\ ticket[r] = "released" => ~Accepted(r)
        /\ ticket[r] \in {"committed", "lost"} => chatRun[r].attempted

\* What holds of the rows, the transcript and the reservations between two steps
RunsConsistent == TypeOK /\ ActiveRunsAreCurrent /\ TicketFollowsDispatch

\* Not so in the code: a maintenance pass that listed a run before its dispatch
\* fails it as "before provider dispatch" when it has been dispatched since.
FailureIsHonest ==
    \A r \in Runs : chatRun[r].failure = "before-dispatch" => ~chatRun[r].attempted

\* Not so in the code: the table refuses the interruption and the activity of a
\* run whose cancellation was requested, which the reducer calls legal.
LegalStatesAreStorable ==
    \A r \in Runs : Open(r) /\ Follows(r) =>
        \A event \in {"progress", "interrupted"} : Storable(After(chatRun[r], event))

\* Every run settles: by its outcome, by its history or at the deadline, also
\* when the process restarts, a control fails or nothing is heard of the message.
RunsSettle == \A r \in Runs : chatRun[r].state \in Active ~> chatRun[r].state \in Settled

\* Calls of the gateway end (it answers or they time out), timers fire, the
\* maintenance pass is repeated and does not fail for ever, the history of a
\* fenced transcript is read in the end, and a pending control ends or is
\* overtaken by a snapshot of the sessions.
Fairness ==
    /\ \A r \in Runs :
         /\ WF_vars(PreparationFails(r) \/ BeginDispatch(r)) /\ WF_vars(FailRun(r))
         /\ WF_vars(SendRefused(r) \/ SendUnknown(r) \/ SendAnswered(r))
         /\ WF_vars(MarkOutcomeUnknown(r))
         /\ WF_vars(ReadNoFinal(r) \/ ReadFinal(r)) /\ WF_vars(RecordReconciled(r))
         /\ WF_vars(TimerFires(r)) /\ WF_vars(SettleDeadline(r))
         /\ WF_vars(DeadlinePasses(r))
         /\ WF_vars(RecoverUndispatched(r)) /\ WF_vars(RecoverDispatched(r))
    /\ WF_vars(ListCandidates) /\ WF_vars(RecoverTranscript)
    /\ WF_vars(transcript.status = "control-pending"
               /\ (ObserveBoundary \/ ReopenTranscript))

FairSpec == Spec /\ Fairness
=============================================================================
