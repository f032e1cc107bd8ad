---------------------------- MODULE JobRunEvents ----------------------------
(***************************************************************************)
(* The event history of one durable run.  Every transition of the run      *)
(* appends structural events; its action appends payload events (progress, *)
(* stdout, stderr) until their share of the history is used up.  The       *)
(* database aborts the transaction of an event that does not fit, so a     *)
(* structural event without room would leave the run stuck in its state.   *)
(*                                                                         *)
(* The counters grow here without a guard: the budget is the property.     *)
(* Times, tokens and the other runs are not represented: any transition of *)
(* module JobQueue may come at any moment.                                 *)
(***************************************************************************)
EXTENDS Integers

CONSTANTS
  AttemptMaximum,     (* largest attempt limit of a row: 10 in the code          *)
  PayloadMaximum,     (* payload events of one run: 967 in the code              *)
  StructuralReserve,  (* slots kept for structural events: 33 in the code        *)
  Definitions         (* the action definitions a run may be inserted with       *)

(* delivery: the action is delivery.production.v1.  scheduled: a schedule  *)
(* triggers the run.                                                       *)
ASSUME EventConstants ==
  /\ AttemptMaximum \in Nat \ {0}
  /\ PayloadMaximum \in Nat
  /\ StructuralReserve \in Nat
  /\ Definitions \subseteq
       [attemptLimit : 1..AttemptMaximum, retrySafe : BOOLEAN,
        cancellationPolicy : {"cooperative", "queued-only", "never"},
        scheduled : BOOLEAN, delivery : BOOLEAN]
  /\ \A d \in Definitions :
       d.delivery => ~d.scheduled /\ d.retrySafe /\ d.cancellationPolicy = "never"

EventMaximum == PayloadMaximum + StructuralReserve

VARIABLES
  definition,         (* the definition copied into the row, never changed        *)
  state, attemptCount, attemptLimit, cancelRequested,
  eventCount,         (* events of the run, of both kinds                        *)
  payloadEventCount,  (* payload events of the run                               *)
  truncated           (* whether output-truncated was recorded                   *)

vars == <<definition, state, attemptCount, attemptLimit, cancelRequested,
          eventCount, payloadEventCount, truncated>>

-----------------------------------------------------------------------------
(* The queued event is written with the row.                               *)
Init ==
  /\ definition \in Definitions
  /\ state = "queued"
  /\ attemptCount = 0
  /\ attemptLimit = definition.attemptLimit
  /\ cancelRequested = FALSE
  /\ eventCount = 1
  /\ payloadEventCount = 0
  /\ truncated = FALSE

(* n structural events appended by one transaction.                        *)
AppendEvents(n) ==
  /\ eventCount' = eventCount + n
  /\ UNCHANGED <<payloadEventCount, truncated>>

(* claimed                                                                 *)
ClaimNextRun ==
  /\ state = "queued"
  /\ state' = "running"
  /\ attemptCount' = attemptCount + 1
  /\ AppendEvents(1)
  /\ UNCHANGED <<definition, attemptLimit, cancelRequested>>

(* Mutant: payload events may use the whole history.                       *)
ExhaustedWithoutReserve(byteFull) == eventCount >= EventMaximum - 1 \/ byteFull

(* byteFull: the encoded payload of the run reached its own bound, which   *)
(* no counter of this module follows.                                      *)
Exhausted(byteFull) ==
  \/ payloadEventCount >= PayloadMaximum
  \/ eventCount >= EventMaximum - 1
  \/ byteFull

(* The payload event, or once the mark that output is cut from here on.    *)
AppendClaimEvent(byteFull) ==
  /\ state = "running"
  /\ \/ /\ ~Exhausted(byteFull)
        /\ eventCount' = eventCount + 1
        /\ payloadEventCount' = payloadEventCount + 1
        /\ UNCHANGED truncated
     \/ /\ Exhausted(byteFull)
        /\ ~truncated
        /\ eventCount < EventMaximum - 1
        /\ truncated' = TRUE
        /\ eventCount' = eventCount + 1
        /\ UNCHANGED payloadEventCount
  /\ UNCHANGED <<definition, state, attemptCount, attemptLimit, cancelRequested>>

(* cancel-requested, and for a queued run cancelled                        *)
CancelRun ==
  /\ \/ /\ state = "queued"
        /\ definition.cancellationPolicy # "never"
        /\ state' = "cancelled"
        /\ AppendEvents(2)
     \/ /\ state = "running"
        /\ definition.cancellationPolicy = "cooperative"
        /\ ~cancelRequested
        /\ AppendEvents(1)
        /\ UNCHANGED state
  /\ cancelRequested' = TRUE
  /\ UNCHANGED <<definition, attemptCount, attemptLimit>>

(* failed: the schedule of a queued run that can never be cancelled retired*)
FailQueuedRun ==
  /\ state = "queued"
  /\ definition.scheduled
  /\ definition.cancellationPolicy = "never"
  /\ state' = "failed"
  /\ AppendEvents(1)
  /\ UNCHANGED <<definition, attemptCount, attemptLimit, cancelRequested>>

MayRetry == definition.retrySafe /\ ~cancelRequested /\ attemptCount < attemptLimit

(* failed and retry-scheduled, or the terminal event                       *)
SettleClaim ==
  /\ state = "running"
  /\ \/ /\ MayRetry
        /\ state' = "queued"
        /\ AppendEvents(2)
     \/ /\ state' \in IF cancelRequested THEN {"cancelled", "succeeded"}
                                         ELSE {"failed", "succeeded", "timed-out"}
        /\ AppendEvents(1)
  /\ UNCHANGED <<definition, attemptCount, attemptLimit, cancelRequested>>

(* lease-expired and retry-scheduled, or lease-expired and the terminal    *)
RecoverExpiredClaim ==
  /\ state = "running"
  /\ state' = IF cancelRequested THEN "cancelled"
              ELSE IF MayRetry THEN "queued" ELSE "failed"
  /\ AppendEvents(2)
  /\ UNCHANGED <<definition, attemptCount, attemptLimit, cancelRequested>>

(* retry-scheduled                                                         *)
RecoverDeliveryProductionTerminalRun ==
  LET limit == IF attemptCount >= attemptLimit THEN attemptCount + 1 ELSE attemptLimit
  IN /\ definition.delivery
     /\ definition.retrySafe
     /\ state \in {"cancelled", "failed", "timed-out"}
     /\ limit <= AttemptMaximum
     /\ state' = "queued"
     /\ attemptLimit' = limit
     /\ cancelRequested' = FALSE
     /\ AppendEvents(1)
     /\ UNCHANGED <<definition, attemptCount>>

Next ==
  \/ ClaimNextRun
  \/ \E byteFull \in BOOLEAN : AppendClaimEvent(byteFull)
  \/ CancelRun
  \/ FailQueuedRun
  \/ SettleClaim
  \/ RecoverExpiredClaim
  \/ RecoverDeliveryProductionTerminalRun

Spec == Init /\ [][Next]_vars

-----------------------------------------------------------------------------
(* Every counter stays in its column's range.                              *)
TypeOK ==
  /\ definition \in Definitions
  /\ state \in {"queued", "running", "cancelled", "failed", "succeeded", "timed-out"}
  /\ attemptLimit \in 1..AttemptMaximum
  /\ attemptCount \in 0..attemptLimit
  /\ cancelRequested \in BOOLEAN
  /\ eventCount \in Nat
  /\ payloadEventCount \in 0..PayloadMaximum
  /\ truncated \in BOOLEAN

(* Whatever the action printed, every structural event of every legal      *)
(* lifecycle finds room: no transition of the run is ever aborted by the   *)
(* event budget.                                                           *)
EventBudget == eventCount <= EventMaximum

=============================================================================
