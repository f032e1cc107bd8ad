---------------------------- MODULE JobSchedules ----------------------------
(***************************************************************************)
(* One schedule of the job queue: its row in scheduled_jobs, its active    *)
(* disable intent and the runs it triggered.  Three parties write them:    *)
(* the worker's schedule pass (coordinator.ts), the operator through the   *)
(* web process (service.ts), and the reconciliation at the start of each   *)
(* process.  The first two read the row, wait for write admission, and     *)
(* commit what they computed from the copy.                                *)
(*                                                                         *)
(* The claim, lease and settlement of a run are module JobQueue's; here a  *)
(* run is queued, runs, may be queued again, and ends.  Metadata columns   *)
(* are the row's version: every change of them raises it.  The paging over *)
(* many schedules and the log-maintenance exclusion are not represented.   *)
(***************************************************************************)
EXTENDS Integers, FiniteSets

CONSTANTS
  Cadences,         (* the schedule configurations an operator may choose        *)
  InitialCadence,
  Cancellable,      (* whether the runs may be cancelled while queued            *)
  NoEdit, NoIntent, NoPass, NoExpiry,   (* null values                           *)
  ManualRuns,       (* identities of the manual runs                             *)
  MaxTime,          (* bound: the last instant                                   *)
  MaxVersion        (* bound: the version up to which operators and releases act *)

CadenceKinds == {"interval", "cron"}
RunStates == {"absent", "queued", "running", "ended"}

ASSUME ScheduleConstants ==
  /\ Cadences \subseteq [kind : CadenceKinds, period : Nat \ {0}]
  /\ InitialCadence \in Cadences
  /\ Cancellable \in BOOLEAN
  /\ MaxTime \in Nat
  /\ MaxVersion \in Nat \ {0}

Occurrences == 0..MaxTime

-----------------------------------------------------------------------------
(* Rows, and the copies that an update and a pass compute theirs from      *)

IntentRow == [expiresAt : Nat \cup {NoExpiry}]

ScheduleRow == [enabled : BOOLEAN, cadence : Cadences, version : Nat, nextRunAt : Nat]

EditRow == [enabled : BOOLEAN, cadence : Cadences, disables : BOOLEAN, version : Nat,
            hadIntent : BOOLEAN, intent : IntentRow \cup {NoIntent},
            recalculates : BOOLEAN, nextRunAt : Nat]

PassRow == [at : Nat, observed : Nat, version : Nat, nextRunAt : Nat]

ASSUME NullValues ==
  /\ NoIntent \notin IntentRow
  /\ NoEdit \notin EditRow
  /\ NoPass \notin PassRow

VARIABLES
  schedule,     (* the scheduled_jobs row                                        *)
  intent,       (* the active job_disable_intents row                            *)
  scheduledRun, (* scheduledRun[t]: state of the run of occurrence t             *)
  manualRun,    (* manualRun[m]: state of a manual run                           *)
  edit,         (* the operator's update between its read and its transaction    *)
  pass,         (* the worker's schedule pass between its read and transaction   *)
  releaseRegisters, webRegisters, workerRegisters,
                (* whether the action registry of the current release, and of the
                   release each process runs, names the schedule                 *)
  now

registries == <<releaseRegisters, webRegisters, workerRegisters>>
vars == <<schedule, intent, scheduledRun, manualRun, edit, pass, registries, now>>

-----------------------------------------------------------------------------
(* Mutant: the occurrence at the instant itself counts as the next.        *)
NextOccurrenceInclusive(cadence, after, anchor) ==
  IF cadence.kind = "interval"
  THEN IF anchor >= after THEN anchor
       ELSE anchor + ((after - anchor) \div cadence.period + 1) * cadence.period
  ELSE (after \div cadence.period + 1) * cadence.period

(* The first occurrence after an instant.  An interval keeps the phase of  *)
(* its anchor; a cron or daily expression has a fixed grid.                *)
NextOccurrence(cadence, after, anchor) ==
  IF cadence.kind = "interval"
  THEN IF anchor > after THEN anchor
       ELSE anchor + ((after - anchor) \div cadence.period + 1) * cadence.period
  ELSE (after \div cadence.period + 1) * cadence.period

Active(state) == state \in {"queued", "running"}

(* Mutant: a run that is being executed does not count.                    *)
RunActiveWhileQueued ==
  \/ \E t \in Occurrences : scheduledRun[t] = "queued"
  \/ \E m \in ManualRuns : manualRun[m] = "queued"

RunActive ==
  \/ \E t \in Occurrences : Active(scheduledRun[t])
  \/ \E m \in ManualRuns : Active(manualRun[m])

(* findQueuedScheduleRun: never started, or queued again for a retry.      *)
QueuedRuns == {t \in Occurrences : scheduledRun[t] = "queued"}

EndQueuedRuns ==
  scheduledRun' = [t \in Occurrences |-> IF t \in QueuedRuns THEN "ended" ELSE scheduledRun[t]]

-----------------------------------------------------------------------------
Init ==
  /\ schedule = [enabled |-> TRUE, cadence |-> InitialCadence, version |-> 1,
                 nextRunAt |-> NextOccurrence(InitialCadence, 0, 0)]
  /\ intent = NoIntent
  /\ scheduledRun = [t \in Occurrences |-> "absent"]
  /\ manualRun = [m \in ManualRuns |-> "absent"]
  /\ edit = NoEdit
  /\ pass = NoPass
  /\ releaseRegisters = TRUE
  /\ webRegisters = TRUE
  /\ workerRegisters = TRUE
  /\ now = 0

-----------------------------------------------------------------------------
(* The worker's schedule pass                                              *)

ListDueSchedules ==
  /\ pass = NoPass
  /\ schedule.enabled
  /\ schedule.nextRunAt <= now
  /\ pass' = [at |-> now, observed |-> schedule.nextRunAt, version |-> schedule.version,
              nextRunAt |-> NextOccurrence(schedule.cadence, now, schedule.nextRunAt)]
  /\ UNCHANGED <<schedule, intent, scheduledRun, manualRun, edit, registries, now>>

(* Mutant: the pass only compares the cursor.                              *)
CursorUnchanged == schedule.nextRunAt = pass.observed

ScheduleUnchanged ==
  /\ schedule.version = pass.version
  /\ schedule.enabled
  /\ schedule.nextRunAt = pass.observed

(* The run of an occurrence that already exists is returned as inserted    *)
(* before the schedule is looked at: the cursor stays where it is.         *)
EnqueueNextDueSchedule ==
  /\ pass # NoPass
  /\ pass' = NoPass
  /\ IF scheduledRun[pass.observed] = "absent" /\ ScheduleUnchanged /\ ~RunActive
     THEN /\ scheduledRun' = [scheduledRun EXCEPT ![pass.observed] = "queued"]
          /\ schedule' = [schedule EXCEPT !.nextRunAt = pass.nextRunAt]
     ELSE UNCHANGED <<scheduledRun, schedule>>
  /\ UNCHANGED <<intent, manualRun, edit, registries, now>>

IntentExpired ==
  /\ intent # NoIntent
  /\ intent.expiresAt # NoExpiry
  /\ intent.expiresAt <= now
  /\ ~schedule.enabled

Resumed ==
  [schedule EXCEPT !.enabled = TRUE,
                   !.version = @ + 1,
                   !.nextRunAt = NextOccurrence(schedule.cadence, now, @)]

(* Mutants: the schedule resumes and its pause stays active, the registry  *)
(* is not looked at, or the intent of a schedule outside the registry is   *)
(* left alone.                                                             *)
ExpireRetainingIntent ==
  /\ IntentExpired
  /\ schedule' = IF workerRegisters THEN Resumed ELSE schedule
  /\ UNCHANGED <<intent, scheduledRun, manualRun, edit, pass, registries, now>>

ExpireUnregistered ==
  /\ IntentExpired
  /\ intent' = NoIntent
  /\ schedule' = Resumed
  /\ UNCHANGED <<scheduledRun, manualRun, edit, pass, registries, now>>

ExpireRegisteredOnly ==
  /\ IntentExpired
  /\ workerRegisters
  /\ intent' = NoIntent
  /\ schedule' = Resumed
  /\ UNCHANGED <<scheduledRun, manualRun, edit, pass, registries, now>>

(* A schedule the worker's registry does not name stays disabled.          *)
ExpireDisableIntents ==
  /\ IntentExpired
  /\ intent' = NoIntent
  /\ schedule' = IF workerRegisters THEN Resumed ELSE schedule
  /\ UNCHANGED <<scheduledRun, manualRun, edit, pass, registries, now>>

-----------------------------------------------------------------------------
(* The operator: updateSchedule of the service reads the row and computes  *)
(* the cursor; updateSchedule of the repository commits it.                *)

(* What the service accepts: turning the schedule on, turning it off with  *)
(* an intent, replacing the intent, changing the cadence.  Turning it on   *)
(* or off may repeat the cadence, which still starts a new phase.          *)
Patches ==
  {p \in [enabled : {"on", "off", "keep"}, setsCadence : BOOLEAN, cadence : Cadences,
          expiresAt : (now + 1)..MaxTime \cup {NoExpiry}] :
     LET changesCadence == p.cadence # schedule.cadence
     IN /\ changesCadence => p.setsCadence
        /\ \/ /\ p.enabled = "off"
              /\ schedule.enabled \/ intent # NoIntent
           \/ /\ p.enabled = "on"
              /\ schedule.enabled => changesCadence
           \/ /\ p.enabled = "keep"
              /\ changesCadence}

ReadSchedule ==
  /\ edit = NoEdit
  /\ webRegisters
  /\ schedule.version < MaxVersion
  /\ \E p \in Patches :
       LET enabled == IF p.enabled = "keep" THEN schedule.enabled ELSE p.enabled = "on"
           anchor == IF p.setsCadence THEN now ELSE schedule.nextRunAt
           recalculates == enabled \/ p.setsCadence
       IN edit' = [enabled |-> enabled, cadence |-> p.cadence,
                   disables |-> p.enabled = "off",
                   version |-> schedule.version,
                   hadIntent |-> intent # NoIntent,
                   intent |-> CASE p.enabled = "on" -> NoIntent
                                [] p.enabled = "off" -> [expiresAt |-> p.expiresAt]
                                [] p.enabled = "keep" -> intent,
                   recalculates |-> recalculates,
                   nextRunAt |-> IF recalculates THEN NextOccurrence(p.cadence, now, anchor)
                                                 ELSE schedule.nextRunAt]
  /\ UNCHANGED <<schedule, intent, scheduledRun, manualRun, pass, registries, now>>

(* Refused when the version or the intent changed since the read, or when  *)
(* a queued run stands in the way of disabling.                            *)
UpdateSchedule ==
  LET refused == \/ schedule.version # edit.version
                 \/ (intent # NoIntent) # edit.hadIntent
                 \/ edit.disables /\ QueuedRuns # {} /\ ~Cancellable
  IN /\ edit # NoEdit
     /\ edit' = NoEdit
     /\ IF refused
        THEN UNCHANGED <<schedule, intent, scheduledRun>>
        ELSE /\ schedule' = [enabled |-> edit.enabled, cadence |-> edit.cadence,
                             version |-> schedule.version + 1,
                             nextRunAt |-> IF edit.recalculates THEN edit.nextRunAt
                                                                ELSE schedule.nextRunAt]
             /\ intent' = edit.intent
             /\ IF edit.disables THEN EndQueuedRuns ELSE UNCHANGED scheduledRun
     /\ UNCHANGED <<manualRun, pass, registries, now>>

(* runSchedule: refused while any run of the schedule is active; it works  *)
(* on a disabled schedule too and leaves the cursor alone.                 *)
RunSchedule(m) ==
  /\ webRegisters
  /\ manualRun[m] = "absent"
  /\ ~RunActive
  /\ manualRun' = [manualRun EXCEPT ![m] = "queued"]
  /\ UNCHANGED <<schedule, intent, scheduledRun, edit, pass, registries, now>>

-----------------------------------------------------------------------------
(* Releases.  Each process reconciles the schedules with the registry of   *)
(* its release before it serves; what its predecessor was doing is lost.   *)

ActivateRelease ==
  /\ releaseRegisters' = ~releaseRegisters
  /\ UNCHANGED <<schedule, intent, scheduledRun, manualRun, edit, pass,
                 webRegisters, workerRegisters, now>>

(* Metadata is refreshed; an enabled schedule that the registry no longer  *)
(* names is disabled and its queued run ended.                             *)
ReconcileSchedules(metadataChanged) ==
  \/ /\ releaseRegisters
     /\ metadataChanged
     /\ schedule.version < MaxVersion
     /\ schedule' = [schedule EXCEPT !.version = @ + 1]
     /\ UNCHANGED scheduledRun
  \/ /\ ~releaseRegisters
     /\ schedule.enabled
     /\ schedule.version < MaxVersion
     /\ schedule' = [schedule EXCEPT !.enabled = FALSE, !.version = @ + 1]
     /\ EndQueuedRuns
  \/ /\ IF releaseRegisters THEN ~metadataChanged ELSE ~schedule.enabled
     /\ UNCHANGED <<schedule, scheduledRun>>

StartWeb(metadataChanged) ==
  /\ ReconcileSchedules(metadataChanged)
  /\ webRegisters' = releaseRegisters
  /\ edit' = NoEdit
  /\ UNCHANGED <<intent, manualRun, pass, workerRegisters, releaseRegisters, now>>

(* A restart of the same release is left out: it only drops the pass.      *)
StartWorker(metadataChanged) ==
  /\ workerRegisters # releaseRegisters \/ (metadataChanged /\ releaseRegisters)
  /\ ReconcileSchedules(metadataChanged)
  /\ workerRegisters' = releaseRegisters
  /\ pass' = NoPass
  /\ UNCHANGED <<intent, manualRun, edit, webRegisters, releaseRegisters, now>>

-----------------------------------------------------------------------------
(* The queue: a run starts, is queued again after a failed attempt, ends.  *)

RunMoves(state, new) ==
  \/ state = "queued" /\ new = "running"
  \/ state = "running" /\ new = "queued"
  \/ Active(state) /\ new = "ended"

MoveScheduledRun(t, new) ==
  /\ RunMoves(scheduledRun[t], new)
  /\ scheduledRun' = [scheduledRun EXCEPT ![t] = new]
  /\ UNCHANGED <<schedule, intent, manualRun, edit, pass, registries, now>>

MoveManualRun(m, new) ==
  /\ RunMoves(manualRun[m], new)
  /\ manualRun' = [manualRun EXCEPT ![m] = new]
  /\ UNCHANGED <<schedule, intent, scheduledRun, edit, pass, registries, now>>

Tick ==
  /\ now < MaxTime
  /\ now' = now + 1
  /\ UNCHANGED <<schedule, intent, scheduledRun, manualRun, edit, pass,
                 registries>>

-----------------------------------------------------------------------------
Next ==
  \/ ListDueSchedules
  \/ EnqueueNextDueSchedule
  \/ ExpireDisableIntents
  \/ ReadSchedule
  \/ UpdateSchedule
  \/ \E m \in ManualRuns : RunSchedule(m)
  \/ ActivateRelease
  \/ \E metadataChanged \in BOOLEAN :
       \/ StartWeb(metadataChanged)
       \/ StartWorker(metadataChanged)
  \/ \E new \in RunStates :
       \/ \E t \in Occurrences : MoveScheduledRun(t, new)
       \/ \E m \in ManualRuns : MoveManualRun(m, new)
  \/ Tick

Spec == Init /\ [][Next]_vars

(* The schedule loop never stops while a worker lives, and every active    *)
(* run ends: its attempts and its timeout are bounded, so a run cannot be  *)
(* queued again for ever.  Operators and releases owe nothing.             *)
Fairness ==
  /\ WF_vars(ListDueSchedules)
  /\ WF_vars(EnqueueNextDueSchedule)
  /\ WF_vars(ExpireDisableIntents)
  /\ \A t \in Occurrences : WF_vars(MoveScheduledRun(t, "ended"))
  /\ \A m \in ManualRuns : WF_vars(MoveManualRun(m, "ended"))

FairSpec == Spec /\ Fairness

-----------------------------------------------------------------------------
(* Properties                                                              *)

(* Every variable has the type of what it stands for.                      *)
TypeOK ==
  /\ schedule \in ScheduleRow
  /\ intent \in IntentRow \cup {NoIntent}
  /\ scheduledRun \in [Occurrences -> RunStates]
  /\ manualRun \in [ManualRuns -> RunStates]
  /\ edit \in EditRow \cup {NoEdit}
  /\ pass \in PassRow \cup {NoPass}
  /\ releaseRegisters \in BOOLEAN
  /\ webRegisters \in BOOLEAN
  /\ workerRegisters \in BOOLEAN
  /\ now \in 0..MaxTime

(* A schedule never has two active runs, whatever a pass, a manual request *)
(* and a retry do at the same time: the partial unique index               *)
(* job_runs_one_active_schedule_idx never aborts a transaction.            *)
OneActiveRun ==
  Cardinality({t \in Occurrences : Active(scheduledRun[t])})
    + Cardinality({m \in ManualRuns : Active(manualRun[m])}) <= 1

(* The rows keep their types and the one constraint that relates them: an  *)
(* enabled schedule has no active disable intent.  expireDisableIntents    *)
(* throws "Enabled schedule retains an active disable intent" otherwise,   *)
(* and the worker with it.                                                 *)
RowsConsistent == TypeOK /\ (schedule.enabled => intent = NoIntent)

(* A pass that read the schedule before it was disabled, edited or         *)
(* advanced inserts nothing: a new scheduled run is always the due         *)
(* occurrence of the enabled row, which moves on past it.                  *)
InsertsDueOccurrence ==
  [][\A t \in Occurrences :
       scheduledRun[t] = "absent" /\ scheduledRun'[t] # "absent" =>
         /\ schedule.enabled
         /\ schedule.nextRunAt = t
         /\ t <= now
         /\ schedule'.nextRunAt > t]_vars

(* A schedule the current release dropped ends disabled, whatever the      *)
(* processes of the previous release still did to it: once both run a      *)
(* release without it, neither an update in flight nor an expired pause    *)
(* brings it back.                                                         *)
RetiredStaysDisabled == ~webRegisters /\ ~workerRegisters => ~schedule.enabled

(* The schedule never gets stuck: a due occurrence of an enabled schedule  *)
(* is run or skipped, and the cursor moves beyond the present.             *)
DueScheduleAdvances ==
  \A t \in Occurrences :
    (schedule.enabled /\ schedule.nextRunAt = t /\ t <= now)
      ~> ~(schedule.enabled /\ schedule.nextRunAt = t)

(* A pause with an expiry ends: the schedule runs again, or the pause was  *)
(* replaced, or the schedule left the registry.                            *)
ExpiredIntentEnds ==
  \A t \in Occurrences :
    (intent # NoIntent /\ intent = [expiresAt |-> t] /\ t <= now)
      ~> (intent = NoIntent \/ intent # [expiresAt |-> t])

=============================================================================
