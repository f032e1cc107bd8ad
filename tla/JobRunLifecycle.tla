--------------------------- MODULE JobRunLifecycle ---------------------------
(***************************************************************************)
(* What the database itself promises about one job_runs row: the CHECK     *)
(* constraints of the table and the triggers job_runs_reject_snapshot_-    *)
(* update, job_runs_validate_lifecycle_update and job_runs_reject_delete.  *)
(* They raise ABORT for any other update, so the table alone is a          *)
(* specification of the life of a run.  Module JobQueue implements it when *)
(* no transaction of the repository can ever be aborted by them.           *)
(*                                                                         *)
(* The columns are the ones JobQueue keeps; state_version, the timestamps  *)
(* of attempts and the event counters are not represented.                 *)
(***************************************************************************)
EXTENDS Integers

CONSTANTS Runs, Workers, NoWorker, InitialAttemptLimit, RetrySafe,
          CancellationPolicy, ScheduledRuns, DeliveryRuns, AttemptMaximum

VARIABLE rows

Terminal == {"cancelled", "failed", "succeeded", "timed-out"}

-----------------------------------------------------------------------------
(* CHECK constraints                                                       *)

AttemptCheck(row) ==
  /\ row.attemptLimit \in 1..AttemptMaximum
  /\ row.attemptCount \in 0..row.attemptLimit

LeaseCheck(row) ==
  IF row.state = "running"
  THEN row.leaseOwner # NoWorker /\ row.leaseToken # 0 /\ row.leaseExpiresAt # 0
  ELSE row.leaseOwner = NoWorker /\ row.leaseToken = 0 /\ row.leaseExpiresAt = 0

CancelRequestCheck(r, row) ==
  /\ row.state = "cancelled" => row.cancelRequested
  /\ row.cancelRequested => CancellationPolicy[r] # "never"

(* A run that never started can end only by cancellation or, when it can   *)
(* never be cancelled, with the action its schedule named.                 *)
StateCheck(r, row) ==
  \/ row.state \in {"queued", "cancelled"}
  \/ row.state \in {"running", "succeeded", "failed", "timed-out"} /\ row.attemptCount > 0
  \/ row.state = "failed" /\ CancellationPolicy[r] = "never" /\ r \in ScheduledRuns

RowChecks(r, row) ==
  /\ AttemptCheck(row)
  /\ LeaseCheck(row)
  /\ CancelRequestCheck(r, row)
  /\ StateCheck(r, row)

-----------------------------------------------------------------------------
(* Triggers                                                                *)

(* The one update a terminal row admits.                                   *)
DeliveryRecovery(r, old, new) ==
  /\ r \in DeliveryRuns
  /\ RetrySafe[r]
  /\ old.state \in {"cancelled", "failed", "timed-out"}
  /\ new.state = "queued"
  /\ new.attemptCount = old.attemptCount
  /\ new.attemptLimit = IF old.attemptCount >= old.attemptLimit
                        THEN old.attemptCount + 1 ELSE old.attemptLimit
  /\ new.attemptCount < new.attemptLimit
  /\ new.availableAt = new.updatedAt
  /\ new.availableAt >= old.updatedAt
  /\ ~new.cancelRequested

StateChange(r, old, new) ==
  \/ old.state = new.state
  \/ old.state = "queued" /\ new.state \in {"running", "cancelled"}
  \/ /\ old.state = "queued"
     /\ new.state = "failed"
     /\ CancellationPolicy[r] = "never"
     /\ r \in ScheduledRuns
  \/ old.state = "running" /\ new.state \in Terminal
  \/ /\ old.state = "running"
     /\ new.state = "queued"
     /\ RetrySafe[r]
     /\ old.attemptCount < old.attemptLimit
     /\ ~old.cancelRequested

CancellationChange(r, old, new) ==
  /\ old.cancelRequested => new.cancelRequested
  /\ new.state = "cancelled" =>
       /\ CancellationPolicy[r] # "never"
       /\ old.state = "running" => CancellationPolicy[r] = "cooperative"
  /\ (old.state = "running" /\ ~old.cancelRequested /\ new.cancelRequested) =>
       CancellationPolicy[r] = "cooperative"

LifecycleUpdate(r, old, new) ==
  /\ old.state \notin Terminal
  /\ new.attemptLimit = old.attemptLimit
  /\ new.updatedAt >= old.updatedAt
  /\ new.attemptCount = IF old.state = "queued" /\ new.state = "running"
                        THEN old.attemptCount + 1 ELSE old.attemptCount
  /\ StateChange(r, old, new)
  /\ CancellationChange(r, old, new)

Insertion(r, old, new) ==
  /\ old.state = "absent"
  /\ new.state = "queued"
  /\ new.attemptCount = 0
  /\ new.attemptLimit = InitialAttemptLimit[r]
  /\ ~new.cancelRequested

Accepted(r, old, new) ==
  /\ new.state # "absent"
  /\ RowChecks(r, new)
  /\ \/ Insertion(r, old, new)
     \/ old.state # "absent" /\ LifecycleUpdate(r, old, new)
     \/ DeliveryRecovery(r, old, new)

-----------------------------------------------------------------------------
LifecycleInit == \A r \in Runs : rows[r].state = "absent"

(* One transaction may update several rows, each as the table accepts.     *)
LifecycleNext == \A r \in Runs : rows'[r] = rows[r] \/ Accepted(r, rows[r], rows'[r])

LifecycleSpec == LifecycleInit /\ [][LifecycleNext]_rows

=============================================================================
