--------------------------- MODULE JobQueue_proofs ---------------------------
(***************************************************************************)
(* Theorems about module JobQueue, for every number of runs, workers,      *)
(* resources and attempts and every duration.  The bounds MaxTime and      *)
(* MaxBoot only restrict Tick and HostRestart and Staleness may be any     *)
(* number, so nothing depends on their values.                             *)
(*                                                                         *)
(* The argument: what a row satisfies between transactions (RowInv) is     *)
(* preserved by every row update, and every row update is one the table    *)
(* accepts.  One lemma per row update says both; one step per action says  *)
(* which row updates it makes.                                             *)
(***************************************************************************)
EXTENDS JobQueue, TLAPS

-----------------------------------------------------------------------------
(* The inductive invariant                                                 *)

RowInv(r, row) ==
  /\ row \in RunRow
  /\ row.attemptLimit \in 1..AttemptMaximum
  /\ row.attemptCount <= row.attemptLimit
  /\ row.state = "absent" =>
       /\ row.attemptCount = 0
       /\ row.attemptLimit = InitialAttemptLimit[r]
       /\ ~row.cancelRequested
  /\ row.state = "queued" =>
       /\ row.attemptCount < row.attemptLimit
       /\ ~row.cancelRequested
  /\ row.state = "running" =>
       /\ row.attemptCount > 0
       /\ row.leaseOwner \in Workers
       /\ row.leaseToken = row.attemptCount
       /\ row.leaseExpiresAt > 0
       /\ row.cancelRequested => CancellationPolicy[r] = "cooperative"
  /\ row.state # "running" =>
       /\ row.leaseOwner = NoWorker
       /\ row.leaseToken = 0
       /\ row.leaseExpiresAt = 0
  /\ row.cancelRequested => CancellationPolicy[r] # "never"
  /\ ~RetrySafe[r] =>
       /\ row.attemptCount <= 1
       /\ row.state \in {"absent", "queued"} => row.attemptCount = 0

RowsInv ==
  /\ jobRuns \in [Runs -> RunRow]
  /\ \A r \in Runs : RowInv(r, jobRuns[r])

(* An update of a row that keeps RowInv and that the table accepts.        *)
RowUpdate(r, old, new) == RowInv(r, new) /\ Lifecycle!Accepted(r, old, new)

RowsUpdate ==
  /\ jobRuns' = [r \in Runs |-> jobRuns'[r]]
  /\ \A r \in Runs : jobRuns'[r] = jobRuns[r] \/ RowUpdate(r, jobRuns[r], jobRuns'[r])

-----------------------------------------------------------------------------
(* Row updates                                                             *)

(* The later of two instants is an instant no earlier than either.         *)
LEMMA LatestNat ==
  ASSUME NEW a \in Nat, NEW b \in Nat
  PROVE  /\ Latest(a, b) \in Nat
         /\ Latest(a, b) >= a
         /\ Latest(a, b) >= b
BY DEF Latest

(* EnqueueRun                                                              *)
LEMMA EnqueuedRow ==
  ASSUME NEW r \in Runs, NEW row, RowInv(r, row), NEW at \in Nat, row.state = "absent"
  PROVE  RowUpdate(r, row, [row EXCEPT !.state = "queued", !.availableAt = at,
                                       !.updatedAt = at])
<1> DEFINE new == [row EXCEPT !.state = "queued", !.availableAt = at, !.updatedAt = at]
<1>1. row \in RunRow
  BY DEF RowInv
<1>2. new \in RunRow
  BY <1>1 DEF RunRow, RunStates
<1>3. /\ new.state = "queued"
      /\ new.attemptCount = row.attemptCount
      /\ new.attemptLimit = row.attemptLimit
      /\ new.leaseOwner = row.leaseOwner
      /\ new.leaseToken = row.leaseToken
      /\ new.leaseExpiresAt = row.leaseExpiresAt
  BY <1>1 DEF RunRow
<1>4. ~new.cancelRequested
  BY <1>1 DEF RunRow, RowInv
<1> HIDE DEF new
<1>5. RowInv(r, new)
  BY <1>2, <1>3, <1>4, QueueConstants DEF RowInv, RunRow
<1>6. Lifecycle!RowChecks(r, new)
  BY <1>2, <1>3, <1>4, <1>5 DEF RowInv, RunRow, Lifecycle!RowChecks, Lifecycle!AttemptCheck,
       Lifecycle!LeaseCheck, Lifecycle!CancelRequestCheck, Lifecycle!StateCheck
<1>7. Lifecycle!Insertion(r, row, new)
  BY <1>1, <1>3, <1>4 DEF RowInv, Lifecycle!Insertion
<1> QED
  BY <1>3, <1>5, <1>6, <1>7 DEF new, RowUpdate, Lifecycle!Accepted

(* CancelledInQueue with the instant it stores                             *)
Dequeued(row, at) == [Finished(row, "cancelled", at) EXCEPT !.cancelRequested = TRUE]

(* CancelRun and DisableSchedule of a queued run                           *)
LEMMA DequeuedRow ==
  ASSUME NEW r \in Runs, NEW row, RowInv(r, row), NEW at \in Nat, at >= row.updatedAt,
         row.state = "queued", CancellationPolicy[r] # "never"
  PROVE  RowUpdate(r, row, Dequeued(row, at))
<1> DEFINE new == Dequeued(row, at)
<1>1. row \in RunRow
  BY DEF RowInv
<1>2. new \in RunRow
  BY <1>1, QueueConstants DEF RunRow, RunStates, TerminalStates, Dequeued, Finished, Unleased
<1>3. /\ new.state = "cancelled"
      /\ new.attemptCount = row.attemptCount
      /\ new.attemptLimit = row.attemptLimit
      /\ new.cancelRequested = TRUE
      /\ new.availableAt = row.availableAt
      /\ new.updatedAt = at
      /\ new.leaseOwner = NoWorker
      /\ new.leaseToken = 0
      /\ new.leaseExpiresAt = 0
  BY <1>1 DEF RunRow, Dequeued, Finished, Unleased
<1> HIDE DEF new
<1>4. RowInv(r, new)
  BY <1>1, <1>2, <1>3, QueueConstants DEF RowInv, RunRow, TerminalStates
<1>5. Lifecycle!RowChecks(r, new)
  BY <1>1, <1>2, <1>3, <1>4, QueueConstants
     DEF RowInv, RunRow, TerminalStates, Lifecycle!RowChecks, Lifecycle!AttemptCheck,
         Lifecycle!LeaseCheck, Lifecycle!CancelRequestCheck, Lifecycle!StateCheck
<1>6. Lifecycle!LifecycleUpdate(r, row, new)
  BY <1>1, <1>2, <1>3, QueueConstants
     DEF RowInv, RunRow, TerminalStates, Lifecycle!LifecycleUpdate, Lifecycle!StateChange,
         Lifecycle!CancellationChange, Lifecycle!Terminal
<1> QED
  BY <1>3, <1>4, <1>5, <1>6 DEF new, RowUpdate, RowInv, TerminalStates, Lifecycle!Accepted

(* CancelRun of a running run                                              *)
LEMMA CancelRequestedRow ==
  ASSUME NEW r \in Runs, NEW row, RowInv(r, row), NEW at \in Nat, at >= row.updatedAt,
         row.state = "running", CancellationPolicy[r] = "cooperative"
  PROVE  RowUpdate(r, row, [row EXCEPT !.cancelRequested = TRUE, !.updatedAt = at])
<1> DEFINE new == [row EXCEPT !.cancelRequested = TRUE, !.updatedAt = at]
<1>1. row \in RunRow
  BY DEF RowInv
<1>2. new \in RunRow
  BY <1>1, QueueConstants DEF RunRow, RunStates, TerminalStates
<1>3. /\ new.state = row.state
      /\ new.attemptCount = row.attemptCount
      /\ new.attemptLimit = row.attemptLimit
      /\ new.cancelRequested = TRUE
      /\ new.availableAt = row.availableAt
      /\ new.updatedAt = at
      /\ new.leaseOwner = row.leaseOwner
      /\ new.leaseToken = row.leaseToken
      /\ new.leaseExpiresAt = row.leaseExpiresAt
  BY <1>1 DEF RunRow
<1> HIDE DEF new
<1>4. RowInv(r, new)
  BY <1>1, <1>2, <1>3, QueueConstants DEF RowInv, RunRow, TerminalStates
<1>5. Lifecycle!RowChecks(r, new)
  BY <1>1, <1>2, <1>3, <1>4, QueueConstants
     DEF RowInv, RunRow, TerminalStates, Lifecycle!RowChecks, Lifecycle!AttemptCheck,
         Lifecycle!LeaseCheck, Lifecycle!CancelRequestCheck, Lifecycle!StateCheck
<1>6. Lifecycle!LifecycleUpdate(r, row, new)
  BY <1>1, <1>2, <1>3, QueueConstants
     DEF RowInv, RunRow, TerminalStates, Lifecycle!LifecycleUpdate, Lifecycle!StateChange,
         Lifecycle!CancellationChange, Lifecycle!Terminal
<1> QED
  BY <1>3, <1>4, <1>5, <1>6 DEF new, RowUpdate, RowInv, TerminalStates, Lifecycle!Accepted

(* RetireSchedules of a run that can never be cancelled                    *)
LEMMA FailedInQueueRow ==
  ASSUME NEW r \in Runs, NEW row, RowInv(r, row), NEW at \in Nat, at >= row.updatedAt,
         row.state = "queued", CancellationPolicy[r] = "never", r \in ScheduledRuns
  PROVE  RowUpdate(r, row, Finished(row, "failed", at))
<1> DEFINE new == Finished(row, "failed", at)
<1>1. row \in RunRow
  BY DEF RowInv
<1>2. new \in RunRow
  BY <1>1, QueueConstants DEF RunRow, RunStates, TerminalStates, Finished, Unleased
<1>3. /\ new.state = "failed"
      /\ new.attemptCount = row.attemptCount
      /\ new.attemptLimit = row.attemptLimit
      /\ new.cancelRequested = row.cancelRequested
      /\ new.availableAt = row.availableAt
      /\ new.updatedAt = at
      /\ new.leaseOwner = NoWorker
      /\ new.leaseToken = 0
      /\ new.leaseExpiresAt = 0
  BY <1>1 DEF RunRow, Finished, Unleased
<1> HIDE DEF new
<1>4. RowInv(r, new)
  BY <1>1, <1>2, <1>3, QueueConstants DEF RowInv, RunRow, TerminalStates
<1>5. Lifecycle!RowChecks(r, new)
  BY <1>1, <1>2, <1>3, <1>4, QueueConstants
     DEF RowInv, RunRow, TerminalStates, Lifecycle!RowChecks, Lifecycle!AttemptCheck,
         Lifecycle!LeaseCheck, Lifecycle!CancelRequestCheck, Lifecycle!StateCheck
<1>6. Lifecycle!LifecycleUpdate(r, row, new)
  BY <1>1, <1>2, <1>3, QueueConstants
     DEF RowInv, RunRow, TerminalStates, Lifecycle!LifecycleUpdate, Lifecycle!StateChange,
         Lifecycle!CancellationChange, Lifecycle!Terminal
<1> QED
  BY <1>3, <1>4, <1>5, <1>6 DEF new, RowUpdate, RowInv, TerminalStates, Lifecycle!Accepted

(* ClaimNextRun                                                            *)
LEMMA ClaimedRow ==
  ASSUME NEW r \in Runs, NEW row, RowInv(r, row), NEW at \in Nat, at >= row.updatedAt,
         row.state = "queued", NEW w \in Workers
  PROVE  RowUpdate(r, row, Claimed(row, w, at))
<1> DEFINE new == Claimed(row, w, at)
<1>1. row \in RunRow
  BY DEF RowInv
<1>2. new \in RunRow
  <2>1. at + LeaseDuration \in Nat
    BY QueueConstants
  <2>2. row.attemptCount + 1 \in Nat
    BY <1>1 DEF RunRow
  <2> QED
    BY <1>1, <2>1, <2>2 DEF RunRow, RunStates, Claimed
<1>3. /\ new.state = "running"
      /\ new.attemptCount = row.attemptCount + 1
      /\ new.attemptLimit = row.attemptLimit
      /\ new.cancelRequested = row.cancelRequested
      /\ new.availableAt = row.availableAt
      /\ new.updatedAt = at
      /\ new.leaseOwner = w
      /\ new.leaseToken = row.attemptCount + 1
      /\ new.leaseExpiresAt = at + LeaseDuration
  BY <1>1 DEF RunRow, Claimed
<1> HIDE DEF new
<1>4. RowInv(r, new)
  BY <1>1, <1>2, <1>3, QueueConstants, SMTT(30) DEF RowInv, RunRow, TerminalStates
<1>5. Lifecycle!RowChecks(r, new)
  BY <1>1, <1>2, <1>3, <1>4, QueueConstants
     DEF RowInv, RunRow, TerminalStates, Lifecycle!RowChecks, Lifecycle!AttemptCheck,
         Lifecycle!LeaseCheck, Lifecycle!CancelRequestCheck, Lifecycle!StateCheck
<1>6. Lifecycle!LifecycleUpdate(r, row, new)
  BY <1>1, <1>2, <1>3, QueueConstants
     DEF RowInv, RunRow, TerminalStates, Lifecycle!LifecycleUpdate, Lifecycle!StateChange,
         Lifecycle!CancellationChange, Lifecycle!Terminal
<1> QED
  BY <1>3, <1>4, <1>5, <1>6 DEF new, RowUpdate, RowInv, TerminalStates, Lifecycle!Accepted

(* RenewClaim                                                              *)
LEMMA RenewedRow ==
  ASSUME NEW r \in Runs, NEW row, RowInv(r, row), NEW at \in Nat, at >= row.updatedAt,
         row.state = "running"
  PROVE  RowUpdate(r, row, [row EXCEPT !.updatedAt = at, !.leaseExpiresAt = at + LeaseDuration])
<1> DEFINE new == [row EXCEPT !.updatedAt = at, !.leaseExpiresAt = at + LeaseDuration]
<1>1. row \in RunRow
  BY DEF RowInv
<1>2. new \in RunRow
  <2>1. at + LeaseDuration \in Nat
    BY QueueConstants
  <2> QED
    BY <1>1, <2>1 DEF RunRow
<1>3. /\ new.state = row.state
      /\ new.attemptCount = row.attemptCount
      /\ new.attemptLimit = row.attemptLimit
      /\ new.cancelRequested = row.cancelRequested
      /\ new.availableAt = row.availableAt
      /\ new.updatedAt = at
      /\ new.leaseOwner = row.leaseOwner
      /\ new.leaseToken = row.leaseToken
      /\ new.leaseExpiresAt = at + LeaseDuration
  BY <1>1 DEF RunRow
<1> HIDE DEF new
<1>4. RowInv(r, new)
  BY <1>1, <1>2, <1>3, QueueConstants DEF RowInv, RunRow, TerminalStates
<1>5. Lifecycle!RowChecks(r, new)
  BY <1>1, <1>2, <1>3, <1>4, QueueConstants
     DEF RowInv, RunRow, TerminalStates, Lifecycle!RowChecks, Lifecycle!AttemptCheck,
         Lifecycle!LeaseCheck, Lifecycle!CancelRequestCheck, Lifecycle!StateCheck
<1>6. Lifecycle!LifecycleUpdate(r, row, new)
  BY <1>1, <1>2, <1>3, QueueConstants
     DEF RowInv, RunRow, TerminalStates, Lifecycle!LifecycleUpdate, Lifecycle!StateChange,
         Lifecycle!CancellationChange, Lifecycle!Terminal
<1> QED
  BY <1>3, <1>4, <1>5, <1>6 DEF new, RowUpdate, RowInv, TerminalStates, Lifecycle!Accepted

(* AppendClaimEvent                                                        *)
LEMMA AppendedRow ==
  ASSUME NEW r \in Runs, NEW row, RowInv(r, row), NEW at \in Nat, at >= row.updatedAt,
         row.state = "running"
  PROVE  RowUpdate(r, row, [row EXCEPT !.updatedAt = at])
<1> DEFINE new == [row EXCEPT !.updatedAt = at]
<1>1. row \in RunRow
  BY DEF RowInv
<1>2. new \in RunRow
  BY <1>1, QueueConstants DEF RunRow, RunStates, TerminalStates
<1>3. /\ new.state = row.state
      /\ new.attemptCount = row.attemptCount
      /\ new.attemptLimit = row.attemptLimit
      /\ new.cancelRequested = row.cancelRequested
      /\ new.availableAt = row.availableAt
      /\ new.updatedAt = at
      /\ new.leaseOwner = row.leaseOwner
      /\ new.leaseToken = row.leaseToken
      /\ new.leaseExpiresAt = row.leaseExpiresAt
  BY <1>1 DEF RunRow
<1> HIDE DEF new
<1>4. RowInv(r, new)
  BY <1>1, <1>2, <1>3, QueueConstants DEF RowInv, RunRow, TerminalStates
<1>5. Lifecycle!RowChecks(r, new)
  BY <1>1, <1>2, <1>3, <1>4, QueueConstants
     DEF RowInv, RunRow, TerminalStates, Lifecycle!RowChecks, Lifecycle!AttemptCheck,
         Lifecycle!LeaseCheck, Lifecycle!CancelRequestCheck, Lifecycle!StateCheck
<1>6. Lifecycle!LifecycleUpdate(r, row, new)
  BY <1>1, <1>2, <1>3, QueueConstants
     DEF RowInv, RunRow, TerminalStates, Lifecycle!LifecycleUpdate, Lifecycle!StateChange,
         Lifecycle!CancellationChange, Lifecycle!Terminal
<1> QED
  BY <1>3, <1>4, <1>5, <1>6 DEF new, RowUpdate, RowInv, TerminalStates, Lifecycle!Accepted

(* SettleClaim and RecoverExpiredClaims: another attempt                   *)
LEMMA RequeuedRow ==
  ASSUME NEW r \in Runs, NEW row, RowInv(r, row), NEW at \in Nat, at >= row.updatedAt,
         row.state = "running", NEW availableAt \in Nat, RetrySafe[r],
         ~row.cancelRequested, row.attemptCount < row.attemptLimit
  PROVE  RowUpdate(r, row, Requeued(row, at, availableAt))
<1> DEFINE new == Requeued(row, at, availableAt)
<1>1. row \in RunRow
  BY DEF RowInv
<1>2. new \in RunRow
  BY <1>1, QueueConstants DEF RunRow, RunStates, TerminalStates, Requeued, Unleased
<1>3. /\ new.state = "queued"
      /\ new.attemptCount = row.attemptCount
      /\ new.attemptLimit = row.attemptLimit
      /\ new.cancelRequested = row.cancelRequested
      /\ new.availableAt = availableAt
      /\ new.updatedAt = at
      /\ new.leaseOwner = NoWorker
      /\ new.leaseToken = 0
      /\ new.leaseExpiresAt = 0
  BY <1>1 DEF RunRow, Requeued, Unleased
<1> HIDE DEF new
<1>4. RowInv(r, new)
  BY <1>1, <1>2, <1>3, QueueConstants DEF RowInv, RunRow, TerminalStates
<1>5. Lifecycle!RowChecks(r, new)
  BY <1>1, <1>2, <1>3, <1>4, QueueConstants
     DEF RowInv, RunRow, TerminalStates, Lifecycle!RowChecks, Lifecycle!AttemptCheck,
         Lifecycle!LeaseCheck, Lifecycle!CancelRequestCheck, Lifecycle!StateCheck
<1>6. Lifecycle!LifecycleUpdate(r, row, new)
  BY <1>1, <1>2, <1>3, QueueConstants
     DEF RowInv, RunRow, TerminalStates, Lifecycle!LifecycleUpdate, Lifecycle!StateChange,
         Lifecycle!CancellationChange, Lifecycle!Terminal
<1> QED
  BY <1>3, <1>4, <1>5, <1>6 DEF new, RowUpdate, RowInv, TerminalStates, Lifecycle!Accepted

(* SettleClaim and RecoverExpiredClaims: the end of the run                *)
LEMMA FinishedRow ==
  ASSUME NEW r \in Runs, NEW row, RowInv(r, row), NEW at \in Nat, at >= row.updatedAt,
         row.state = "running", NEW outcome \in TerminalStates,
         outcome = "cancelled" => row.cancelRequested
  PROVE  RowUpdate(r, row, Finished(row, outcome, at))
<1> DEFINE new == Finished(row, outcome, at)
<1>1. row \in RunRow
  BY DEF RowInv
<1>2. new \in RunRow
  BY <1>1, QueueConstants DEF RunRow, RunStates, TerminalStates, Finished, Unleased
<1>3. /\ new.state = outcome
      /\ new.attemptCount = row.attemptCount
      /\ new.attemptLimit = row.attemptLimit
      /\ new.cancelRequested = row.cancelRequested
      /\ new.availableAt = row.availableAt
      /\ new.updatedAt = at
      /\ new.leaseOwner = NoWorker
      /\ new.leaseToken = 0
      /\ new.leaseExpiresAt = 0
  BY <1>1 DEF RunRow, Finished, Unleased
<1> HIDE DEF new
<1>4. RowInv(r, new)
  BY <1>1, <1>2, <1>3, QueueConstants DEF RowInv, RunRow, TerminalStates
<1>5. Lifecycle!RowChecks(r, new)
  BY <1>1, <1>2, <1>3, <1>4, QueueConstants
     DEF RowInv, RunRow, TerminalStates, Lifecycle!RowChecks, Lifecycle!AttemptCheck,
         Lifecycle!LeaseCheck, Lifecycle!CancelRequestCheck, Lifecycle!StateCheck
<1>6. Lifecycle!LifecycleUpdate(r, row, new)
  BY <1>1, <1>2, <1>3, QueueConstants
     DEF RowInv, RunRow, TerminalStates, Lifecycle!LifecycleUpdate, Lifecycle!StateChange,
         Lifecycle!CancellationChange, Lifecycle!Terminal
<1> QED
  BY <1>3, <1>4, <1>5, <1>6 DEF new, RowUpdate, RowInv, TerminalStates, Lifecycle!Accepted

(* RecoverDeliveryProductionTerminalRun                                    *)
LEMMA DeliveryRow ==
  ASSUME NEW r \in DeliveryRuns, NEW row, RowInv(r, row), NEW at \in Nat, at >= row.updatedAt,
         row.state \in {"cancelled", "failed", "timed-out"},
         NEW limit, limit = Latest(row.attemptLimit, row.attemptCount + 1),
         limit <= AttemptMaximum
  PROVE  RowUpdate(r, row, [row EXCEPT !.state = "queued", !.attemptLimit = limit,
                                       !.cancelRequested = FALSE, !.availableAt = at,
                                       !.updatedAt = at])
<1> DEFINE new == [row EXCEPT !.state = "queued", !.attemptLimit = limit,
                              !.cancelRequested = FALSE, !.availableAt = at,
                              !.updatedAt = at]
<1>0. r \in Runs /\ RetrySafe[r]
  BY QueueConstants
<1>1. row \in RunRow /\ row.attemptLimit \in 1..AttemptMaximum
  BY DEF RowInv
<1>2. limit \in 1..AttemptMaximum /\ row.attemptCount < limit /\ limit \in Nat
  BY <1>1, QueueConstants, SMTT(30) DEF RunRow, Latest
<1>3. new \in RunRow
  BY <1>1, <1>2 DEF RunRow, RunStates
<1>4. /\ new.state = "queued"
      /\ new.attemptCount = row.attemptCount
      /\ new.attemptLimit = limit
      /\ ~new.cancelRequested
      /\ new.availableAt = at
      /\ new.updatedAt = at
      /\ new.leaseOwner = row.leaseOwner
      /\ new.leaseToken = row.leaseToken
      /\ new.leaseExpiresAt = row.leaseExpiresAt
  BY <1>1 DEF RunRow
<1> HIDE DEF new
<1>5. RowInv(r, new)
  BY <1>0, <1>1, <1>2, <1>3, <1>4 DEF RowInv, RunRow
<1>6. Lifecycle!RowChecks(r, new)
  BY <1>1, <1>2, <1>3, <1>4, <1>5
     DEF RowInv, RunRow, Lifecycle!RowChecks, Lifecycle!AttemptCheck, Lifecycle!LeaseCheck,
         Lifecycle!CancelRequestCheck, Lifecycle!StateCheck
<1>7. Lifecycle!DeliveryRecovery(r, row, new)
  BY <1>0, <1>1, <1>2, <1>4 DEF RunRow, Latest, Lifecycle!DeliveryRecovery
<1> QED
  BY <1>4, <1>5, <1>6, <1>7 DEF new, RowUpdate, Lifecycle!Accepted

-----------------------------------------------------------------------------
(* From rows to the table                                                  *)

(* Rows that only take updates of the lifecycle keep the row invariant.    *)
LEMMA RowsInvPreserved ==
  ASSUME RowsInv, RowsUpdate
  PROVE  RowsInv'
BY DEF RowsInv, RowsUpdate, RowUpdate, RowInv

(* A transaction that updates one row updates every row as it may.         *)
LEMMA OneRowUpdate ==
  ASSUME RowsInv, NEW r \in Runs, NEW new, RowUpdate(r, jobRuns[r], new),
         jobRuns' = [jobRuns EXCEPT ![r] = new]
  PROVE  RowsUpdate
BY DEF RowsInv, RowsUpdate

(* So does a transaction that leaves the runs alone.                       *)
LEMMA NoRowUpdate ==
  ASSUME RowsInv, UNCHANGED jobRuns
  PROVE  RowsUpdate
BY DEF RowsInv, RowsUpdate

(* The instants of a transaction, and the ones the rows store from them.   *)
LEMMA StoredInstant ==
  ASSUME RowsInv, NEW r \in Runs, NEW at \in Nat
  PROVE  /\ RowInv(r, jobRuns[r])
         /\ jobRuns[r].updatedAt \in Nat
         /\ Latest(jobRuns[r].updatedAt, at) \in Nat
         /\ Latest(jobRuns[r].updatedAt, at) >= jobRuns[r].updatedAt
         /\ Latest(jobRuns[r].updatedAt, at) >= at
BY LatestNat DEF RowsInv, RowInv, RunRow

-----------------------------------------------------------------------------
(* Every action updates rows as the lemmas above say                       *)

(* EnqueueRun updates every row as it may.                                 *)
LEMMA EnqueueRunRows ==
  ASSUME RowsInv, NEW r \in Runs, NEW at \in Nat, EnqueueRun(r, at)
  PROVE  RowsUpdate
<1> DEFINE new == [jobRuns[r] EXCEPT !.state = "queued", !.availableAt = at, !.updatedAt = at]
<1>1. jobRuns' = [jobRuns EXCEPT ![r] = new]
  BY DEF EnqueueRun, RowsInv
<1>2. RowUpdate(r, jobRuns[r], new)
  BY EnqueuedRow, StoredInstant DEF EnqueueRun
<1> HIDE DEF new
<1> QED
  BY <1>1, <1>2, OneRowUpdate

(* CancelRun updates every row as it may.                                  *)
LEMMA CancelRunRows ==
  ASSUME RowsInv, NEW r \in Runs, NEW at \in Nat, CancelRun(r, at)
  PROVE  RowsUpdate
<1> DEFINE stored == Latest(jobRuns[r].updatedAt, at)
<1>1. /\ RowInv(r, jobRuns[r])
      /\ stored \in Nat
      /\ stored >= jobRuns[r].updatedAt
  BY StoredInstant
<1> HIDE DEF stored
<1>2. CASE /\ Queued(r)
           /\ CancellationPolicy[r] # "never"
           /\ jobRuns' = [jobRuns EXCEPT ![r] = CancelledInQueue(@, at)]
  <2>1. jobRuns' = [jobRuns EXCEPT ![r] = Dequeued(jobRuns[r], stored)]
    BY <1>2 DEF RowsInv, CancelledInQueue, Dequeued, stored
  <2>2. RowUpdate(r, jobRuns[r], Dequeued(jobRuns[r], stored))
    BY <1>1, <1>2, DequeuedRow DEF Queued
  <2> QED
    BY <2>1, <2>2, OneRowUpdate
<1>3. CASE /\ Running(r)
           /\ CancellationPolicy[r] = "cooperative"
           /\ jobRuns' = [jobRuns EXCEPT ![r].cancelRequested = TRUE,
                                         ![r].updatedAt = Latest(@, at)]
  <2> DEFINE new == [jobRuns[r] EXCEPT !.cancelRequested = TRUE, !.updatedAt = stored]
  <2>1. jobRuns' = [jobRuns EXCEPT ![r] = new]
    BY <1>3 DEF RowsInv, RunRow, stored
  <2>2. RowUpdate(r, jobRuns[r], new)
    BY <1>1, <1>3, CancelRequestedRow DEF Running
  <2> HIDE DEF new
  <2> QED
    BY <2>1, <2>2, OneRowUpdate
<1> QED
  BY <1>2, <1>3 DEF CancelRun

(* DisableSchedule updates every row as it may.                            *)
LEMMA DisableScheduleRows ==
  ASSUME RowsInv, NEW r \in Runs, NEW at \in Nat, DisableSchedule(r, at)
  PROVE  RowsUpdate
<1> DEFINE stored == Latest(jobRuns[r].updatedAt, at)
<1>1. RowUpdate(r, jobRuns[r], Dequeued(jobRuns[r], stored))
  BY StoredInstant, DequeuedRow DEF DisableSchedule, Queued
<1>2. jobRuns' = [jobRuns EXCEPT ![r] = Dequeued(jobRuns[r], stored)]
  BY DEF DisableSchedule, RowsInv, CancelledInQueue, Dequeued
<1> HIDE DEF stored
<1> QED
  BY <1>1, <1>2, OneRowUpdate

(* RetireSchedules updates every row as it may.                            *)
LEMMA RetireSchedulesRows ==
  ASSUME RowsInv, NEW retired \in SUBSET ScheduledRuns, NEW at \in Nat,
         RetireSchedules(retired, at)
  PROVE  RowsUpdate
<1>1. jobRuns' = [r \in Runs |-> jobRuns'[r]]
  BY DEF RetireSchedules
<1>2. ASSUME NEW r \in Runs
      PROVE  jobRuns'[r] = jobRuns[r] \/ RowUpdate(r, jobRuns[r], jobRuns'[r])
  <2> DEFINE stored == Latest(jobRuns[r].updatedAt, at)
  <2>1. /\ RowInv(r, jobRuns[r])
        /\ stored \in Nat
        /\ stored >= jobRuns[r].updatedAt
    BY <1>2, StoredInstant
  <2>2. \/ jobRuns'[r] = jobRuns[r]
        \/ /\ r \in retired
           /\ Queued(r)
           /\ jobRuns'[r] = IF CancellationPolicy[r] = "never"
                            THEN Finished(jobRuns[r], "failed", stored)
                            ELSE Dequeued(jobRuns[r], stored)
    BY <1>2 DEF RetireSchedules, CancelledInQueue, Dequeued
  <2> HIDE DEF stored
  <2>3. CASE r \in retired /\ Queued(r) /\ CancellationPolicy[r] = "never"
    BY <1>2, <2>1, <2>2, <2>3, FailedInQueueRow DEF Queued
  <2>4. CASE r \in retired /\ Queued(r) /\ CancellationPolicy[r] # "never"
    BY <1>2, <2>1, <2>2, <2>4, DequeuedRow DEF Queued
  <2> QED
    BY <2>2, <2>3, <2>4
<1> QED
  BY <1>1, <1>2 DEF RowsUpdate

(* RecoverDeliveryProductionTerminalRun updates every row as it may.       *)
LEMMA RecoverDeliveryRows ==
  ASSUME RowsInv, NEW r \in Runs, NEW at \in Nat,
         RecoverDeliveryProductionTerminalRun(r, at)
  PROVE  RowsUpdate
<1> DEFINE stored == Latest(jobRuns[r].updatedAt, at)
           limit == Latest(jobRuns[r].attemptLimit, jobRuns[r].attemptCount + 1)
           new == [jobRuns[r] EXCEPT !.state = "queued", !.attemptLimit = limit,
                                     !.cancelRequested = FALSE, !.availableAt = stored,
                                     !.updatedAt = stored]
<1>1. /\ RowInv(r, jobRuns[r])
      /\ stored \in Nat
      /\ stored >= jobRuns[r].updatedAt
  BY StoredInstant
<1>2. /\ r \in DeliveryRuns
      /\ jobRuns[r].state \in {"cancelled", "failed", "timed-out"}
      /\ limit <= AttemptMaximum
      /\ jobRuns' = [jobRuns EXCEPT ![r] = new]
  BY DEF RecoverDeliveryProductionTerminalRun, RecoveryLimit, RowsInv
<1>3. RowUpdate(r, jobRuns[r], new)
  <2> HIDE DEF stored
  <2> QED
    BY <1>1, <1>2, DeliveryRow
<1> HIDE DEF new
<1> QED
  BY <1>2, <1>3, OneRowUpdate

(* ClaimNextRun updates every row as it may.                               *)
LEMMA ClaimNextRunRows ==
  ASSUME RowsInv, NEW w \in Workers, NEW at \in Nat, ClaimNextRun(w, at)
  PROVE  RowsUpdate
<1>1. CASE UNCHANGED jobRuns
  BY <1>1, NoRowUpdate
<1>2. ASSUME NEW r \in NextClaims(w, at),
             jobRuns' = [jobRuns EXCEPT ![r] =
                           Claimed(jobRuns[r], w, Latest(jobRuns[r].updatedAt, at))]
      PROVE  RowsUpdate
  <2> DEFINE stored == Latest(jobRuns[r].updatedAt, at)
  <2>1. r \in Runs /\ Queued(r)
    BY <1>2, QueueConstants DEF NextClaims, Claimable
  <2>2. RowUpdate(r, jobRuns[r], Claimed(jobRuns[r], w, stored))
    BY <2>1, StoredInstant, ClaimedRow DEF Queued
  <2> QED
    BY <1>2, <2>1, <2>2, OneRowUpdate
<1> QED
  BY <1>1, <1>2 DEF ClaimNextRun

(* RenewClaim updates every row as it may.                                 *)
LEMMA RenewClaimRows ==
  ASSUME RowsInv, NEW r \in Runs, NEW w \in Workers, NEW token, NEW at \in Nat,
         RenewClaim(w, r, token, at)
  PROVE  RowsUpdate
<1> DEFINE stored == Latest(jobRuns[r].updatedAt, at)
           new == [jobRuns[r] EXCEPT !.updatedAt = stored,
                                     !.leaseExpiresAt = stored + LeaseDuration]
<1>1. jobRuns' = [jobRuns EXCEPT ![r] = new]
  BY DEF RenewClaim, RowsInv
<1>2. RowUpdate(r, jobRuns[r], new)
  BY StoredInstant, RenewedRow DEF RenewClaim, ClaimFence, Running
<1> HIDE DEF new
<1> QED
  BY <1>1, <1>2, OneRowUpdate

(* AppendClaimEvent updates every row as it may.                           *)
LEMMA AppendClaimEventRows ==
  ASSUME RowsInv, NEW r \in Runs, NEW w \in Workers, NEW token, NEW at \in Nat,
         AppendClaimEvent(w, r, token, at)
  PROVE  RowsUpdate
<1> DEFINE stored == Latest(jobRuns[r].updatedAt, at)
           new == [jobRuns[r] EXCEPT !.updatedAt = stored]
<1>1. jobRuns' = [jobRuns EXCEPT ![r] = new]
  BY DEF AppendClaimEvent, RowsInv
<1>2. RowUpdate(r, jobRuns[r], new)
  BY StoredInstant, AppendedRow DEF AppendClaimEvent, ClaimFence, Running
<1> HIDE DEF new
<1> QED
  BY <1>1, <1>2, OneRowUpdate

(* SettleClaim updates every row as it may.                                *)
LEMMA SettleClaimRows ==
  ASSUME RowsInv, NEW r \in Runs, NEW w \in Workers, NEW token, NEW at \in Nat,
         NEW requested \in TerminalStates, NEW retryable \in BOOLEAN,
         SettleClaim(w, r, token, at, requested, retryable)
  PROVE  RowsUpdate
<1> DEFINE stored == Latest(jobRuns[r].updatedAt, at)
           outcome == EffectiveOutcome(r, requested)
           retryAt == Latest(stored, at + RetryDelay[jobRuns[r].attemptCount])
<1>1. /\ RowInv(r, jobRuns[r])
      /\ Running(r)
      /\ stored \in Nat
      /\ stored >= jobRuns[r].updatedAt
  BY StoredInstant DEF SettleClaim, ClaimFence
<1>2. /\ jobRuns' = [jobRuns EXCEPT ![r] =
                       IF MayRetry(r, outcome, retryable)
                       THEN Requeued(jobRuns[r], stored, retryAt)
                       ELSE Finished(jobRuns[r], outcome, stored)]
      /\ requested = "cancelled" => jobRuns[r].cancelRequested
  BY DEF SettleClaim, RowsInv
<1>3. CASE MayRetry(r, outcome, retryable)
  <2>1. jobRuns[r].attemptCount \in 1..AttemptMaximum
    BY <1>1, <1>3, QueueConstants, SMTT(30) DEF MayRetry, RowInv, RunRow, Running
  <2>2. at + RetryDelay[jobRuns[r].attemptCount] \in Nat
    BY <2>1, QueueConstants, SMTT(30)
  <2>3. retryAt \in Nat
    BY <1>1, <2>2, LatestNat
  <2>4. /\ RetrySafe[r]
        /\ ~jobRuns[r].cancelRequested
        /\ jobRuns[r].attemptCount < jobRuns[r].attemptLimit
    BY <1>3 DEF MayRetry, EffectiveOutcome
  <2> HIDE DEF stored, retryAt, outcome
  <2>5. RowUpdate(r, jobRuns[r], Requeued(jobRuns[r], stored, retryAt))
    BY <1>1, <2>3, <2>4, RequeuedRow DEF Running
  <2> QED
    BY <1>2, <1>3, <2>5, OneRowUpdate
<1>4. CASE ~MayRetry(r, outcome, retryable)
  <2>1. outcome \in TerminalStates
    BY DEF EffectiveOutcome, TerminalStates
  <2>2. outcome = "cancelled" => jobRuns[r].cancelRequested
    BY <1>2 DEF EffectiveOutcome
  <2> HIDE DEF stored, retryAt, outcome
  <2>3. RowUpdate(r, jobRuns[r], Finished(jobRuns[r], outcome, stored))
    BY <1>1, <2>1, <2>2, FinishedRow DEF Running
  <2> QED
    BY <1>2, <1>4, <2>3, OneRowUpdate
<1> QED
  BY <1>3, <1>4

(* RecoverExpiredClaims updates every row as it may.                       *)
LEMMA RecoverExpiredClaimsRows ==
  ASSUME RowsInv, NEW scope \in SUBSET Runs, NEW at \in Nat,
         NEW delay \in [1..AttemptMaximum -> Nat],
         RecoverExpiredClaims(scope, delay, at)
  PROVE  RowsUpdate
<1>1. jobRuns' = [r \in Runs |-> jobRuns'[r]]
  BY DEF RecoverExpiredClaims
<1>2. ASSUME NEW r \in Runs
      PROVE  jobRuns'[r] = jobRuns[r] \/ RowUpdate(r, jobRuns[r], jobRuns'[r])
  <2> DEFINE stored == Latest(jobRuns[r].updatedAt, at)
             retryAt == Latest(stored, at + delay[jobRuns[r].attemptCount])
  <2>1. /\ RowInv(r, jobRuns[r])
        /\ stored \in Nat
        /\ stored >= jobRuns[r].updatedAt
    BY <1>2, StoredInstant
  <2>2. jobRuns'[r] = jobRuns[r] \/ (Running(r) /\ jobRuns'[r] = Recovered(r, at, delay))
    BY <1>2 DEF RecoverExpiredClaims, Expired
  <2>3. CASE jobRuns[r].cancelRequested
    <3>1. Recovered(r, at, delay) = Finished(jobRuns[r], "cancelled", stored)
      BY <2>3 DEF Recovered
    <3> HIDE DEF stored
    <3> QED
      BY <1>2, <2>1, <2>2, <2>3, <3>1, FinishedRow DEF Running, TerminalStates
  <2>4. CASE /\ ~jobRuns[r].cancelRequested
             /\ RetrySafe[r] /\ jobRuns[r].attemptCount < jobRuns[r].attemptLimit
             /\ Running(r)
    <3>1. Recovered(r, at, delay) = Requeued(jobRuns[r], stored, retryAt)
      BY <2>4 DEF Recovered
    <3>2. jobRuns[r].attemptCount \in 1..AttemptMaximum
      <4>1. jobRuns[r].attemptCount \in Nat /\ jobRuns[r].attemptCount > 0
        BY <2>1, <2>4 DEF RowInv, RunRow, Running
      <4>2. /\ jobRuns[r].attemptLimit \in 1..AttemptMaximum
            /\ jobRuns[r].attemptCount <= jobRuns[r].attemptLimit
        BY <2>1 DEF RowInv
      <4>3. AttemptMaximum \in Nat
        BY QueueConstants
      <4> QED
        BY <4>1, <4>2, <4>3
    <3>3. at + delay[jobRuns[r].attemptCount] \in Nat
      BY <3>2
    <3>4. retryAt \in Nat
      BY <2>1, <3>3, LatestNat
    <3> HIDE DEF stored, retryAt
    <3> QED
      BY <1>2, <2>1, <2>2, <2>4, <3>1, <3>4, RequeuedRow DEF Running
  <2>5. CASE /\ ~jobRuns[r].cancelRequested
             /\ ~(RetrySafe[r] /\ jobRuns[r].attemptCount < jobRuns[r].attemptLimit)
    <3>1. Recovered(r, at, delay) = Finished(jobRuns[r], "failed", stored)
      BY <2>5 DEF Recovered
    <3> HIDE DEF stored
    <3> QED
      BY <1>2, <2>1, <2>2, <3>1, FinishedRow DEF Running, TerminalStates
  <2> QED
    BY <2>2, <2>3, <2>4, <2>5
<1> QED
  BY <1>1, <1>2 DEF RowsUpdate

-----------------------------------------------------------------------------
(* The step: what every action does to the rows                            *)

(* The instants of a transaction are natural numbers.                      *)
LEMMA InstantsNat ==
  ASSUME now \in Nat
  PROVE  Instants \subseteq Nat
BY DEF Instants

(* Every step of the queue updates every row as it may.                    *)
LEMMA StepUpdatesRows ==
  ASSUME RowsInv, now \in Nat, [Next]_vars
  PROVE  RowsUpdate
<1>1. ASSUME NEW at \in Instants, NEW r \in Runs, RunStep(r, at)
      PROVE  RowsUpdate
  <2>1. at \in Nat
    BY <1>1, InstantsNat
  <2>2. NoDelay \in [1..AttemptMaximum -> Nat]
    BY DEF NoDelay
  <2>3. CASE EnqueueRun(r, at)
    BY <1>1, <2>1, <2>3, EnqueueRunRows
  <2>4. CASE CancelRun(r, at)
    BY <1>1, <2>1, <2>4, CancelRunRows
  <2>5. CASE DisableSchedule(r, at)
    BY <1>1, <2>1, <2>5, DisableScheduleRows
  <2>6. CASE RecoverDeliveryProductionTerminalRun(r, at)
    BY <1>1, <2>1, <2>6, RecoverDeliveryRows
  <2>7. CASE RecoverExpiredClaims({r}, NoDelay, at)
    BY <1>1, <2>1, <2>2, <2>7, RecoverExpiredClaimsRows
  <2> QED
    BY <1>1, <2>3, <2>4, <2>5, <2>6, <2>7 DEF RunStep
<1>2. ASSUME NEW at \in Instants, NEW w \in Workers, WorkerStep(w, at)
      PROVE  RowsUpdate
  <2>1. CASE ClaimNextRun(w, at)
    BY <1>2, <2>1, InstantsNat, ClaimNextRunRows
  <2>2. CASE \/ RegisterWorker(w, at)
             \/ HeartbeatWorker(w, at)
             \/ BeginWorkerDrain(w, at)
             \/ StopWorker(w, at)
    BY <2>2, NoRowUpdate
       DEF RegisterWorker, HeartbeatWorker, BeginWorkerDrain, StopWorker
  <2> QED
    BY <1>2, <2>1, <2>2 DEF WorkerStep
<1>3. ASSUME NEW at \in Instants, NEW w \in Workers, NEW r \in Runs,
             NEW token \in 1..AttemptMaximum, ClaimHolderStep(w, r, token, at)
      PROVE  RowsUpdate
  <2>1. at \in Nat
    BY <1>3, InstantsNat
  <2>2. CASE RenewClaim(w, r, token, at)
    BY <1>3, <2>1, <2>2, RenewClaimRows
  <2>3. CASE AppendClaimEvent(w, r, token, at)
    BY <1>3, <2>1, <2>3, AppendClaimEventRows
  <2>4. ASSUME NEW requested \in TerminalStates, NEW retryable \in BOOLEAN,
               SettleClaim(w, r, token, at, requested, retryable)
        PROVE  RowsUpdate
    BY <1>3, <2>1, <2>4, SettleClaimRows
  <2>5. CASE ArmHostRestartClaimFence(w, r, token, at)
    BY <2>5, NoRowUpdate DEF ArmHostRestartClaimFence
  <2>6. CASE ClearHostRestartClaimFence(w, r, token)
    BY <2>6, NoRowUpdate DEF ClearHostRestartClaimFence
  <2> QED
    BY <1>3, <2>2, <2>3, <2>4, <2>5, <2>6 DEF ClaimHolderStep
<1>4. ASSUME NEW at \in Instants, NEW retired \in SUBSET ScheduledRuns,
             RetireSchedules(retired, at)
      PROVE  RowsUpdate
  BY <1>4, InstantsNat, RetireSchedulesRows
<1>5. ASSUME NEW at \in Instants, RecoverExpiredClaims(Runs, RetryDelay, at)
      PROVE  RowsUpdate
  BY <1>5, InstantsNat, RecoverExpiredClaimsRows, QueueConstants
<1>6. CASE SetClaimingPaused \/ Tick \/ HostRestart \/ UNCHANGED vars
  BY <1>6, NoRowUpdate DEF SetClaimingPaused, Tick, HostRestart, vars
<1> QED
  BY <1>1, <1>2, <1>3, <1>4, <1>5, <1>6 DEF Next

-----------------------------------------------------------------------------
(* The types of the other tables                                           *)

(* Every step keeps the type of the resource leases.                       *)
LEMMA LeaseRowTypes ==
  ASSUME TypeOK, RowsInv, RowsInv', NEW at \in Nat,
         \/ \E w \in Workers : ClaimNextRun(w, at)
         \/ \E w \in Workers, r \in Runs, token \in Nat : RenewClaim(w, r, token, at)
         \/ UNCHANGED resourceLeases
         \/ resourceLeases' \subseteq resourceLeases
  PROVE  resourceLeases' \subseteq LeaseRow
<1>1. ASSUME NEW w \in Workers, ClaimNextRun(w, at)
      PROVE  resourceLeases' \subseteq LeaseRow
  <2>1. CASE UNCHANGED resourceLeases
    BY <2>1 DEF TypeOK
  <2>2. ASSUME NEW r \in NextClaims(w, at), NEW row,
               row = Claimed(jobRuns[r], w, Latest(jobRuns[r].updatedAt, at)),
               jobRuns' = [jobRuns EXCEPT ![r] = row],
               resourceLeases' = resourceLeases \cup LeasesOf(r, w, row)
        PROVE  resourceLeases' \subseteq LeaseRow
    <3>1. r \in Runs
      BY <2>2, QueueConstants DEF NextClaims, Claimable
    <3>2. jobRuns'[r] = row /\ row \in RunRow
      BY <2>2, <3>1 DEF RowsInv
    <3>3. ResourceKeys[r] \subseteq Resources
      BY <3>1, QueueConstants
    <3>4. LeasesOf(r, w, row) \subseteq LeaseRow
      BY <1>1, <3>1, <3>2, <3>3 DEF LeasesOf, LeaseRow, RunRow
    <3> QED
      BY <2>2, <3>4 DEF TypeOK
  <2> QED
    BY <1>1, <2>1, <2>2 DEF ClaimNextRun
<1>2. ASSUME NEW w \in Workers, NEW r \in Runs, NEW token \in Nat,
             RenewClaim(w, r, token, at)
      PROVE  resourceLeases' \subseteq LeaseRow
  <2> DEFINE expiresAt == Latest(jobRuns[r].updatedAt, at) + LeaseDuration
  <2>1. expiresAt \in Nat
    <3>1. Latest(jobRuns[r].updatedAt, at) \in Nat
      BY StoredInstant
    <3>2. LeaseDuration \in Nat
      BY QueueConstants
    <3> QED
      BY <3>1, <3>2
  <2>2. resourceLeases' = {IF lease \in HeldBy(r)
                           THEN [lease EXCEPT !.expiresAt = expiresAt]
                           ELSE lease : lease \in resourceLeases}
    BY <1>2 DEF RenewClaim
  <2> HIDE DEF expiresAt
  <2>3. ASSUME NEW lease \in LeaseRow
        PROVE  [lease EXCEPT !.expiresAt = expiresAt] \in LeaseRow
    BY <2>1 DEF LeaseRow
  <2> QED
    BY <2>2, <2>3 DEF TypeOK
<1> QED
  BY <1>1, <1>2 DEF TypeOK

(* Every step keeps the type of the worker rows.                           *)
LEMMA WorkerRowTypes ==
  ASSUME TypeOK, NEW at \in Nat, NEW w \in Workers,
         \/ RegisterWorker(w, at)
         \/ HeartbeatWorker(w, at)
         \/ BeginWorkerDrain(w, at)
         \/ StopWorker(w, at)
  PROVE  workerInstances' \in [Workers -> WorkerRow]
<1>1. /\ workerInstances[w].heartbeatAt \in Nat
      /\ Latest(workerInstances[w].heartbeatAt, at) \in Nat
  BY LatestNat DEF TypeOK, WorkerRow
<1> QED
  BY <1>1 DEF TypeOK, WorkerRow, RegisterWorker, HeartbeatWorker, BeginWorkerDrain, StopWorker

(* Every step keeps the type of the fence row.                             *)
LEMMA FenceRowTypes ==
  ASSUME TypeOK, NEW at \in Nat, NEW w \in Workers, NEW r \in Runs, NEW token \in Nat,
         ArmHostRestartClaimFence(w, r, token, at)
  PROVE  hostRestartClaimFence' \in FenceRow \cup {NoFence}
<1>1. at + FenceDuration \in Nat
  BY QueueConstants
<1> QED
  BY <1>1 DEF TypeOK, FenceRow, ArmHostRestartClaimFence

-----------------------------------------------------------------------------
IInv == TypeOK /\ RowsInv

(* The invariant holds at the start.                                       *)
LEMMA InitIInv ==
  ASSUME Init
  PROVE  IInv
<1>1. ASSUME NEW r \in Runs
      PROVE  AbsentRow(r) \in RunRow /\ RowInv(r, AbsentRow(r))
  BY <1>1, QueueConstants DEF AbsentRow, RowInv, RunRow, RunStates
<1>2. RowsInv
  BY <1>1 DEF Init, RowsInv
<1>3. TypeOK
  BY <1>2 DEF Init, TypeOK, RowsInv, WorkerRow
<1> QED
  BY <1>2, <1>3 DEF IInv

(* Every step preserves the invariant.                                     *)
LEMMA NextIInv ==
  ASSUME IInv, [Next]_vars
  PROVE  IInv'
<1>1. /\ TypeOK
      /\ RowsInv
      /\ RowsInv'
      /\ now \in Nat
      /\ bootIdentity \in Nat
  BY StepUpdatesRows, RowsInvPreserved DEF IInv, TypeOK
<1>2. jobRuns' \in [Runs -> RunRow]
  BY <1>1 DEF RowsInv
<1> SUFFICES TypeOK'
  BY <1>1 DEF IInv
<1>3. ASSUME NEW at \in Instants, NEW r \in Runs, RunStep(r, at)
      PROVE  TypeOK'
  <2>1. /\ resourceLeases' \subseteq resourceLeases
        /\ UNCHANGED <<workerInstances, claimingPaused, hostRestartClaimFence,
                       bootIdentity, now>>
    BY <1>3 DEF RunStep, EnqueueRun, CancelRun, DisableSchedule,
                RecoverDeliveryProductionTerminalRun, RecoverExpiredClaims
  <2> QED
    BY <1>1, <1>2, <2>1 DEF TypeOK
<1>4. ASSUME NEW at \in Instants, NEW w \in Workers, WorkerStep(w, at)
      PROVE  TypeOK'
  <2>1. at \in Nat
    BY <1>1, <1>4, InstantsNat
  <2>2. CASE ClaimNextRun(w, at)
    <3>1. resourceLeases' \subseteq LeaseRow
      BY <1>1, <1>4, <2>1, <2>2, LeaseRowTypes
    <3>2. hostRestartClaimFence' = NoFence /\ UNCHANGED <<workerInstances, claimingPaused,
                                                         bootIdentity, now>>
      BY <2>2 DEF ClaimNextRun
    <3> QED
      BY <1>1, <1>2, <3>1, <3>2 DEF TypeOK
  <2>3. CASE \/ RegisterWorker(w, at)
             \/ HeartbeatWorker(w, at)
             \/ BeginWorkerDrain(w, at)
             \/ StopWorker(w, at)
    <3>1. workerInstances' \in [Workers -> WorkerRow]
      BY <1>1, <1>4, <2>1, <2>3, WorkerRowTypes
    <3>2. UNCHANGED <<jobRuns, resourceLeases, claimingPaused, hostRestartClaimFence,
                      bootIdentity, now>>
      BY <2>3 DEF RegisterWorker, HeartbeatWorker, BeginWorkerDrain, StopWorker
    <3> QED
      BY <1>1, <1>2, <3>1, <3>2 DEF TypeOK
  <2> QED
    BY <1>4, <2>2, <2>3 DEF WorkerStep
<1>5. ASSUME NEW at \in Instants, NEW w \in Workers, NEW r \in Runs,
             NEW token \in 1..AttemptMaximum, ClaimHolderStep(w, r, token, at)
      PROVE  TypeOK'
  <2>1. at \in Nat /\ token \in Nat
    BY <1>1, <1>5, InstantsNat, QueueConstants
  <2>2. CASE RenewClaim(w, r, token, at)
    <3>1. resourceLeases' \subseteq LeaseRow
      BY <1>1, <1>5, <2>1, <2>2, LeaseRowTypes
    <3> QED
      BY <1>1, <1>2, <2>2, <3>1 DEF TypeOK, RenewClaim
  <2>3. CASE \/ AppendClaimEvent(w, r, token, at)
             \/ \E requested \in TerminalStates, retryable \in BOOLEAN :
                  SettleClaim(w, r, token, at, requested, retryable)
    <3>1. /\ resourceLeases' \subseteq resourceLeases
          /\ UNCHANGED <<workerInstances, claimingPaused, hostRestartClaimFence,
                         bootIdentity, now>>
      BY <2>3 DEF AppendClaimEvent, SettleClaim
    <3> QED
      BY <1>1, <1>2, <3>1 DEF TypeOK
  <2>4. CASE ArmHostRestartClaimFence(w, r, token, at)
    <3>1. hostRestartClaimFence' \in FenceRow \cup {NoFence}
      BY <1>1, <1>5, <2>1, <2>4, FenceRowTypes
    <3> QED
      BY <1>1, <1>2, <2>4, <3>1 DEF TypeOK, ArmHostRestartClaimFence
  <2>5. CASE ClearHostRestartClaimFence(w, r, token)
    BY <1>1, <1>2, <2>5 DEF TypeOK, ClearHostRestartClaimFence
  <2> QED
    BY <1>5, <2>2, <2>3, <2>4, <2>5 DEF ClaimHolderStep
<1>6. ASSUME NEW at \in Instants,
             \/ \E retired \in SUBSET ScheduledRuns : RetireSchedules(retired, at)
             \/ RecoverExpiredClaims(Runs, RetryDelay, at)
      PROVE  TypeOK'
  <2>1. /\ resourceLeases' \subseteq resourceLeases
        /\ UNCHANGED <<workerInstances, claimingPaused, hostRestartClaimFence,
                       bootIdentity, now>>
    BY <1>6 DEF RetireSchedules, RecoverExpiredClaims
  <2> QED
    BY <1>1, <1>2, <2>1 DEF TypeOK
<1>7. CASE SetClaimingPaused
  <2>1. /\ claimingPaused' \in BOOLEAN
        /\ UNCHANGED <<jobRuns, resourceLeases, workerInstances, hostRestartClaimFence,
                       bootIdentity, now>>
    BY <1>7 DEF SetClaimingPaused
  <2> QED
    BY <1>1, <2>1 DEF TypeOK
<1>8. CASE Tick
  BY <1>1, <1>8 DEF TypeOK, Tick
<1>9. CASE HostRestart
  BY <1>1, <1>9 DEF TypeOK, HostRestart
<1>10. CASE UNCHANGED vars
  BY <1>1, <1>10 DEF TypeOK, vars
<1> QED
  BY <1>3, <1>4, <1>5, <1>6, <1>7, <1>8, <1>9, <1>10 DEF Next

(* The inductive invariant of the rows holds throughout.                   *)
THEOREM Invariance == Spec => []IInv
<1>1. Init => IInv
  BY InitIInv
<1>2. IInv /\ [Next]_vars => IInv'
  BY NextIInv
<1> QED
  BY <1>1, <1>2, PTL DEF Spec

-----------------------------------------------------------------------------
(* What the project states about the queue                                 *)

(* Every row of every table keeps its type.                                *)
THEOREM TypeCorrect == Spec => []TypeOK
<1>1. IInv => TypeOK
  BY DEF IInv
<1> QED
  BY <1>1, Invariance, PTL

(* No run is claimed more often than its attempt limit allows, and a run   *)
(* that is not retry-safe at most once, although claimNextRun looks at     *)
(* neither.                                                                *)
THEOREM AttemptsBounded == Spec => []AttemptBudget
<1>1. IInv => AttemptBudget
  <2> SUFFICES ASSUME IInv, NEW r \in Runs
               PROVE  /\ jobRuns[r].attemptCount <= jobRuns[r].attemptLimit
                      /\ jobRuns[r].attemptLimit <= AttemptMaximum
                      /\ Queued(r) => jobRuns[r].attemptCount < jobRuns[r].attemptLimit
                      /\ ~RetrySafe[r] => jobRuns[r].attemptCount <= 1
                      /\ Queued(r) /\ ~RetrySafe[r] => jobRuns[r].attemptCount = 0
    BY DEF AttemptBudget
  <2>1. RowInv(r, jobRuns[r])
    BY DEF IInv, RowsInv
  <2>2. AttemptMaximum \in Nat
    BY QueueConstants
  <2> QED
    BY <2>1, <2>2 DEF RowInv, Queued
<1> QED
  BY <1>1, Invariance, PTL

(* No transaction of the repository is ever aborted by the constraints and *)
(* triggers of the job_runs table.                                         *)
THEOREM QueueImplementsLifecycle == Spec => ImplementsLifecycle
<1>1. Init => Lifecycle!LifecycleInit
  BY DEF Init, AbsentRow, Lifecycle!LifecycleInit
<1>2. IInv /\ [Next]_vars => [Lifecycle!LifecycleNext]_jobRuns
  <2> SUFFICES ASSUME IInv, [Next]_vars
               PROVE  Lifecycle!LifecycleNext
    OBVIOUS
  <2>1. RowsUpdate
    BY StepUpdatesRows DEF IInv, TypeOK
  <2> QED
    BY <2>1 DEF RowsUpdate, RowUpdate, Lifecycle!LifecycleNext
<1> QED
  BY <1>1, <1>2, Invariance, PTL DEF Spec, ImplementsLifecycle, Lifecycle!LifecycleSpec

-----------------------------------------------------------------------------
(* The host restart fence                                                  *)

(* What every transaction but a claim does to the claim of run r: the run  *)
(* runs on under the same owner and token with a lease that ends no        *)
(* earlier, or it ends; and a stored cancellation request is honoured.     *)
KeepsClaim(r) ==
  /\ jobRuns'[r].state = "running" =>
       /\ Running(r)
       /\ jobRuns'[r].leaseOwner = jobRuns[r].leaseOwner
       /\ jobRuns'[r].leaseToken = jobRuns[r].leaseToken
       /\ jobRuns'[r].leaseExpiresAt >= jobRuns[r].leaseExpiresAt
  /\ Running(r) /\ jobRuns[r].cancelRequested =>
       /\ jobRuns'[r].state \in {"running", "cancelled", "succeeded"}
       /\ jobRuns'[r].cancelRequested

KeepsClaims == \A r \in Runs : KeepsClaim(r)

(* A row that is not written keeps its claim.                              *)
LEMMA UnwrittenClaim ==
  ASSUME RowsInv, NEW r \in Runs, jobRuns'[r] = jobRuns[r]
  PROVE  KeepsClaim(r)
BY DEF RowsInv, RunRow, KeepsClaim, Running

(* So does every row when a transaction writes one that keeps its claim.   *)
LEMMA OneClaimKept ==
  ASSUME RowsInv, NEW r \in Runs, NEW new, jobRuns' = [jobRuns EXCEPT ![r] = new],
         KeepsClaim(r)
  PROVE  KeepsClaims
<1> SUFFICES ASSUME NEW q \in Runs \ {r}
             PROVE  KeepsClaim(q)
  BY DEF KeepsClaims
<1>1. jobRuns'[q] = jobRuns[q]
  BY DEF RowsInv
<1> QED
  BY <1>1, UnwrittenClaim

(* A run that was not running, and is not afterwards, keeps its claim.     *)
LEMMA NoClaimThere ==
  ASSUME NEW r \in Runs, ~Running(r), jobRuns'[r].state # "running"
  PROVE  KeepsClaim(r)
BY DEF KeepsClaim

(* Recovery ends a claim and honours a stored request.                     *)
LEMMA RecoveredClaim ==
  ASSUME RowsInv, NEW r \in Runs, NEW at, NEW delay, jobRuns'[r] = Recovered(r, at, delay)
  PROVE  KeepsClaim(r) /\ jobRuns'[r].state # "running"
<1>1. jobRuns[r] \in RunRow
  BY DEF RowsInv
<1>2. CASE jobRuns[r].cancelRequested
  BY <1>1, <1>2 DEF Recovered, Finished, Unleased, RunRow, KeepsClaim
<1>3. CASE ~jobRuns[r].cancelRequested
  BY <1>1, <1>3 DEF Recovered, Requeued, Finished, Unleased, RunRow, KeepsClaim
<1> QED
  BY <1>2, <1>3

(* RecoverExpiredClaims keeps or ends every claim.                         *)
LEMMA RecoverExpiredClaimsKeeps ==
  ASSUME RowsInv, NEW scope \in SUBSET Runs, NEW at, NEW delay,
         RecoverExpiredClaims(scope, delay, at)
  PROVE  KeepsClaims
<1> SUFFICES ASSUME NEW r \in Runs
             PROVE  KeepsClaim(r)
  BY DEF KeepsClaims
<1>1. jobRuns'[r] = jobRuns[r] \/ jobRuns'[r] = Recovered(r, at, delay)
  BY DEF RecoverExpiredClaims
<1> QED
  BY <1>1, UnwrittenClaim, RecoveredClaim

(* The steps of a claim holder keep or end every claim.                    *)
LEMMA ClaimHolderKeeps ==
  ASSUME RowsInv, NEW at \in Nat, NEW w \in Workers, NEW r \in Runs, NEW token,
         ClaimHolderStep(w, r, token, at)
  PROVE  KeepsClaims
<1>1. jobRuns[r] \in RunRow
  BY DEF RowsInv
<1>2. CASE RenewClaim(w, r, token, at)
  <2> DEFINE stored == Latest(jobRuns[r].updatedAt, at)
             new == [jobRuns[r] EXCEPT !.updatedAt = stored,
                                       !.leaseExpiresAt = stored + LeaseDuration]
  <2>1. stored + LeaseDuration \in Nat /\ stored + LeaseDuration > jobRuns[r].leaseExpiresAt
    <3>1. stored \in Nat /\ LeaseDuration \in Nat
      BY StoredInstant, QueueConstants
    <3> QED
      BY <1>2, <3>1 DEF RenewClaim
  <2>2. jobRuns' = [jobRuns EXCEPT ![r] = new] /\ Running(r)
    BY <1>2 DEF RenewClaim, ClaimFence, RowsInv
  <2> HIDE DEF stored
  <2>3. jobRuns'[r] = new
    BY <2>2 DEF RowsInv
  <2>4. KeepsClaim(r)
    BY <1>1, <2>1, <2>2, <2>3 DEF RunRow, KeepsClaim, Running
  <2> HIDE DEF new
  <2> QED
    BY <2>2, <2>4, OneClaimKept
<1>3. CASE AppendClaimEvent(w, r, token, at)
  <2> DEFINE new == [jobRuns[r] EXCEPT !.updatedAt = Latest(jobRuns[r].updatedAt, at)]
  <2>1. jobRuns' = [jobRuns EXCEPT ![r] = new] /\ Running(r)
    BY <1>3 DEF AppendClaimEvent, ClaimFence, RowsInv
  <2>2. jobRuns'[r] = new
    BY <2>1 DEF RowsInv
  <2>3. KeepsClaim(r)
    BY <1>1, <2>1, <2>2 DEF RunRow, KeepsClaim, Running
  <2> HIDE DEF new
  <2> QED
    BY <2>1, <2>3, OneClaimKept
<1>4. ASSUME NEW requested \in TerminalStates, NEW retryable \in BOOLEAN,
             SettleClaim(w, r, token, at, requested, retryable)
      PROVE  KeepsClaims
  <2> DEFINE outcome == EffectiveOutcome(r, requested)
             stored == Latest(jobRuns[r].updatedAt, at)
             retryAt == Latest(stored, at + RetryDelay[jobRuns[r].attemptCount])
             new == IF MayRetry(r, outcome, retryable)
                    THEN Requeued(jobRuns[r], stored, retryAt)
                    ELSE Finished(jobRuns[r], outcome, stored)
  <2>1. jobRuns' = [jobRuns EXCEPT ![r] = new]
    BY <1>4 DEF SettleClaim, RowsInv
  <2>2. jobRuns'[r] = new
    BY <2>1 DEF RowsInv
  <2>3. /\ outcome \in TerminalStates
        /\ jobRuns[r].cancelRequested => outcome \in {"cancelled", "succeeded"}
    BY DEF EffectiveOutcome, TerminalStates
  <2> HIDE DEF outcome, stored, retryAt
  <2>4. KeepsClaim(r)
    BY <1>1, <2>2, <2>3
       DEF MayRetry, Requeued, Finished, Unleased, RunRow, KeepsClaim, TerminalStates
  <2> HIDE DEF new
  <2> QED
    BY <2>1, <2>4, OneClaimKept
<1>5. CASE ArmHostRestartClaimFence(w, r, token, at) \/ ClearHostRestartClaimFence(w, r, token)
  BY <1>5, UnwrittenClaim
     DEF ArmHostRestartClaimFence, ClearHostRestartClaimFence, KeepsClaims
<1> QED
  BY <1>2, <1>3, <1>4, <1>5 DEF ClaimHolderStep

(* The steps on a run outside its claim keep or end every claim.           *)
LEMMA RunStepKeeps ==
  ASSUME RowsInv, NEW at \in Nat, NEW r \in Runs, RunStep(r, at)
  PROVE  KeepsClaims
<1>1. jobRuns[r] \in RunRow
  BY DEF RowsInv
<1>2. CASE EnqueueRun(r, at)
  <2> DEFINE new == [jobRuns[r] EXCEPT !.state = "queued", !.availableAt = at,
                                       !.updatedAt = at]
  <2>1. jobRuns' = [jobRuns EXCEPT ![r] = new] /\ ~Running(r)
    BY <1>2 DEF EnqueueRun, RowsInv, Running
  <2>2. jobRuns'[r].state # "running"
    BY <1>1, <2>1 DEF RunRow, RowsInv
  <2> HIDE DEF new
  <2> QED
    BY <2>1, <2>2, NoClaimThere, OneClaimKept
<1>3. CASE (CancelRun(r, at) /\ Queued(r)) \/ DisableSchedule(r, at)
  <2>1. jobRuns' = [jobRuns EXCEPT ![r] = CancelledInQueue(jobRuns[r], at)] /\ ~Running(r)
    BY <1>3 DEF CancelRun, DisableSchedule, RowsInv, Queued, Running
  <2>2. jobRuns'[r].state # "running"
    BY <1>1, <2>1 DEF RunRow, RowsInv, CancelledInQueue, Finished, Unleased
  <2> QED
    BY <2>1, <2>2, NoClaimThere, OneClaimKept
<1>4. CASE CancelRun(r, at) /\ ~Queued(r)
  <2> DEFINE new == [jobRuns[r] EXCEPT !.cancelRequested = TRUE,
                                       !.updatedAt = Latest(jobRuns[r].updatedAt, at)]
  <2>1. jobRuns' = [jobRuns EXCEPT ![r] = new] /\ Running(r)
    BY <1>4 DEF CancelRun, RowsInv
  <2>2. jobRuns'[r] = new
    BY <2>1 DEF RowsInv
  <2>3. KeepsClaim(r)
    BY <1>1, <2>1, <2>2 DEF RunRow, KeepsClaim, Running
  <2> HIDE DEF new
  <2> QED
    BY <2>1, <2>3, OneClaimKept
<1>5. CASE RecoverDeliveryProductionTerminalRun(r, at)
  <2> DEFINE stored == Latest(jobRuns[r].updatedAt, at)
             new == [jobRuns[r] EXCEPT !.state = "queued", !.attemptLimit = RecoveryLimit(r),
                                       !.cancelRequested = FALSE, !.availableAt = stored,
                                       !.updatedAt = stored]
  <2>1. jobRuns' = [jobRuns EXCEPT ![r] = new] /\ ~Running(r)
    BY <1>5 DEF RecoverDeliveryProductionTerminalRun, RowsInv, Running
  <2>2. jobRuns'[r].state # "running"
    BY <1>1, <2>1 DEF RunRow, RowsInv
  <2> HIDE DEF new
  <2> QED
    BY <2>1, <2>2, NoClaimThere, OneClaimKept
<1>6. CASE RecoverExpiredClaims({r}, NoDelay, at)
  BY <1>6, RecoverExpiredClaimsKeeps
<1> QED
  BY <1>2, <1>3, <1>4, <1>5, <1>6 DEF RunStep

(* Nothing but a claim starts a run or changes the holder of one.          *)
LEMMA OnlyClaimsStartRuns ==
  ASSUME RowsInv, now \in Nat, [Next]_vars
  PROVE  KeepsClaims \/ \E at \in Instants, w \in Workers : ClaimNextRun(w, at)
<1>1. Instants \subseteq Nat
  BY InstantsNat
<1>2. ASSUME UNCHANGED jobRuns
      PROVE  KeepsClaims
  BY <1>2, UnwrittenClaim DEF KeepsClaims
<1>3. ASSUME NEW at \in Instants, NEW w \in Workers, WorkerStep(w, at), ~ClaimNextRun(w, at)
      PROVE  UNCHANGED jobRuns
  BY <1>3 DEF WorkerStep, RegisterWorker, HeartbeatWorker, BeginWorkerDrain, StopWorker
<1>4. ASSUME NEW at \in Instants, NEW retired \in SUBSET ScheduledRuns,
             RetireSchedules(retired, at)
      PROVE  KeepsClaims
  <2> SUFFICES ASSUME NEW r \in Runs
               PROVE  KeepsClaim(r)
    BY DEF KeepsClaims
  <2>1. jobRuns[r] \in RunRow
    BY DEF RowsInv
  <2>2. CASE r \in retired /\ Queued(r)
    <3>1. jobRuns'[r].state # "running"
      BY <1>4, <2>1, <2>2
         DEF RetireSchedules, RunRow, CancelledInQueue, Finished, Unleased
    <3> QED
      BY <2>2, <3>1, NoClaimThere DEF Queued, Running
  <2>3. CASE ~(r \in retired /\ Queued(r))
    <3>1. jobRuns'[r] = jobRuns[r]
      BY <1>4, <2>3 DEF RetireSchedules
    <3> QED
      BY <3>1, UnwrittenClaim
  <2> QED
    BY <2>2, <2>3
<1>5. CASE SetClaimingPaused \/ Tick \/ HostRestart \/ UNCHANGED vars
  BY <1>5, <1>2 DEF SetClaimingPaused, Tick, HostRestart, vars
<1> QED
  BY <1>1, <1>2, <1>3, <1>4, <1>5, RunStepKeeps, ClaimHolderKeeps, RecoverExpiredClaimsKeeps
     DEF Next

(* A claim starts a queued run and leaves the others alone.                *)
LEMMA ClaimStartsQueuedRun ==
  ASSUME RowsInv, NEW w \in Workers, NEW at, ClaimNextRun(w, at), jobRuns' # jobRuns
  PROVE  \E r \in Claimable(w, at) :
           /\ r \in Runs
           /\ Queued(r)
           /\ WorkerMayClaim(w, at)
           /\ jobRuns' = [jobRuns EXCEPT ![r] =
                            Claimed(jobRuns[r], w, Latest(jobRuns[r].updatedAt, at))]
           /\ resourceLeases' = resourceLeases \cup LeasesOf(r, w, jobRuns'[r])
<1>1. PICK r \in NextClaims(w, at) :
        /\ WorkerMayClaim(w, at)
        /\ jobRuns' = [jobRuns EXCEPT ![r] =
                         Claimed(jobRuns[r], w, Latest(jobRuns[r].updatedAt, at))]
        /\ resourceLeases' = resourceLeases \cup
             LeasesOf(r, w, Claimed(jobRuns[r], w, Latest(jobRuns[r].updatedAt, at)))
  BY DEF ClaimNextRun
<1>2. r \in Claimable(w, at) /\ r \in Runs /\ Queued(r)
  BY QueueConstants DEF NextClaims, Claimable
<1>3. jobRuns'[r] = Claimed(jobRuns[r], w, Latest(jobRuns[r].updatedAt, at))
  BY <1>1, <1>2 DEF RowsInv
<1> QED
  BY <1>1, <1>2, <1>3

(* The boots only go forward, so a fence that outlived its boot never      *)
(* matches again.                                                          *)
FenceInv ==
  hostRestartClaimFence # NoFence =>
    /\ hostRestartClaimFence.boot <= bootIdentity
    /\ hostRestartClaimFence.boot = bootIdentity =>
         \A r \in Runs : Running(r) => r = hostRestartClaimFence.run

(* Without a new fence or a new claim the fence invariant stays.           *)
LEMMA FenceUnchanged ==
  ASSUME FenceInv, KeepsClaims, UNCHANGED <<hostRestartClaimFence, bootIdentity>>
  PROVE  FenceInv'
BY DEF FenceInv, KeepsClaims, KeepsClaim, Running

(* Every step preserves the fence invariant.                               *)
LEMMA NextFenceInv ==
  ASSUME IInv, FenceInv, [Next]_vars
  PROVE  FenceInv'
<1>1. CASE hostRestartClaimFence' = NoFence
  BY <1>1 DEF FenceInv
<1>2. ASSUME NEW at \in Instants, NEW w \in Workers, NEW r \in Runs,
             NEW token \in 1..AttemptMaximum, ArmHostRestartClaimFence(w, r, token, at)
      PROVE  FenceInv'
  <2>1. CASE MayArmFence(w, r, token, at)
    <3>1. /\ hostRestartClaimFence'.boot = bootIdentity
          /\ hostRestartClaimFence'.run = r
          /\ UNCHANGED <<jobRuns, bootIdentity>>
      BY <1>2, <2>1 DEF ArmHostRestartClaimFence
    <3>2. bootIdentity \in Nat /\ \A q \in Runs : Running(q) => q = r
      BY <2>1 DEF MayArmFence, IInv, TypeOK
    <3> QED
      BY <3>1, <3>2 DEF FenceInv, Running
  <2> QED
    BY <1>1, <1>2, <2>1 DEF ArmHostRestartClaimFence
<1>3. CASE HostRestart
  <2>1. /\ bootIdentity' \in Nat
        /\ bootIdentity' > bootIdentity
        /\ UNCHANGED <<jobRuns, hostRestartClaimFence>>
    BY <1>3, QueueConstants DEF HostRestart
  <2>2. bootIdentity \in Nat
    BY DEF IInv, TypeOK
  <2>3. CASE hostRestartClaimFence # NoFence
    <3>1. hostRestartClaimFence.boot \in Nat
      BY <2>3 DEF IInv, TypeOK, FenceRow
    <3> QED
      BY <2>1, <2>2, <3>1 DEF FenceInv
  <2> QED
    BY <1>1, <2>1, <2>3
<1>4. CASE /\ UNCHANGED <<hostRestartClaimFence, bootIdentity>>
           /\ KeepsClaims
  BY <1>4, FenceUnchanged
<1>5. ASSUME NEW at \in Instants, NEW w \in Workers, ClaimNextRun(w, at)
      PROVE  hostRestartClaimFence' = NoFence
  BY <1>5 DEF ClaimNextRun
<1>6. \/ hostRestartClaimFence' = NoFence
      \/ \E at \in Instants, w \in Workers, r \in Runs, token \in 1..AttemptMaximum :
           ArmHostRestartClaimFence(w, r, token, at)
      \/ HostRestart
      \/ UNCHANGED <<hostRestartClaimFence, bootIdentity>>
  <2>1. ASSUME NEW at \in Instants, NEW r \in Runs, RunStep(r, at)
        PROVE  UNCHANGED <<hostRestartClaimFence, bootIdentity>>
    BY <2>1 DEF RunStep, EnqueueRun, CancelRun, DisableSchedule,
                RecoverDeliveryProductionTerminalRun, RecoverExpiredClaims
  <2>2. ASSUME NEW at \in Instants, NEW w \in Workers, WorkerStep(w, at)
        PROVE  \/ hostRestartClaimFence' = NoFence
               \/ UNCHANGED <<hostRestartClaimFence, bootIdentity>>
    BY <2>2 DEF WorkerStep, RegisterWorker, HeartbeatWorker, BeginWorkerDrain, StopWorker,
                ClaimNextRun
  <2>3. ASSUME NEW at \in Instants, NEW w \in Workers, NEW r \in Runs,
               NEW token \in 1..AttemptMaximum, ClaimHolderStep(w, r, token, at),
               ~ArmHostRestartClaimFence(w, r, token, at)
        PROVE  \/ hostRestartClaimFence' = NoFence
               \/ UNCHANGED <<hostRestartClaimFence, bootIdentity>>
    BY <2>3 DEF ClaimHolderStep, RenewClaim, AppendClaimEvent, SettleClaim,
                ClearHostRestartClaimFence
  <2>4. ASSUME NEW at \in Instants,
               \/ \E retired \in SUBSET ScheduledRuns : RetireSchedules(retired, at)
               \/ RecoverExpiredClaims(Runs, RetryDelay, at)
        PROVE  UNCHANGED <<hostRestartClaimFence, bootIdentity>>
    BY <2>4 DEF RetireSchedules, RecoverExpiredClaims
  <2>5. CASE SetClaimingPaused \/ Tick \/ UNCHANGED vars
    BY <2>5 DEF SetClaimingPaused, Tick, vars
  <2> QED
    BY <2>1, <2>2, <2>3, <2>4, <2>5 DEF Next
<1> QED
  BY <1>1, <1>2, <1>3, <1>4, <1>5, <1>6, OnlyClaimsStartRuns DEF IInv, TypeOK

(* While the fence of the current boot stands, only the restart action     *)
(* that armed it runs: the host never reboots under another claim.         *)
THEOREM RestartExcludes == Spec => []RestartExcludesOtherClaims
<1>1. Init => FenceInv
  BY DEF Init, FenceInv
<1>2. IInv /\ FenceInv /\ [Next]_vars => FenceInv'
  BY NextFenceInv
<1>3. FenceInv => RestartExcludesOtherClaims
  BY DEF FenceInv, RestartExcludesOtherClaims
<1> QED
  BY <1>1, <1>2, <1>3, Invariance, PTL DEF Spec


-----------------------------------------------------------------------------
(* The leases                                                              *)

(* The lease rows that the claim of run r stands for.                      *)
LeasesOfClaim(r) == LeasesOf(r, jobRuns[r].leaseOwner, jobRuns[r])

LeasesExact ==
  \A lease : lease \in resourceLeases <=> \E r \in Runs : Running(r) /\ lease \in LeasesOfClaim(r)

KeysDisjoint ==
  \A p, q \in Runs : Running(p) /\ Running(q) /\ p # q =>
    ResourceKeys[p] \cap ResourceKeys[q] = {}

(* ResourceLeasesMatchClaims row by row.                                   *)
LEMMA LeasesRowByRow == ResourceLeasesMatchClaims <=> LeasesExact /\ KeysDisjoint
<1>1. ASSUME NEW lease
      PROVE  lease \in UNION {LeasesOf(r, jobRuns[r].leaseOwner, jobRuns[r]) :
                                r \in {q \in Runs : Running(q)}}
               <=> \E r \in Runs : Running(r) /\ lease \in LeasesOfClaim(r)
  BY DEF LeasesOfClaim
<1> QED
  BY <1>1 DEF ResourceLeasesMatchClaims, LeasesExact, KeysDisjoint

(* The rows a release deletes are the rows of the claim.                   *)
LEMMA HeldByClaim ==
  ASSUME LeasesExact, NEW r \in Runs, Running(r)
  PROVE  HeldBy(r) = LeasesOfClaim(r)
<1>1. ASSUME NEW lease \in HeldBy(r)
      PROVE  lease \in LeasesOfClaim(r)
  <2>1. PICK q \in Runs : Running(q) /\ lease \in LeasesOfClaim(q)
    BY <1>1 DEF LeasesExact, HeldBy
  <2>2. lease.run = q
    BY <2>1 DEF LeasesOfClaim, LeasesOf
  <2> QED
    BY <1>1, <2>1, <2>2 DEF HeldBy
<1>2. ASSUME NEW lease \in LeasesOfClaim(r)
      PROVE  lease \in HeldBy(r)
  <2>1. lease \in resourceLeases
    BY <1>2 DEF LeasesExact
  <2> QED
    BY <1>2, <2>1 DEF HeldBy, LeasesOfClaim, LeasesOf
<1> QED
  BY <1>1, <1>2

(* Run r runs on with the lease rows it has.                               *)
SameClaim(r) ==
  /\ Running(r)
  /\ Running(r)'
  /\ LeasesOfClaim(r)' = LeasesOfClaim(r)

(* A transaction that ends some claims and deletes their rows.             *)
EndsClaims(ended) ==
  /\ \A r \in ended : Running(r) /\ jobRuns'[r].state # "running"
  /\ \A r \in Runs \ ended : Running(r) \/ jobRuns'[r].state = "running" => SameClaim(r)
  /\ resourceLeases' = resourceLeases \ UNION {HeldBy(r) : r \in ended}

(* It leaves exactly the lease rows of the claims that go on.              *)
LEMMA EndedClaimsReleased ==
  ASSUME LeasesExact, KeysDisjoint, NEW ended \in SUBSET Runs, EndsClaims(ended)
  PROVE  LeasesExact' /\ KeysDisjoint'
<1>1. \A r \in Runs : Running(r)' => r \notin ended /\ SameClaim(r)
  BY DEF EndsClaims, Running
<1>2. ASSUME NEW lease, lease \in resourceLeases'
      PROVE  \E r \in Runs : Running(r)' /\ lease \in LeasesOfClaim(r)'
  <2>1. lease \in resourceLeases /\ \A r \in ended : lease \notin HeldBy(r)
    BY <1>2 DEF EndsClaims
  <2>2. PICK r \in Runs : Running(r) /\ lease \in LeasesOfClaim(r)
    BY <2>1 DEF LeasesExact
  <2>3. r \notin ended
    BY <2>1, <2>2, HeldByClaim
  <2> QED
    BY <2>2, <2>3 DEF EndsClaims, SameClaim
<1>3. ASSUME NEW lease, NEW r \in Runs, Running(r)', lease \in LeasesOfClaim(r)'
      PROVE  lease \in resourceLeases'
  <2>1. r \notin ended /\ Running(r) /\ lease \in LeasesOfClaim(r)
    BY <1>1, <1>3 DEF SameClaim
  <2>2. lease \in resourceLeases /\ lease.run = r
    BY <2>1 DEF LeasesExact, LeasesOfClaim, LeasesOf
  <2>3. \A q \in ended : lease \notin HeldBy(q)
    BY <2>1, <2>2 DEF HeldBy
  <2> QED
    BY <2>2, <2>3 DEF EndsClaims
<1>4. LeasesExact'
  BY <1>2, <1>3 DEF LeasesExact
<1>5. KeysDisjoint'
  BY <1>1 DEF KeysDisjoint, SameClaim
<1> QED
  BY <1>4, <1>5

(* A transaction that touches neither a claim nor a lease row.             *)
LEMMA ClaimsUntouched ==
  ASSUME LeasesExact, KeysDisjoint, UNCHANGED resourceLeases,
         \A r \in Runs : Running(r) \/ jobRuns'[r].state = "running" => SameClaim(r)
  PROVE  LeasesExact' /\ KeysDisjoint'
<1>1. EndsClaims({})
  BY DEF EndsClaims
<1> QED
  BY <1>1, EndedClaimsReleased

(* Rows that keep these three columns keep their lease rows.               *)
LEMMA SameColumns ==
  ASSUME NEW r \in Runs, Running(r), jobRuns'[r].state = "running",
         jobRuns'[r].leaseOwner = jobRuns[r].leaseOwner,
         jobRuns'[r].leaseToken = jobRuns[r].leaseToken,
         jobRuns'[r].leaseExpiresAt = jobRuns[r].leaseExpiresAt
  PROVE  SameClaim(r)
BY DEF SameClaim, Running, LeasesOfClaim, LeasesOf

(* A transaction that does not write the runs leaves every claim.          *)
LEMMA UnwrittenRuns ==
  ASSUME LeasesExact, KeysDisjoint, UNCHANGED <<jobRuns, resourceLeases>>
  PROVE  LeasesExact' /\ KeysDisjoint'
BY ClaimsUntouched DEF SameClaim, Running, LeasesOfClaim, LeasesOf

(* A transaction that writes one run and no lease row, and neither starts  *)
(* nor ends that run.                                                      *)
LEMMA OneRunWritten ==
  ASSUME RowsInv, LeasesExact, KeysDisjoint, UNCHANGED resourceLeases,
         NEW r \in Runs, NEW new, jobRuns' = [jobRuns EXCEPT ![r] = new],
         \/ ~Running(r) /\ new.state # "running"
         \/ /\ Running(r)
            /\ new.state = "running"
            /\ new.leaseOwner = jobRuns[r].leaseOwner
            /\ new.leaseToken = jobRuns[r].leaseToken
            /\ new.leaseExpiresAt = jobRuns[r].leaseExpiresAt
  PROVE  LeasesExact' /\ KeysDisjoint'
<1>1. jobRuns'[r] = new /\ \A q \in Runs \ {r} : jobRuns'[q] = jobRuns[q]
  BY DEF RowsInv
<1>2. ASSUME NEW q \in Runs, Running(q) \/ jobRuns'[q].state = "running"
      PROVE  SameClaim(q)
  <2>1. Running(q) /\ jobRuns'[q].state = "running"
    BY <1>1, <1>2 DEF Running
  <2> QED
    BY <1>1, <2>1, SameColumns
<1> QED
  BY <1>2, ClaimsUntouched

(* A claim adds the rows of its run, whose keys no other claim holds.      *)
LEMMA ClaimTakesLeases ==
  ASSUME RowsInv, LeasesExact, KeysDisjoint, NEW w \in Workers, NEW at,
         ClaimNextRun(w, at)
  PROVE  LeasesExact' /\ KeysDisjoint'
<1>1. CASE UNCHANGED <<jobRuns, resourceLeases>>
  BY <1>1, UnwrittenRuns
<1>2. CASE jobRuns' # jobRuns
  <2>1. PICK r \in Claimable(w, at) :
          /\ r \in Runs
          /\ Queued(r)
          /\ jobRuns' = [jobRuns EXCEPT ![r] =
                           Claimed(jobRuns[r], w, Latest(jobRuns[r].updatedAt, at))]
          /\ resourceLeases' = resourceLeases \cup LeasesOf(r, w, jobRuns'[r])
    BY <1>2, ClaimStartsQueuedRun
  <2>2. /\ \A q \in Runs \ {r} : jobRuns'[q] = jobRuns[q]
        /\ jobRuns'[r] = Claimed(jobRuns[r], w, Latest(jobRuns[r].updatedAt, at))
        /\ jobRuns[r] \in RunRow
    BY <2>1 DEF RowsInv
  <2>3. jobRuns'[r].state = "running" /\ jobRuns'[r].leaseOwner = w /\ ~Running(r)
    <3> DEFINE stored == Latest(jobRuns[r].updatedAt, at)
    <3>1. /\ Claimed(jobRuns[r], w, stored).state = "running"
          /\ Claimed(jobRuns[r], w, stored).leaseOwner = w
      <4> HIDE DEF stored
      <4> QED
        BY <2>2 DEF Claimed, RunRow
    <3> QED
      BY <2>1, <2>2, <3>1 DEF Queued, Running
  <2>4. \A q \in Runs \ {r} : /\ Running(q)' <=> Running(q)
                              /\ LeasesOfClaim(q)' = LeasesOfClaim(q)
    BY <2>2 DEF Running, LeasesOfClaim, LeasesOf
  <2>5. LeasesOfClaim(r)' = LeasesOf(r, w, jobRuns'[r])
    BY <2>3 DEF LeasesOfClaim, LeasesOf
  <2>6. LeasesExact'
    <3>1. ASSUME NEW lease
          PROVE  lease \in resourceLeases' <=>
                   \E q \in Runs : Running(q)' /\ lease \in LeasesOfClaim(q)'
      BY <2>1, <2>3, <2>4, <2>5 DEF LeasesExact, Running
    <3> QED
      BY <3>1 DEF LeasesExact
  <2>7. ASSUME NEW q \in Runs, Running(q)
        PROVE  ResourceKeys[q] \cap ResourceKeys[r] = {}
    <3> SUFFICES ASSUME NEW k \in ResourceKeys[q], k \in ResourceKeys[r]
                 PROVE  FALSE
      OBVIOUS
    <3> DEFINE lease == [key |-> k, run |-> q, worker |-> jobRuns[q].leaseOwner,
                         token |-> jobRuns[q].leaseToken,
                         expiresAt |-> jobRuns[q].leaseExpiresAt]
    <3>1. lease \in LeasesOfClaim(q)
      BY DEF LeasesOfClaim, LeasesOf
    <3>2. lease \in resourceLeases /\ lease.key = k
      BY <2>7, <3>1 DEF LeasesExact
    <3> QED
      BY <2>1, <3>2 DEF Claimable, ResourceConflict
  <2>8. KeysDisjoint'
    BY <2>3, <2>4, <2>7 DEF KeysDisjoint
  <2> QED
    BY <2>6, <2>8
<1>3. CASE jobRuns' = jobRuns /\ resourceLeases' # resourceLeases
  <2>1. PICK r \in NextClaims(w, at) :
          jobRuns' = [jobRuns EXCEPT ![r] =
                        Claimed(jobRuns[r], w, Latest(jobRuns[r].updatedAt, at))]
    BY <1>3 DEF ClaimNextRun
  <2>2. r \in Runs /\ Queued(r)
    BY QueueConstants DEF NextClaims, Claimable
  <2>3. jobRuns'[r].state = "running"
    BY <2>1, <2>2 DEF RowsInv, RunRow, Claimed
  <2> QED
    BY <1>3, <2>2, <2>3 DEF Queued
<1> QED
  BY <1>1, <1>2, <1>3

(* A renewal moves the expiry of the claim and of all its rows.            *)
LEMMA RenewalMovesLeases ==
  ASSUME RowsInv, LeasesExact, KeysDisjoint, NEW w \in Workers, NEW r \in Runs, NEW token,
         NEW at, RenewClaim(w, r, token, at)
  PROVE  LeasesExact' /\ KeysDisjoint'
<1> DEFINE stored == Latest(jobRuns[r].updatedAt, at)
           expiresAt == stored + LeaseDuration
           Renewed(lease) == [lease EXCEPT !.expiresAt = expiresAt]
<1>1. /\ Running(r)
      /\ jobRuns' = [jobRuns EXCEPT ![r] = [jobRuns[r] EXCEPT !.updatedAt = stored,
                                                              !.leaseExpiresAt = expiresAt]]
      /\ resourceLeases' = {IF lease \in HeldBy(r) THEN Renewed(lease) ELSE lease :
                              lease \in resourceLeases}
  BY DEF RenewClaim, ClaimFence, RowsInv
<1> HIDE DEF stored, expiresAt
<1>2. \A q \in Runs \ {r} : /\ Running(q)' <=> Running(q)
                            /\ LeasesOfClaim(q)' = LeasesOfClaim(q)
  BY <1>1 DEF RowsInv, Running, LeasesOfClaim, LeasesOf
<1>3. /\ Running(r)'
      /\ jobRuns'[r].leaseOwner = jobRuns[r].leaseOwner
      /\ jobRuns'[r].leaseToken = jobRuns[r].leaseToken
      /\ jobRuns'[r].leaseExpiresAt = expiresAt
  BY <1>1 DEF RowsInv, RunRow, Running
<1>4. LeasesOfClaim(r)' = {Renewed(lease) : lease \in LeasesOfClaim(r)}
  <2> DEFINE Row(k, expiry) == [key |-> k, run |-> r, worker |-> jobRuns[r].leaseOwner,
                                token |-> jobRuns[r].leaseToken, expiresAt |-> expiry]
  <2>1. LeasesOfClaim(r) = {Row(k, jobRuns[r].leaseExpiresAt) : k \in ResourceKeys[r]}
    BY DEF LeasesOfClaim, LeasesOf
  <2>2. LeasesOfClaim(r)' = {Row(k, expiresAt) : k \in ResourceKeys[r]}
    BY <1>3 DEF LeasesOfClaim, LeasesOf
  <2>3. \A k : Renewed(Row(k, jobRuns[r].leaseExpiresAt)) = Row(k, expiresAt)
    OBVIOUS
  <2> HIDE DEF Row, Renewed
  <2> QED
    BY <2>1, <2>2, <2>3
<1>5. HeldBy(r) = LeasesOfClaim(r)
  BY <1>1, HeldByClaim
<1>6. \A q \in Runs : \A lease \in LeasesOfClaim(q) : lease.run = q
  BY DEF LeasesOfClaim, LeasesOf
<1> HIDE DEF Renewed
<1>7. ASSUME NEW lease, lease \in resourceLeases'
      PROVE  \E q \in Runs : Running(q)' /\ lease \in LeasesOfClaim(q)'
  <2>1. PICK old \in resourceLeases :
          lease = IF old \in HeldBy(r) THEN Renewed(old) ELSE old
    BY <1>1, <1>7
  <2>2. PICK q \in Runs : Running(q) /\ old \in LeasesOfClaim(q)
    BY DEF LeasesExact
  <2>3. CASE q = r
    BY <1>3, <1>4, <1>5, <2>1, <2>2, <2>3
  <2>4. CASE q # r
    BY <1>2, <1>5, <1>6, <2>1, <2>2, <2>4
  <2> QED
    BY <2>3, <2>4
<1>8. ASSUME NEW lease, NEW q \in Runs, Running(q)', lease \in LeasesOfClaim(q)'
      PROVE  lease \in resourceLeases'
  <2>1. CASE q = r
    <3>1. PICK old \in LeasesOfClaim(r) : lease = Renewed(old)
      BY <1>4, <1>8, <2>1
    <3>2. old \in resourceLeases
      BY <1>5 DEF HeldBy
    <3> QED
      BY <1>1, <1>5, <3>1, <3>2
  <2>2. CASE q # r
    <3>1. lease \in resourceLeases /\ lease \notin HeldBy(r)
      BY <1>2, <1>5, <1>6, <1>8, <2>2 DEF LeasesExact
    <3> QED
      BY <1>1, <3>1
  <2> QED
    BY <2>1, <2>2
<1>9. LeasesExact'
  BY <1>7, <1>8 DEF LeasesExact
<1>10. KeysDisjoint'
  BY <1>1, <1>2 DEF KeysDisjoint
<1> QED
  BY <1>9, <1>10

(* A settlement releases the rows of its claim.                            *)
LEMMA SettlementReleases ==
  ASSUME RowsInv, LeasesExact, KeysDisjoint, NEW w \in Workers, NEW r \in Runs, NEW token,
         NEW at, NEW requested \in TerminalStates, NEW retryable,
         SettleClaim(w, r, token, at, requested, retryable)
  PROVE  LeasesExact' /\ KeysDisjoint'
<1>1. /\ Running(r)
      /\ resourceLeases' = resourceLeases \ UNION {HeldBy(q) : q \in {r}}
      /\ \A q \in Runs \ {r} : jobRuns'[q] = jobRuns[q]
  BY DEF SettleClaim, ClaimFence, RowsInv
<1>2. jobRuns'[r].state # "running"
  <2>1. jobRuns[r] \in RunRow
    BY DEF RowsInv
  <2>2. EffectiveOutcome(r, requested) # "running"
    BY DEF EffectiveOutcome, TerminalStates
  <2> QED
    BY <2>1, <2>2 DEF SettleClaim, RowsInv, Requeued, Finished, Unleased, RunRow
<1>3. EndsClaims({r})
  BY <1>1, <1>2, SameColumns DEF EndsClaims, Running
<1> QED
  BY <1>3, EndedClaimsReleased

(* Recovery releases the rows of every claim it ends.                      *)
LEMMA RecoveryReleases ==
  ASSUME RowsInv, LeasesExact, KeysDisjoint, NEW scope \in SUBSET Runs, NEW at, NEW delay,
         RecoverExpiredClaims(scope, delay, at)
  PROVE  LeasesExact' /\ KeysDisjoint'
<1> DEFINE expired == {r \in scope : Expired(r, at)}
<1>1. /\ \A r \in Runs : jobRuns'[r] = IF r \in expired THEN Recovered(r, at, delay)
                                                         ELSE jobRuns[r]
      /\ resourceLeases' = resourceLeases \ UNION {HeldBy(r) : r \in expired}
  BY DEF RecoverExpiredClaims
<1>2. \A r \in expired : r \in Runs /\ Running(r)
  BY DEF Expired
<1> HIDE DEF expired
<1>3. EndsClaims(expired)
  BY <1>1, <1>2, RecoveredClaim, SameColumns DEF EndsClaims, Running
<1> QED
  BY <1>2, <1>3, EndedClaimsReleased

(* Every step keeps the leases exact and their keys disjoint.              *)
LEMMA NextLeases ==
  ASSUME IInv, LeasesExact, KeysDisjoint, [Next]_vars
  PROVE  LeasesExact' /\ KeysDisjoint'
<1>1. RowsInv /\ now \in Nat
  BY DEF IInv, TypeOK
<1>2. ASSUME NEW at \in Instants, NEW r \in Runs, RunStep(r, at)
      PROVE  LeasesExact' /\ KeysDisjoint'
  <2>1. jobRuns[r] \in RunRow
    BY <1>1 DEF RowsInv
  <2>2. CASE EnqueueRun(r, at)
    <3> DEFINE new == [jobRuns[r] EXCEPT !.state = "queued", !.availableAt = at,
                                         !.updatedAt = at]
    <3>1. /\ jobRuns' = [jobRuns EXCEPT ![r] = new]
          /\ UNCHANGED resourceLeases
          /\ ~Running(r) /\ new.state # "running"
      BY <1>1, <2>1, <2>2 DEF EnqueueRun, RowsInv, RunRow, Running
    <3> HIDE DEF new
    <3> QED
      BY <1>1, <3>1, OneRunWritten
  <2>3. CASE (CancelRun(r, at) /\ Queued(r)) \/ DisableSchedule(r, at)
    <3>1. /\ jobRuns' = [jobRuns EXCEPT ![r] = CancelledInQueue(jobRuns[r], at)]
          /\ UNCHANGED resourceLeases
          /\ ~Running(r) /\ CancelledInQueue(jobRuns[r], at).state # "running"
      BY <1>1, <2>1, <2>3 DEF CancelRun, DisableSchedule, RowsInv, RunRow, Queued, Running,
                              CancelledInQueue, Finished, Unleased
    <3> QED
      BY <1>1, <3>1, OneRunWritten
  <2>4. CASE CancelRun(r, at) /\ ~Queued(r)
    <3> DEFINE new == [jobRuns[r] EXCEPT !.cancelRequested = TRUE,
                                         !.updatedAt = Latest(jobRuns[r].updatedAt, at)]
    <3>1. /\ jobRuns' = [jobRuns EXCEPT ![r] = new]
          /\ UNCHANGED resourceLeases
          /\ Running(r)
      BY <1>1, <2>4 DEF CancelRun, RowsInv
    <3>2. /\ new.state = "running"
          /\ new.leaseOwner = jobRuns[r].leaseOwner
          /\ new.leaseToken = jobRuns[r].leaseToken
          /\ new.leaseExpiresAt = jobRuns[r].leaseExpiresAt
      BY <2>1, <3>1 DEF RunRow, Running
    <3> HIDE DEF new
    <3> QED
      BY <1>1, <3>1, <3>2, OneRunWritten
  <2>5. CASE RecoverDeliveryProductionTerminalRun(r, at)
    <3> DEFINE stored == Latest(jobRuns[r].updatedAt, at)
               new == [jobRuns[r] EXCEPT !.state = "queued",
                                         !.attemptLimit = RecoveryLimit(r),
                                         !.cancelRequested = FALSE,
                                         !.availableAt = stored, !.updatedAt = stored]
    <3>1. /\ jobRuns' = [jobRuns EXCEPT ![r] = new]
          /\ UNCHANGED resourceLeases
          /\ ~Running(r)
      BY <1>1, <2>5 DEF RecoverDeliveryProductionTerminalRun, RowsInv, Running
    <3>2. new.state # "running"
      BY <2>1 DEF RunRow
    <3> HIDE DEF new
    <3> QED
      BY <1>1, <3>1, <3>2, OneRunWritten
  <2>6. CASE RecoverExpiredClaims({r}, NoDelay, at)
    BY <1>1, <2>6, RecoveryReleases
  <2> QED
    BY <1>2, <2>2, <2>3, <2>4, <2>5, <2>6 DEF RunStep
<1>3. ASSUME NEW at \in Instants, NEW w \in Workers, WorkerStep(w, at)
      PROVE  LeasesExact' /\ KeysDisjoint'
  <2>1. CASE ClaimNextRun(w, at)
    BY <1>1, <2>1, ClaimTakesLeases
  <2>2. CASE \/ RegisterWorker(w, at)
             \/ HeartbeatWorker(w, at)
             \/ BeginWorkerDrain(w, at)
             \/ StopWorker(w, at)
    BY <2>2, UnwrittenRuns
       DEF RegisterWorker, HeartbeatWorker, BeginWorkerDrain, StopWorker
  <2> QED
    BY <1>3, <2>1, <2>2 DEF WorkerStep
<1>4. ASSUME NEW at \in Instants, NEW w \in Workers, NEW r \in Runs,
             NEW token \in 1..AttemptMaximum, ClaimHolderStep(w, r, token, at)
      PROVE  LeasesExact' /\ KeysDisjoint'
  <2>1. CASE RenewClaim(w, r, token, at)
    BY <1>1, <2>1, RenewalMovesLeases
  <2>2. CASE AppendClaimEvent(w, r, token, at)
    <3> DEFINE new == [jobRuns[r] EXCEPT !.updatedAt = Latest(jobRuns[r].updatedAt, at)]
    <3>1. /\ jobRuns' = [jobRuns EXCEPT ![r] = new]
          /\ UNCHANGED resourceLeases
          /\ Running(r)
          /\ jobRuns[r] \in RunRow
      BY <1>1, <2>2 DEF AppendClaimEvent, ClaimFence, RowsInv
    <3>2. /\ new.state = "running"
          /\ new.leaseOwner = jobRuns[r].leaseOwner
          /\ new.leaseToken = jobRuns[r].leaseToken
          /\ new.leaseExpiresAt = jobRuns[r].leaseExpiresAt
      BY <3>1 DEF RunRow, Running
    <3> HIDE DEF new
    <3> QED
      BY <1>1, <3>1, <3>2, OneRunWritten
  <2>3. ASSUME NEW requested \in TerminalStates, NEW retryable \in BOOLEAN,
               SettleClaim(w, r, token, at, requested, retryable)
        PROVE  LeasesExact' /\ KeysDisjoint'
    BY <1>1, <2>3, SettlementReleases
  <2>4. CASE \/ ArmHostRestartClaimFence(w, r, token, at)
             \/ ClearHostRestartClaimFence(w, r, token)
    BY <2>4, UnwrittenRuns DEF ArmHostRestartClaimFence, ClearHostRestartClaimFence
  <2> QED
    BY <1>4, <2>1, <2>2, <2>3, <2>4 DEF ClaimHolderStep
<1>5. ASSUME NEW at \in Instants, NEW retired \in SUBSET ScheduledRuns,
             RetireSchedules(retired, at)
      PROVE  LeasesExact' /\ KeysDisjoint'
  <2> SUFFICES ASSUME NEW r \in Runs, Running(r) \/ jobRuns'[r].state = "running"
               PROVE  SameClaim(r)
    BY <1>5, ClaimsUntouched DEF RetireSchedules
  <2>1. jobRuns[r] \in RunRow
    BY <1>1 DEF RowsInv
  <2>2. CASE r \in retired /\ Queued(r)
    BY <1>5, <2>1, <2>2
       DEF RetireSchedules, RunRow, CancelledInQueue, Finished, Unleased, Queued, Running
  <2>3. CASE ~(r \in retired /\ Queued(r))
    <3>1. jobRuns'[r] = jobRuns[r]
      BY <1>5, <2>3 DEF RetireSchedules
    <3> QED
      BY <3>1, SameColumns DEF Running
  <2> QED
    BY <2>2, <2>3
<1>6. ASSUME NEW at \in Instants, RecoverExpiredClaims(Runs, RetryDelay, at)
      PROVE  LeasesExact' /\ KeysDisjoint'
  BY <1>1, <1>6, RecoveryReleases
<1>7. CASE SetClaimingPaused \/ Tick \/ HostRestart \/ UNCHANGED vars
  BY <1>7, UnwrittenRuns DEF SetClaimingPaused, Tick, HostRestart, vars
<1> QED
  BY <1>2, <1>3, <1>4, <1>5, <1>6, <1>7 DEF Next

(* The lease rows are exactly those of the running claims and no key is    *)
(* held twice: no renewal or release finds its lease set incomplete, and   *)
(* no claim violates the primary key of resource_leases.                   *)
THEOREM LeasesMatchClaims == Spec => []ResourceLeasesMatchClaims
<1>1. Init => LeasesExact /\ KeysDisjoint
  <2> SUFFICES ASSUME Init
               PROVE  LeasesExact /\ KeysDisjoint
    OBVIOUS
  <2>1. resourceLeases = {} /\ \A r \in Runs : ~Running(r)
    BY DEF Init, AbsentRow, Running
  <2> QED
    BY <2>1 DEF LeasesExact, KeysDisjoint
<1>2. IInv /\ LeasesExact /\ KeysDisjoint /\ [Next]_vars => LeasesExact' /\ KeysDisjoint'
  BY NextLeases
<1>3. LeasesExact /\ KeysDisjoint => ResourceLeasesMatchClaims
  BY LeasesRowByRow
<1> QED
  BY <1>1, <1>2, <1>3, Invariance, PTL DEF Spec

-----------------------------------------------------------------------------
(* Workers, leases and cancellation requests over time                     *)

(* Only a step of a worker writes its row.                                 *)
LEMMA OnlyWorkersWriteWorkers ==
  ASSUME [Next]_vars
  PROVE  \/ \E at \in Instants, w \in Workers : WorkerStep(w, at)
         \/ UNCHANGED workerInstances
<1>1. ASSUME NEW at \in Instants, NEW r \in Runs, RunStep(r, at)
      PROVE  UNCHANGED workerInstances
  BY <1>1 DEF RunStep, EnqueueRun, CancelRun, DisableSchedule,
              RecoverDeliveryProductionTerminalRun, RecoverExpiredClaims
<1>2. ASSUME NEW at \in Instants, NEW w \in Workers, NEW r \in Runs,
             NEW token \in 1..AttemptMaximum, ClaimHolderStep(w, r, token, at)
      PROVE  UNCHANGED workerInstances
  BY <1>2 DEF ClaimHolderStep, RenewClaim, AppendClaimEvent, SettleClaim,
              ArmHostRestartClaimFence, ClearHostRestartClaimFence
<1>3. ASSUME NEW at \in Instants,
             \/ \E retired \in SUBSET ScheduledRuns : RetireSchedules(retired, at)
             \/ RecoverExpiredClaims(Runs, RetryDelay, at)
      PROVE  UNCHANGED workerInstances
  BY <1>3 DEF RetireSchedules, RecoverExpiredClaims
<1>4. CASE SetClaimingPaused \/ Tick \/ HostRestart \/ UNCHANGED vars
  BY <1>4 DEF SetClaimingPaused, Tick, HostRestart, vars
<1> QED
  BY <1>1, <1>2, <1>3, <1>4 DEF Next

(* What a worker holds is within its capacity and its state.               *)
WithinCapacity ==
  \A w \in Workers :
    /\ \A p, q \in OwnedBy(w) : p = q
    /\ OwnedBy(w) # {} => workerInstances[w].state \in {"online", "draining"}

(* Every step keeps it so, and gives a claim to an online worker only.     *)
LEMMA NextWorkerClaims ==
  ASSUME IInv, WithinCapacity, [Next]_vars
  PROVE  /\ WithinCapacity'
         /\ \A w \in Workers :
              OwnedBy(w)' \subseteq OwnedBy(w) \/ workerInstances[w].state = "online"
<1>1. RowsInv /\ TypeOK /\ now \in Nat
  BY DEF IInv, TypeOK
<1>2. CASE KeepsClaims
  <2> SUFFICES ASSUME NEW w \in Workers
               PROVE  /\ OwnedBy(w)' \subseteq OwnedBy(w)
                      /\ \A p, q \in OwnedBy(w)' : p = q
                      /\ OwnedBy(w)' # {} =>
                           workerInstances'[w].state \in {"online", "draining"}
    BY DEF WithinCapacity
  <2>1. OwnedBy(w)' \subseteq OwnedBy(w)
    BY <1>2 DEF KeepsClaims, KeepsClaim, OwnedBy, Running
  <2>2. OwnedBy(w) # {} => workerInstances'[w].state \in {"online", "draining"}
    <3> SUFFICES ASSUME OwnedBy(w) # {}
                 PROVE  workerInstances'[w].state \in {"online", "draining"}
      OBVIOUS
    <3>1. workerInstances[w].state \in {"online", "draining"}
      BY DEF WithinCapacity
    <3>2. ASSUME NEW at \in Instants, NEW v \in Workers, WorkerStep(v, at)
          PROVE  workerInstances'[w].state \in {"online", "draining"}
      <4>1. CASE v = w
        BY <1>1, <3>1, <3>2, <4>1
           DEF WorkerStep, RegisterWorker, HeartbeatWorker, BeginWorkerDrain, StopWorker,
               ClaimNextRun, TypeOK, WorkerRow
      <4>2. CASE v # w
        BY <1>1, <3>1, <3>2, <4>2
           DEF WorkerStep, RegisterWorker, HeartbeatWorker, BeginWorkerDrain, StopWorker,
               ClaimNextRun, TypeOK, WorkerRow
      <4> QED
        BY <4>1, <4>2
    <3> QED
      BY <3>1, <3>2, OnlyWorkersWriteWorkers
  <2> QED
    BY <2>1, <2>2 DEF WithinCapacity
<1>3. ASSUME NEW at \in Instants, NEW w \in Workers, ClaimNextRun(w, at), jobRuns' # jobRuns
      PROVE  /\ WithinCapacity'
             /\ \A v \in Workers :
                  OwnedBy(v)' \subseteq OwnedBy(v) \/ workerInstances[v].state = "online"
  <2>1. PICK r \in Runs :
          /\ Queued(r)
          /\ WorkerMayClaim(w, at)
          /\ jobRuns' = [jobRuns EXCEPT ![r] =
                           Claimed(jobRuns[r], w, Latest(jobRuns[r].updatedAt, at))]
    BY <1>1, <1>3, ClaimStartsQueuedRun
  <2>2. jobRuns'[r].leaseOwner = w
    <3> DEFINE stored == Latest(jobRuns[r].updatedAt, at)
    <3>1. Claimed(jobRuns[r], w, stored).leaseOwner = w
      <4> HIDE DEF stored
      <4> QED
        BY <1>1 DEF Claimed, RunRow, RowsInv
    <3> QED
      BY <1>1, <2>1, <3>1 DEF RowsInv
  <2>3. \A q \in Runs \ {r} : jobRuns'[q] = jobRuns[q]
    BY <1>1, <2>1 DEF RowsInv
  <2>4. OwnedBy(w)' \subseteq {r}
    BY <2>1, <2>3 DEF WorkerMayClaim, OwnedBy, Running
  <2>5. \A v \in Workers \ {w} : OwnedBy(v)' \subseteq OwnedBy(v)
    BY <2>2, <2>3 DEF OwnedBy, Running
  <2>6. UNCHANGED workerInstances /\ workerInstances[w].state = "online"
    BY <1>3, <2>1 DEF ClaimNextRun, WorkerMayClaim
  <2> QED
    BY <2>4, <2>5, <2>6 DEF WithinCapacity
<1>4. UNCHANGED jobRuns => KeepsClaims
  BY <1>1, UnwrittenClaim DEF KeepsClaims
<1> QED
  BY <1>1, <1>2, <1>3, <1>4, OnlyClaimsStartRuns

(* Only an online worker takes a claim, one at a time, and a worker that   *)
(* stopped left none behind, however drains, lost claims and recoveries    *)
(* overlap.                                                                *)
THEOREM WorkersWithinCapacity == Spec => WorkerClaims
<1> DEFINE Claims(w) ==
             \A r \in OwnedBy(w)' :
               /\ OwnedBy(w)' = {r}
               /\ workerInstances'[w].state \in {"online", "draining"}
               /\ r \in OwnedBy(w) \/ workerInstances[w].state = "online"
<1>1. Init => WithinCapacity
  BY DEF Init, AbsentRow, WithinCapacity, OwnedBy, Running
<1>2. IInv /\ WithinCapacity /\ [Next]_vars => WithinCapacity'
  BY NextWorkerClaims
<1>3. IInv /\ WithinCapacity /\ [Next]_vars => [\A w \in Workers : Claims(w)]_vars
  BY NextWorkerClaims DEF WithinCapacity
<1> QED
  BY <1>1, <1>2, <1>3, Invariance, PTL DEF Spec, WorkerClaims

(* A step that does not keep every claim starts a run that was queued.     *)
LEMMA ClaimsElsewhere ==
  ASSUME IInv, [Next]_vars, NEW r \in Runs, Running(r)
  PROVE  KeepsClaim(r)
<1>1. RowsInv /\ now \in Nat
  BY DEF IInv, TypeOK
<1>2. ASSUME NEW at \in Instants, NEW w \in Workers, ClaimNextRun(w, at)
      PROVE  jobRuns'[r] = jobRuns[r]
  <2>1. CASE jobRuns' # jobRuns
    BY <1>1, <1>2, <2>1, ClaimStartsQueuedRun DEF RowsInv, Queued, Running
  <2> QED
    BY <2>1
<1> QED
  BY <1>1, <1>2, OnlyClaimsStartRuns, UnwrittenClaim DEF KeepsClaims

(* A recovery leaves a live lease alone: its instant is not after the      *)
(* clock.                                                                  *)
LEMMA RecoverySparesLiveLease ==
  ASSUME RowsInv, now \in Nat, NEW at \in Instants, NEW scope \in SUBSET Runs, NEW delay,
         RecoverExpiredClaims(scope, delay, at),
         NEW r \in Runs, jobRuns[r].leaseExpiresAt > now
  PROVE  jobRuns'[r] = jobRuns[r]
<1>1. at \in Nat /\ at <= now
  BY DEF Instants
<1>2. jobRuns[r].leaseExpiresAt \in Nat
  BY DEF RowsInv, RunRow
<1>3. ~Expired(r, at)
  BY <1>1, <1>2 DEF Expired
<1> QED
  BY <1>3 DEF RecoverExpiredClaims

(* A step on a run outside its claim ends no live lease.                   *)
LEMMA RunStepSparesLiveLease ==
  ASSUME RowsInv, now \in Nat, NEW at \in Instants, NEW q \in Runs, RunStep(q, at),
         NEW r \in Runs, Running(r), jobRuns[r].leaseExpiresAt > now
  PROVE  jobRuns'[r].state = "running"
<1>1. jobRuns \in [Runs -> RunRow] /\ jobRuns[r].state = "running"
  BY DEF RowsInv, Running
<1>2. CASE EnqueueRun(q, at)
  BY <1>1, <1>2 DEF EnqueueRun
<1>3. CASE CancelRun(q, at)
  <2>1. CASE Queued(q)
    BY <1>1, <1>3, <2>1 DEF CancelRun, Queued, Running
  <2>2. CASE ~Queued(q)
    <3> DEFINE new == [jobRuns[q] EXCEPT !.cancelRequested = TRUE,
                                         !.updatedAt = Latest(jobRuns[q].updatedAt, at)]
    <3>1. jobRuns' = [jobRuns EXCEPT ![q] = new]
      BY <1>1, <1>3, <2>2 DEF CancelRun
    <3>2. new.state = jobRuns[q].state
      BY <1>1 DEF RunRow
    <3> HIDE DEF new
    <3> QED
      BY <1>1, <3>1, <3>2
  <2> QED
    BY <2>1, <2>2
<1>4. CASE DisableSchedule(q, at)
  BY <1>1, <1>4 DEF DisableSchedule, Queued
<1>5. CASE RecoverDeliveryProductionTerminalRun(q, at)
  <2>1. q # r
    BY <1>1, <1>5 DEF RecoverDeliveryProductionTerminalRun
  <2> QED
    BY <1>1, <1>5, <2>1 DEF RecoverDeliveryProductionTerminalRun
<1>6. CASE RecoverExpiredClaims({q}, NoDelay, at)
  BY <1>1, <1>6, RecoverySparesLiveLease
<1> QED
  BY <1>2, <1>3, <1>4, <1>5, <1>6 DEF RunStep

(* Of the steps that present a claim, only the settlement by the holder    *)
(* takes a run out of running.                                             *)
LEMMA ClaimHolderSteps ==
  ASSUME RowsInv, NEW at \in Instants, NEW w \in Workers, NEW q \in Runs, NEW token,
         ClaimHolderStep(w, q, token, at),
         NEW r \in Runs, Running(r)
  PROVE  jobRuns'[r].state = "running" \/ HolderSettles(r)
<1>1. jobRuns \in [Runs -> RunRow] /\ jobRuns[r].state = "running"
  BY DEF RowsInv, Running
<1>2. CASE RenewClaim(w, q, token, at)
  <2> DEFINE stored == Latest(jobRuns[q].updatedAt, at)
             new == [jobRuns[q] EXCEPT !.updatedAt = stored,
                                       !.leaseExpiresAt = stored + LeaseDuration]
  <2>1. jobRuns' = [jobRuns EXCEPT ![q] = new]
    BY <1>1, <1>2 DEF RenewClaim
  <2> HIDE DEF stored
  <2>2. new.state = jobRuns[q].state
    BY <1>1 DEF RunRow
  <2> HIDE DEF new
  <2> QED
    BY <1>1, <2>1, <2>2
<1>3. CASE AppendClaimEvent(w, q, token, at)
  <2> DEFINE new == [jobRuns[q] EXCEPT !.updatedAt = Latest(jobRuns[q].updatedAt, at)]
  <2>1. jobRuns' = [jobRuns EXCEPT ![q] = new]
    BY <1>1, <1>3 DEF AppendClaimEvent
  <2>2. new.state = jobRuns[q].state
    BY <1>1 DEF RunRow
  <2> HIDE DEF new
  <2> QED
    BY <1>1, <2>1, <2>2
<1>4. ASSUME NEW requested \in TerminalStates, NEW retryable \in BOOLEAN,
             SettleClaim(w, q, token, at, requested, retryable)
      PROVE  jobRuns'[r].state = "running" \/ HolderSettles(r)
  <2>1. CASE q = r
    <3>1. w = jobRuns[r].leaseOwner /\ token = jobRuns[r].leaseToken
      BY <1>4, <2>1 DEF SettleClaim, ClaimFence
    <3>2. SettleClaim(jobRuns[r].leaseOwner, r, jobRuns[r].leaseToken, at, requested, retryable)
      BY <1>4, <2>1, <3>1
    <3> QED
      BY <3>2 DEF HolderSettles
  <2>2. CASE q # r
    BY <1>1, <1>4, <2>2 DEF SettleClaim
  <2> QED
    BY <2>1, <2>2
<1>5. CASE ArmHostRestartClaimFence(w, q, token, at) \/ ClearHostRestartClaimFence(w, q, token)
  BY <1>1, <1>5 DEF ArmHostRestartClaimFence, ClearHostRestartClaimFence
<1> QED
  BY <1>2, <1>3, <1>4, <1>5 DEF ClaimHolderStep

(* While the lease of a run is live, only its holder ends the claim.       *)
LEMMA HolderEndsLiveLease ==
  ASSUME RowsInv, now \in Nat, [Next]_vars,
         NEW r \in Runs, Running(r), jobRuns[r].leaseExpiresAt > now
  PROVE  jobRuns'[r].state = "running" \/ HolderSettles(r)
<1>1. jobRuns \in [Runs -> RunRow] /\ jobRuns[r].state = "running"
  BY DEF RowsInv, Running
<1>2. ASSUME jobRuns' = jobRuns
      PROVE  jobRuns'[r].state = "running"
  BY <1>1, <1>2
<1>3. ASSUME NEW at \in Instants, NEW w \in Workers, WorkerStep(w, at)
      PROVE  jobRuns'[r].state = "running"
  <2>1. CASE ClaimNextRun(w, at) /\ jobRuns' # jobRuns
    BY <1>1, <2>1, ClaimStartsQueuedRun DEF Queued
  <2> QED
    BY <1>2, <1>3, <2>1
       DEF WorkerStep, RegisterWorker, HeartbeatWorker, BeginWorkerDrain, StopWorker
<1>4. ASSUME NEW at \in Instants, NEW retired \in SUBSET ScheduledRuns,
             RetireSchedules(retired, at)
      PROVE  jobRuns'[r].state = "running"
  BY <1>1, <1>4 DEF RetireSchedules, Queued
<1>5. ASSUME NEW at \in Instants, RecoverExpiredClaims(Runs, RetryDelay, at)
      PROVE  jobRuns'[r].state = "running"
  BY <1>1, <1>5, RecoverySparesLiveLease
<1>6. CASE SetClaimingPaused \/ Tick \/ HostRestart \/ UNCHANGED vars
  BY <1>6, <1>2 DEF SetClaimingPaused, Tick, HostRestart, vars
<1> QED
  BY <1>3, <1>4, <1>5, <1>6, RunStepSparesLiveLease, ClaimHolderSteps DEF Next

(* No lease is taken back before it ran out: a run that stays running      *)
(* keeps its holder and its token, and its lease never ends earlier; while *)
(* the lease is live the run ends or is requeued by its holder's           *)
(* settlement only, and by no recovery.                                    *)
THEOREM LeasesOnlyAdvance == Spec => LeaseOnlyAdvances
<1> DEFINE Advances(r) ==
             Running(r) =>
               IF jobRuns'[r].state = "running"
               THEN /\ jobRuns'[r].leaseToken = jobRuns[r].leaseToken
                    /\ jobRuns'[r].leaseOwner = jobRuns[r].leaseOwner
                    /\ jobRuns'[r].leaseExpiresAt >= jobRuns[r].leaseExpiresAt
               ELSE jobRuns[r].leaseExpiresAt > now => HolderSettles(r) /\ ~ClaimsRecovered
<1>1. ASSUME IInv, [Next]_vars, NEW r \in Runs, Running(r), jobRuns'[r].state = "running"
      PROVE  Advances(r)
  BY <1>1, ClaimsElsewhere DEF KeepsClaim
<1>2. ASSUME IInv, [Next]_vars, NEW r \in Runs, Running(r),
             jobRuns'[r].state # "running", jobRuns[r].leaseExpiresAt > now
      PROVE  HolderSettles(r) /\ ~ClaimsRecovered
  <2>1. RowsInv /\ now \in Nat
    BY <1>2 DEF IInv, TypeOK
  <2>2. HolderSettles(r)
    BY <1>2, <2>1, HolderEndsLiveLease
  <2>3. ASSUME NEW at \in Instants, NEW scope \in SUBSET Runs, NEW delay,
               RecoverExpiredClaims(scope, delay, at)
        PROVE  FALSE
    BY <1>2, <2>1, <2>3, RecoverySparesLiveLease DEF Running
  <2>4. DeliveryRuns \subseteq Runs
    BY QueueConstants
  <2> QED
    BY <2>2, <2>3, <2>4 DEF ClaimsRecovered
<1>3. IInv /\ [Next]_vars => [\A r \in Runs : Advances(r)]_vars
  BY <1>1, <1>2
<1> QED
  BY <1>3, Invariance, PTL DEF Spec, LeaseOnlyAdvances

(* A stored cancellation request is never lost, and the run it was stored  *)
(* on ends cancelled unless it had already succeeded.                      *)
THEOREM CancellationsWin == Spec => CancellationWins
<1> DEFINE Honoured(r) ==
             Running(r) /\ jobRuns[r].cancelRequested /\ jobRuns'[r] # jobRuns[r] =>
               /\ jobRuns'[r].state \in {"running", "cancelled", "succeeded"}
               /\ jobRuns'[r].cancelRequested
<1>1. IInv /\ [Next]_vars => [\A r \in Runs : Honoured(r)]_vars
  BY ClaimsElsewhere DEF KeepsClaim
<1> QED
  BY <1>1, Invariance, PTL DEF Spec, CancellationWins

=============================================================================
