------------------------------ MODULE JobQueue ------------------------------
(***************************************************************************)
(* The durable job queue of the Dashboard: the tables job_runs,            *)
(* resource_leases, worker_instances, job_worker_control and               *)
(* host_restart_claim_fence, and every repository transaction that changes *)
(* them (server/domains/jobs/repository.ts).                               *)
(*                                                                         *)
(* One action is one immediate SQLite transaction.  A caller computes its  *)
(* instant `at` before it waits for write admission, so a transaction may  *)
(* commit with an instant that is up to Staleness old.  A lost claim, a    *)
(* refusal or a thrown error rolls back or writes nothing: those outcomes  *)
(* are the stuttering steps of the module.                                 *)
(*                                                                         *)
(* Not represented: names, payloads, results and actors; queuedAt and id   *)
(* as the last tie-breakers of the claim order (any order of a tie is      *)
(* allowed); the page of 32 candidates (Runs is smaller than a page);      *)
(* job_run_events, which module JobRunEvents models.                       *)
(***************************************************************************)
EXTENDS Integers, FiniteSets

CONSTANTS
  Runs,                (* identities of the job runs                             *)
  Workers,             (* identities of the worker processes                     *)
  Resources,           (* resource keys                                          *)
  NoWorker,            (* the null lease owner                                   *)
  NoFence,             (* the absent host_restart_claim_fence row                *)
  Supported,           (* Supported[w]: the runs whose action and release w has  *)
  ResourceKeys,        (* ResourceKeys[r]: the keys a claim of r must hold       *)
  Priority,            (* Priority[r]: the claim priority                        *)
  InitialAttemptLimit, (* InitialAttemptLimit[r]: the limit r is inserted with   *)
  RetrySafe,           (* RetrySafe[r]: the action may be executed again         *)
  CancellationPolicy,  (* CancellationPolicy[r]                                  *)
  ScheduledRuns,       (* the runs a schedule triggered                          *)
  HostRestartRuns,     (* the runs of the host.system.restart action             *)
  DeliveryRuns,        (* the runs of the delivery.production.v1 action          *)
  AttemptMaximum,      (* the largest attempt limit a row may have               *)
  LeaseDuration,       (* claim lease length                                     *)
  Freshness,           (* age at which a heartbeat stops allowing claims         *)
  FenceDuration,       (* life of the host restart fence                         *)
  RetryDelay,          (* RetryDelay[n]: delay after the n-th attempt            *)
  Staleness,           (* bound: age of the instant a transaction carries        *)
  MaxTime,             (* bound: the last instant                                *)
  MaxBoot              (* bound: the last host boot                              *)

Policies == {"cooperative", "queued-only", "never"}
TerminalStates == {"cancelled", "failed", "succeeded", "timed-out"}
RunStates == {"absent", "queued", "running"} \cup TerminalStates

ASSUME QueueConstants ==
  /\ NoWorker \notin Workers
  /\ Supported \in [Workers -> SUBSET Runs]
  /\ ResourceKeys \in [Runs -> SUBSET Resources]
  /\ Priority \in [Runs -> Int]
  /\ AttemptMaximum \in Nat \ {0}
  /\ InitialAttemptLimit \in [Runs -> 1..AttemptMaximum]
  /\ RetrySafe \in [Runs -> BOOLEAN]
  /\ CancellationPolicy \in [Runs -> Policies]
  /\ ScheduledRuns \subseteq Runs
  /\ HostRestartRuns \subseteq Runs
  /\ DeliveryRuns \subseteq Runs \ ScheduledRuns
  /\ \A r \in DeliveryRuns : RetrySafe[r] /\ CancellationPolicy[r] = "never"
  /\ LeaseDuration \in Nat \ {0}
  /\ Freshness \in Nat
  /\ FenceDuration \in Nat \ {0}
  /\ RetryDelay \in [1..AttemptMaximum -> Nat]
  /\ Staleness \in Nat
  /\ MaxTime \in Nat
  /\ MaxBoot \in Nat

(* A fence row is a record, so no set of fences holds the null value.      *)
ASSUME NullFence ==
  NoFence \notin [run : Runs, worker : Workers, token : Nat, boot : Nat, expiresAt : Nat]

VARIABLES
  jobRuns,               (* jobRuns[r]: the row of run r                         *)
  resourceLeases,        (* the rows of resource_leases                          *)
  workerInstances,       (* workerInstances[w]: the row of worker w              *)
  claimingPaused,        (* job_worker_control.claiming_paused                   *)
  hostRestartClaimFence, (* the singleton fence row, or NoFence                  *)
  bootIdentity,          (* the Linux boot the processes run in                  *)
  now                    (* the wall clock                                       *)

vars == <<jobRuns, resourceLeases, workerInstances, claimingPaused,
          hostRestartClaimFence, bootIdentity, now>>

-----------------------------------------------------------------------------
(* Rows.  leaseToken is a fresh UUID per claim; the attempt number of the  *)
(* claim stands for it, 0 for null.                                        *)

RunRow == [state : RunStates, attemptCount : Nat, attemptLimit : Nat,
           cancelRequested : BOOLEAN, availableAt : Nat, updatedAt : Nat,
           leaseOwner : Workers \cup {NoWorker}, leaseToken : Nat,
           leaseExpiresAt : Nat]

LeaseRow == [key : Resources, run : Runs, worker : Workers, token : Nat,
             expiresAt : Nat]

WorkerRow == [state : {"unregistered", "online", "draining", "stopped"},
              heartbeatAt : Nat]

FenceRow == [run : Runs, worker : Workers, token : Nat, boot : Nat,
             expiresAt : Nat]

AbsentRow(r) ==
  [state |-> "absent", attemptCount |-> 0, attemptLimit |-> InitialAttemptLimit[r],
   cancelRequested |-> FALSE, availableAt |-> 0, updatedAt |-> 0,
   leaseOwner |-> NoWorker, leaseToken |-> 0, leaseExpiresAt |-> 0]

-----------------------------------------------------------------------------
(* Reading the tables                                                      *)

Latest(a, b) == IF a >= b THEN a ELSE b

(* The instants a transaction committing now may carry.                    *)
Instants == {t \in 0..now : now - t <= Staleness}

Queued(r) == jobRuns[r].state = "queued"
Running(r) == jobRuns[r].state = "running"
OwnedBy(w) == {r \in Runs : Running(r) /\ jobRuns[r].leaseOwner = w}

(* The fenced claim predicate every call of a claim holder is subject to.  *)
ClaimFence(w, r, token, at) ==
  /\ Running(r)
  /\ jobRuns[r].leaseOwner = w
  /\ jobRuns[r].leaseToken = token
  /\ jobRuns[r].leaseExpiresAt > at

FenceLive(at) ==
  /\ hostRestartClaimFence # NoFence
  /\ hostRestartClaimFence.boot = bootIdentity
  /\ hostRestartClaimFence.expiresAt > at

(* Mutant: a worker that drains goes on claiming.                          *)
WorkerMayClaimWhileDraining(w, at) ==
  /\ workerInstances[w].state \in {"online", "draining"}
  /\ workerInstances[w].heartbeatAt >= at - Freshness
  /\ OwnedBy(w) = {}

WorkerMayClaim(w, at) ==
  /\ workerInstances[w].state = "online"
  /\ workerInstances[w].heartbeatAt >= at - Freshness
  /\ OwnedBy(w) = {}

(* Mutant: a lease that ran out no longer blocks its key.                  *)
ResourceConflictWhileLive(r) ==
  \E lease \in resourceLeases : lease.key \in ResourceKeys[r] /\ lease.expiresAt > now

ResourceConflict(r) == \E lease \in resourceLeases : lease.key \in ResourceKeys[r]

Claimable(w, at) ==
  {r \in Supported[w] :
     Queued(r) /\ jobRuns[r].availableAt <= at /\ ~ResourceConflict(r)}

Precedes(a, b) ==
  \/ jobRuns[a].availableAt < jobRuns[b].availableAt
  \/ /\ jobRuns[a].availableAt = jobRuns[b].availableAt
     /\ Priority[a] > Priority[b]

NextClaims(w, at) ==
  {r \in Claimable(w, at) : \A q \in Claimable(w, at) : ~Precedes(q, r)}

-----------------------------------------------------------------------------
(* Row updates                                                             *)

Unleased(row) ==
  [row EXCEPT !.leaseOwner = NoWorker, !.leaseToken = 0, !.leaseExpiresAt = 0]

Requeued(row, at, availableAt) ==
  [Unleased(row) EXCEPT !.state = "queued", !.availableAt = availableAt, !.updatedAt = at]

Finished(row, state, at) == [Unleased(row) EXCEPT !.state = state, !.updatedAt = at]

(* The rows of resource_leases that releaseResources deletes for run r.    *)
HeldBy(r) ==
  {lease \in resourceLeases :
     /\ lease.run = r
     /\ lease.worker = jobRuns[r].leaseOwner
     /\ lease.token = jobRuns[r].leaseToken}

-----------------------------------------------------------------------------
Init ==
  /\ jobRuns = [r \in Runs |-> AbsentRow(r)]
  /\ resourceLeases = {}
  /\ workerInstances = [w \in Workers |-> [state |-> "unregistered", heartbeatAt |-> 0]]
  /\ claimingPaused = FALSE
  /\ hostRestartClaimFence = NoFence
  /\ bootIdentity = 0
  /\ now = 0

-----------------------------------------------------------------------------
(* Runs entering and leaving the queue                                     *)

(* enqueueManualRun and enqueueNextDueSchedule insert the run row.         *)
EnqueueRun(r, at) ==
  /\ jobRuns[r].state = "absent"
  /\ jobRuns' = [jobRuns EXCEPT ![r].state = "queued",
                                ![r].availableAt = at,
                                ![r].updatedAt = at]
  /\ UNCHANGED <<resourceLeases, workerInstances, claimingPaused,
                 hostRestartClaimFence, bootIdentity, now>>

CancelledInQueue(row, at) ==
  [Finished(row, "cancelled", Latest(row.updatedAt, at)) EXCEPT !.cancelRequested = TRUE]

(* A request on a running run is stored for its claim holder to see.       *)
CancelRun(r, at) ==
  /\ \/ /\ Queued(r)
        /\ CancellationPolicy[r] # "never"
        /\ jobRuns' = [jobRuns EXCEPT ![r] = CancelledInQueue(@, at)]
     \/ /\ Running(r)
        /\ CancellationPolicy[r] = "cooperative"
        /\ ~jobRuns[r].cancelRequested
        /\ jobRuns' = [jobRuns EXCEPT ![r].cancelRequested = TRUE,
                                      ![r].updatedAt = Latest(@, at)]
  /\ UNCHANGED <<resourceLeases, workerInstances, claimingPaused,
                 hostRestartClaimFence, bootIdentity, now>>

(* updateSchedule disabling a schedule cancels its queued run, and refuses *)
(* when the run can never be cancelled.                                    *)
DisableSchedule(r, at) ==
  /\ Queued(r)
  /\ CancellationPolicy[r] # "never"
  /\ jobRuns' = [jobRuns EXCEPT ![r] = CancelledInQueue(@, at)]
  /\ UNCHANGED <<resourceLeases, workerInstances, claimingPaused,
                 hostRestartClaimFence, bootIdentity, now>>

(* reconcileSchedules ends the queued runs of the schedules that left the  *)
(* action registry: cancelled, or failed when they can never be cancelled. *)
RetireSchedules(retired, at) ==
  LET ended == {r \in retired : Queued(r)}
      Retired(r) == IF CancellationPolicy[r] = "never"
                    THEN Finished(jobRuns[r], "failed", Latest(jobRuns[r].updatedAt, at))
                    ELSE CancelledInQueue(jobRuns[r], at)
  IN /\ ended # {}
     /\ jobRuns' = [r \in Runs |-> IF r \in ended THEN Retired(r) ELSE jobRuns[r]]
     /\ UNCHANGED <<resourceLeases, workerInstances, claimingPaused,
                    hostRestartClaimFence, bootIdentity, now>>

(* Mutant: every recovery grants one attempt more.                         *)
RecoveryLimitRaised(r) == jobRuns[r].attemptLimit + 1

RecoveryLimit(r) == Latest(jobRuns[r].attemptLimit, jobRuns[r].attemptCount + 1)

(* Startup of a new release requeues the terminal delivery run whose       *)
(* receipt it found, with room for one more attempt.                       *)
RecoverDeliveryProductionTerminalRun(r, at) ==
  LET recoveredAt == Latest(jobRuns[r].updatedAt, at)
      limit == RecoveryLimit(r)
  IN /\ r \in DeliveryRuns
     /\ RetrySafe[r]
     /\ jobRuns[r].state \in {"cancelled", "failed", "timed-out"}
     /\ limit <= AttemptMaximum
     /\ jobRuns' = [jobRuns EXCEPT ![r] =
          [@ EXCEPT !.state = "queued", !.attemptLimit = limit,
                    !.cancelRequested = FALSE,
                    !.availableAt = recoveredAt, !.updatedAt = recoveredAt]]
     /\ UNCHANGED <<resourceLeases, workerInstances, claimingPaused,
                    hostRestartClaimFence, bootIdentity, now>>

-----------------------------------------------------------------------------
(* Claims                                                                  *)

(* Mutant: the lease is counted backwards.                                 *)
ClaimedInThePast(row, w, at) ==
  [row EXCEPT !.state = "running", !.attemptCount = @ + 1, !.updatedAt = at,
              !.leaseOwner = w, !.leaseToken = row.attemptCount + 1,
              !.leaseExpiresAt = at - LeaseDuration]

Claimed(row, w, at) ==
  [row EXCEPT !.state = "running", !.attemptCount = @ + 1, !.updatedAt = at,
              !.leaseOwner = w, !.leaseToken = row.attemptCount + 1,
              !.leaseExpiresAt = at + LeaseDuration]

LeasesOf(r, w, row) ==
  {[key |-> k, run |-> r, worker |-> w, token |-> row.leaseToken,
    expiresAt |-> row.leaseExpiresAt] : k \in ResourceKeys[r]}

(* Every call that is not fenced first drops the dead fence; it then takes *)
(* the first unblocked candidate, unless claiming is paused, the worker    *)
(* may not claim or nothing can be claimed.                                *)
ClaimNextRun(w, at) ==
  /\ ~FenceLive(at)
  /\ hostRestartClaimFence' = NoFence
  /\ IF claimingPaused \/ ~WorkerMayClaim(w, at) \/ Claimable(w, at) = {}
     THEN UNCHANGED <<jobRuns, resourceLeases>>
     ELSE \E r \in NextClaims(w, at) :
            LET row == Claimed(jobRuns[r], w, Latest(jobRuns[r].updatedAt, at))
            IN /\ jobRuns' = [jobRuns EXCEPT ![r] = row]
               /\ resourceLeases' = resourceLeases \cup LeasesOf(r, w, row)
  /\ UNCHANGED <<workerInstances, claimingPaused, bootIdentity, now>>

(* Mutant: the renewal trusts the instant it is given.                     *)
RenewClaimAtCallerTime(w, r, token, at) ==
  /\ ClaimFence(w, r, token, at)
  /\ jobRuns' = [jobRuns EXCEPT ![r].updatedAt = at,
                                ![r].leaseExpiresAt = at + LeaseDuration]
  /\ resourceLeases' = {IF lease \in HeldBy(r)
                        THEN [lease EXCEPT !.expiresAt = at + LeaseDuration]
                        ELSE lease : lease \in resourceLeases}
  /\ UNCHANGED <<workerInstances, claimingPaused, hostRestartClaimFence,
                 bootIdentity, now>>

(* A renewal that would not advance the lease throws.                      *)
RenewClaim(w, r, token, at) ==
  LET renewedAt == Latest(jobRuns[r].updatedAt, at)
      expiresAt == renewedAt + LeaseDuration
  IN /\ ClaimFence(w, r, token, at)
     /\ expiresAt > jobRuns[r].leaseExpiresAt
     /\ jobRuns' = [jobRuns EXCEPT ![r].updatedAt = renewedAt,
                                   ![r].leaseExpiresAt = expiresAt]
     /\ resourceLeases' = {IF lease \in HeldBy(r)
                           THEN [lease EXCEPT !.expiresAt = expiresAt]
                           ELSE lease : lease \in resourceLeases}
     /\ UNCHANGED <<workerInstances, claimingPaused, hostRestartClaimFence,
                    bootIdentity, now>>

(* Output and progress of the action only advance the row's timestamp.     *)
AppendClaimEvent(w, r, token, at) ==
  /\ ClaimFence(w, r, token, at)
  /\ jobRuns' = [jobRuns EXCEPT ![r].updatedAt = Latest(@, at)]
  /\ UNCHANGED <<resourceLeases, workerInstances, claimingPaused,
                 hostRestartClaimFence, bootIdentity, now>>

(* Mutant: the holder's outcome counts although a request is stored.       *)
EffectiveOutcomeAsRequested(r, requested) == requested

(* A stored cancellation request overrides every outcome but success.      *)
EffectiveOutcome(r, requested) ==
  IF jobRuns[r].cancelRequested /\ requested # "succeeded" THEN "cancelled" ELSE requested

(* Mutant: the attempt limit is not looked at.                             *)
MayRetryPastLimit(r, outcome, retryable) == outcome = "failed" /\ retryable /\ RetrySafe[r]

MayRetry(r, outcome, retryable) ==
  /\ outcome = "failed"
  /\ retryable
  /\ RetrySafe[r]
  /\ jobRuns[r].attemptCount < jobRuns[r].attemptLimit

(* retryable: the holder offers a retry instant with a failed outcome.  A  *)
(* holder reports "cancelled" only after it read the stored request.       *)
SettleClaim(w, r, token, at, requested, retryable) ==
  LET outcome == EffectiveOutcome(r, requested)
      settledAt == Latest(jobRuns[r].updatedAt, at)
      retryAt == Latest(settledAt, at + RetryDelay[jobRuns[r].attemptCount])
  IN /\ ClaimFence(w, r, token, at)
     /\ requested = "cancelled" => jobRuns[r].cancelRequested
     /\ jobRuns' = [jobRuns EXCEPT ![r] =
                      IF MayRetry(r, outcome, retryable) THEN Requeued(@, settledAt, retryAt)
                      ELSE Finished(@, outcome, settledAt)]
     /\ resourceLeases' = resourceLeases \ HeldBy(r)
     /\ UNCHANGED <<workerInstances, claimingPaused, hostRestartClaimFence,
                    bootIdentity, now>>

(* Mutant: a lease is taken for expired one instant early.                 *)
ExpiredEarly(r, at) == Running(r) /\ jobRuns[r].leaseExpiresAt <= at + 1

Expired(r, at) == Running(r) /\ jobRuns[r].leaseExpiresAt <= at

(* Mutants: recovery forgets the retry safety, or the stored request.      *)
RecoveredUnsafely(r, at, delay) ==
  LET recoveredAt == Latest(jobRuns[r].updatedAt, at)
  IN IF jobRuns[r].attemptCount < jobRuns[r].attemptLimit
     THEN Requeued(jobRuns[r], recoveredAt, recoveredAt)
     ELSE Finished(jobRuns[r], "failed", recoveredAt)

RecoveredUncancelled(r, at, delay) ==
  LET recoveredAt == Latest(jobRuns[r].updatedAt, at)
  IN IF RetrySafe[r] /\ jobRuns[r].attemptCount < jobRuns[r].attemptLimit
     THEN Requeued(jobRuns[r], recoveredAt, recoveredAt)
     ELSE Finished(jobRuns[r], "failed", recoveredAt)

Recovered(r, at, delay) ==
  LET row == jobRuns[r]
      recoveredAt == Latest(row.updatedAt, at)
  IN IF row.cancelRequested THEN Finished(row, "cancelled", recoveredAt)
     ELSE IF RetrySafe[r] /\ row.attemptCount < row.attemptLimit
     THEN Requeued(row, recoveredAt, Latest(recoveredAt, at + delay[row.attemptCount]))
     ELSE Finished(row, "failed", recoveredAt)

(* A claim loop recovers every expired claim with the retry delay; release *)
(* startup recovers the one delivery run it names, at once.                *)
RecoverExpiredClaims(scope, delay, at) ==
  LET expired == {r \in scope : Expired(r, at)}
  IN /\ expired # {}
     /\ jobRuns' = [r \in Runs |-> IF r \in expired THEN Recovered(r, at, delay)
                                                    ELSE jobRuns[r]]
     /\ resourceLeases' = resourceLeases \ UNION {HeldBy(r) : r \in expired}
     /\ UNCHANGED <<workerInstances, claimingPaused, hostRestartClaimFence,
                    bootIdentity, now>>

-----------------------------------------------------------------------------
(* The host restart fence                                                  *)

(* Mutant: the other running claims are not looked at.                     *)
MayArmFenceBesideOthers(w, r, token, at) ==
  r \in HostRestartRuns /\ ClaimFence(w, r, token, at)

MayArmFence(w, r, token, at) ==
  /\ r \in HostRestartRuns
  /\ ClaimFence(w, r, token, at)
  /\ \A q \in Runs : Running(q) => q = r

(* Refused while a live fence stands; a dead one is dropped either way.    *)
ArmHostRestartClaimFence(w, r, token, at) ==
  /\ ~FenceLive(at)
  /\ hostRestartClaimFence' =
       IF MayArmFence(w, r, token, at)
       THEN [run |-> r, worker |-> w, token |-> token, boot |-> bootIdentity,
             expiresAt |-> at + FenceDuration]
       ELSE NoFence
  /\ UNCHANGED <<jobRuns, resourceLeases, workerInstances, claimingPaused,
                 bootIdentity, now>>

(* The holder clears exactly the fence it armed.                           *)
ClearHostRestartClaimFence(w, r, token) ==
  /\ hostRestartClaimFence # NoFence
  /\ hostRestartClaimFence.run = r
  /\ hostRestartClaimFence.worker = w
  /\ hostRestartClaimFence.token = token
  /\ hostRestartClaimFence.boot = bootIdentity
  /\ hostRestartClaimFence' = NoFence
  /\ UNCHANGED <<jobRuns, resourceLeases, workerInstances, claimingPaused,
                 bootIdentity, now>>

-----------------------------------------------------------------------------
(* Workers and the operator                                                *)

RegisterWorker(w, at) ==
  /\ workerInstances[w].state = "unregistered"
  /\ workerInstances' = [workerInstances EXCEPT ![w] =
                           [state |-> "online", heartbeatAt |-> at]]
  /\ UNCHANGED <<jobRuns, resourceLeases, claimingPaused, hostRestartClaimFence,
                 bootIdentity, now>>

HeartbeatWorker(w, at) ==
  /\ workerInstances[w].state \in {"online", "draining"}
  /\ workerInstances' = [workerInstances EXCEPT ![w].heartbeatAt = Latest(@, at)]
  /\ UNCHANGED <<jobRuns, resourceLeases, claimingPaused, hostRestartClaimFence,
                 bootIdentity, now>>

BeginWorkerDrain(w, at) ==
  /\ workerInstances[w].state = "online"
  /\ workerInstances' = [workerInstances EXCEPT ![w] =
                           [state |-> "draining", heartbeatAt |-> Latest(@.heartbeatAt, at)]]
  /\ UNCHANGED <<jobRuns, resourceLeases, claimingPaused, hostRestartClaimFence,
                 bootIdentity, now>>

StopWorker(w, at) ==
  /\ workerInstances[w].state = "draining"
  /\ OwnedBy(w) = {}
  /\ workerInstances' = [workerInstances EXCEPT ![w] =
                           [state |-> "stopped", heartbeatAt |-> Latest(@.heartbeatAt, at)]]
  /\ UNCHANGED <<jobRuns, resourceLeases, claimingPaused, hostRestartClaimFence,
                 bootIdentity, now>>

SetClaimingPaused ==
  /\ claimingPaused' = ~claimingPaused
  /\ UNCHANGED <<jobRuns, resourceLeases, workerInstances, hostRestartClaimFence,
                 bootIdentity, now>>

-----------------------------------------------------------------------------
(* The environment                                                         *)

Tick ==
  /\ now < MaxTime
  /\ now' = now + 1
  /\ UNCHANGED <<jobRuns, resourceLeases, workerInstances, claimingPaused,
                 hostRestartClaimFence, bootIdentity>>

(* The tables survive a reboot of the host; the boot identity does not.    *)
HostRestart ==
  \E boot \in 1..MaxBoot :
    /\ boot > bootIdentity
    /\ bootIdentity' = boot
    /\ UNCHANGED <<jobRuns, resourceLeases, workerInstances, claimingPaused,
                   hostRestartClaimFence, now>>

-----------------------------------------------------------------------------
NoDelay == [n \in 1..AttemptMaximum |-> 0]

(* Any process may present any token it was ever given, at any time.       *)
ClaimHolderStep(w, r, token, at) ==
  \/ RenewClaim(w, r, token, at)
  \/ AppendClaimEvent(w, r, token, at)
  \/ \E requested \in TerminalStates, retryable \in BOOLEAN :
       SettleClaim(w, r, token, at, requested, retryable)
  \/ ArmHostRestartClaimFence(w, r, token, at)
  \/ ClearHostRestartClaimFence(w, r, token)

RunStep(r, at) ==
  \/ EnqueueRun(r, at)
  \/ CancelRun(r, at)
  \/ r \in ScheduledRuns /\ DisableSchedule(r, at)
  \/ RecoverDeliveryProductionTerminalRun(r, at)
  \/ r \in DeliveryRuns /\ RecoverExpiredClaims({r}, NoDelay, at)

WorkerStep(w, at) ==
  \/ RegisterWorker(w, at)
  \/ HeartbeatWorker(w, at)
  \/ BeginWorkerDrain(w, at)
  \/ StopWorker(w, at)
  \/ ClaimNextRun(w, at)

Next ==
  \/ \E at \in Instants :
       \/ \E r \in Runs : RunStep(r, at)
       \/ \E w \in Workers : WorkerStep(w, at)
       \/ \E w \in Workers, r \in Runs, token \in 1..AttemptMaximum :
            ClaimHolderStep(w, r, token, at)
       \/ \E retired \in SUBSET ScheduledRuns : RetireSchedules(retired, at)
       \/ RecoverExpiredClaims(Runs, RetryDelay, at)
  \/ SetClaimingPaused
  \/ Tick
  \/ HostRestart

Spec == Init /\ [][Next]_vars

-----------------------------------------------------------------------------
(* Properties                                                              *)

(* Every row keeps the type of its table.                                  *)
TypeOK ==
  /\ jobRuns \in [Runs -> RunRow]
  /\ resourceLeases \subseteq LeaseRow
  /\ workerInstances \in [Workers -> WorkerRow]
  /\ claimingPaused \in BOOLEAN
  /\ hostRestartClaimFence \in FenceRow \cup {NoFence}
  /\ bootIdentity \in Nat
  /\ now \in Nat

(* The lease rows are exactly the keys of the running claims, each with    *)
(* the owner, token and expiry of its claim, and no key is held twice.     *)
(* Renewal and release throw "lease set is incomplete" and the insertion   *)
(* of a claim violates the primary key wherever this fails.                *)
ResourceLeasesMatchClaims ==
  /\ resourceLeases =
       UNION {LeasesOf(r, jobRuns[r].leaseOwner, jobRuns[r]) : r \in {q \in Runs : Running(q)}}
  /\ \A p, q \in Runs : Running(p) /\ Running(q) /\ p # q =>
       ResourceKeys[p] \cap ResourceKeys[q] = {}

(* claimNextRun never looks at the attempt limit or at retry safety: that  *)
(* a claim stays within them rests on what settlement and recovery requeue *)
(* over the whole life of the run.  In particular an action that is not    *)
(* retry-safe is claimed at most once.                                     *)
AttemptBudget ==
  \A r \in Runs :
    /\ jobRuns[r].attemptCount <= jobRuns[r].attemptLimit
    /\ jobRuns[r].attemptLimit <= AttemptMaximum
    /\ Queued(r) => jobRuns[r].attemptCount < jobRuns[r].attemptLimit
    /\ ~RetrySafe[r] => jobRuns[r].attemptCount <= 1
    /\ Queued(r) /\ ~RetrySafe[r] => jobRuns[r].attemptCount = 0

(* Claims against registration, heartbeat and drain: only an online worker *)
(* takes a claim, so that those of a draining one only become fewer; a     *)
(* worker holds at most its capacity of one, and one that stopped left     *)
(* none behind, though a claim may be lost, settled or recovered between   *)
(* the drain and the stop.                                                 *)
WorkerClaims ==
  [][\A w \in Workers : \A r \in OwnedBy(w)' :
       /\ OwnedBy(w)' = {r}
       /\ workerInstances'[w].state \in {"online", "draining"}
       /\ r \in OwnedBy(w) \/ workerInstances[w].state = "online"]_vars

(* While the fence of the current boot stands, the restart action that     *)
(* armed it is the only run that may be running: the host never reboots    *)
(* under another claim.                                                    *)
RestartExcludesOtherClaims ==
  hostRestartClaimFence # NoFence /\ hostRestartClaimFence.boot = bootIdentity =>
    \A r \in Runs : Running(r) => r = hostRestartClaimFence.run

(* A stored cancellation request is never lost: the run goes on until its  *)
(* holder or lease recovery ends it, and ends cancelled unless it had      *)
(* already succeeded.                                                      *)
CancellationWins ==
  [][\A r \in Runs :
       Running(r) /\ jobRuns[r].cancelRequested /\ jobRuns'[r] # jobRuns[r] =>
         /\ jobRuns'[r].state \in {"running", "cancelled", "succeeded"}
         /\ jobRuns'[r].cancelRequested]_vars

HolderSettles(r) ==
  \E at \in Instants, requested \in TerminalStates, retryable \in BOOLEAN :
    SettleClaim(jobRuns[r].leaseOwner, r, jobRuns[r].leaseToken, at, requested, retryable)

ClaimsRecovered ==
  \E at \in Instants :
    \/ RecoverExpiredClaims(Runs, RetryDelay, at)
    \/ \E r \in DeliveryRuns : RecoverExpiredClaims({r}, NoDelay, at)

(* No lease is taken back before it ran out.  While a run is running it    *)
(* keeps its claim, and the expiry only advances; while the lease is live  *)
(* at the clock the run stops running only by the settlement of its        *)
(* holder, and by no recovery, whichever instants the two carry.           *)
LeaseOnlyAdvances ==
  [][\A r \in Runs : Running(r) =>
       IF jobRuns'[r].state = "running"
       THEN /\ jobRuns'[r].leaseToken = jobRuns[r].leaseToken
            /\ jobRuns'[r].leaseOwner = jobRuns[r].leaseOwner
            /\ jobRuns'[r].leaseExpiresAt >= jobRuns[r].leaseExpiresAt
       ELSE jobRuns[r].leaseExpiresAt > now => HolderSettles(r) /\ ~ClaimsRecovered]_vars

(* No transaction of the repository is aborted by the constraints and      *)
(* triggers of job_runs.                                                   *)
Lifecycle == INSTANCE JobRunLifecycle WITH rows <- jobRuns
ImplementsLifecycle == Lifecycle!LifecycleSpec

=============================================================================
