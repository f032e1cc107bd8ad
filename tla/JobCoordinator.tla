--------------------------- MODULE JobCoordinator ---------------------------
(***************************************************************************)
(* The worker processes that drive the job queue: the claim loop of        *)
(* createJobWorkerCoordinator, the execution of a claim with its monitor,  *)
(* and the drain (server/domains/jobs/coordinator.ts), composed with the   *)
(* transactions of module JobQueue.                                        *)
(*                                                                         *)
(* Every wait of a process is a point where others run: between the two    *)
(* transactions of a claim pass, which share one instant; between a poll   *)
(* of the monitor and the renewal it decided on; between the end of an     *)
(* action and its settlement; between the drain of the worker row and the  *)
(* abort of the loops.                                                     *)
(*                                                                         *)
(* The clock has no end: `now` stays at Horizon and the passing of time    *)
(* makes every stored instant older, no older than 0.  An instant of 0 is  *)
(* long past, and the code compares instants only with each other.         *)
(*                                                                         *)
(* Not represented: pausing and host restarts (module JobQueue), the page  *)
(* cursor of the claim loop, the heartbeat and schedule loops apart from   *)
(* the heartbeat they write, and afterSuccessfulSettlement.                *)
(***************************************************************************)
EXTENDS JobQueue

CONSTANTS
  Horizon,       (* the instant called now                                       *)
  RenewInterval, (* claim age at which the monitor renews                        *)
  Immortal,      (* the workers whose process never crashes and takes its due
                    steps before time passes                                     *)
  Drainable      (* the workers whose process may be told to drain               *)

(* What a process has in its hands while it has no claim.                  *)
NoClaim == "none"

ASSUME CoordinatorConstants ==
  /\ NoClaim \notin Runs
  /\ Horizon \in Nat
  /\ Horizon > LeaseDuration
  /\ Horizon > Freshness
  /\ RenewInterval \in Nat \ {0}
  /\ Immortal \subseteq Workers
  /\ Drainable \subseteq Workers \ Immortal

VARIABLE process  (* process[w]: the local state of the process of worker w      *)

coordinatorVars == <<jobRuns, resourceLeases, workerInstances, claimingPaused,
                     hostRestartClaimFence, bootIdentity, now, process>>

(* pc: where the claim loop stands.  at: the instant its next transaction  *)
(* carries.  run, token, expiresAt: the claim as the process knows it.     *)
(* stop: the first reason its action was aborted for.  polledAt, renewDue, *)
(* renewing: the monitor.  outcome, retryable: what settlement will ask.   *)
(* drain: how far dispose has come.  A field that no longer matters is     *)
(* back at its value in Idle.                                              *)
Idle ==
  [pc |-> "idle", at |-> 0, run |-> NoClaim, token |-> 0, expiresAt |-> 0,
   stop |-> "none", polledAt |-> 0, renewDue |-> 0, renewing |-> FALSE,
   outcome |-> "none", retryable |-> FALSE, drain |-> "no"]

Set(w, record) == process' = [process EXCEPT ![w] = record]

(* The process drops its claim and the loop begins its next pass.          *)
NextPass(w) == [Idle EXCEPT !.drain = process[w].drain]

(* Mutant: a loop that failed or was aborted goes on.                      *)
LoopGoesOn(w) == NextPass(w)

LoopEnded(w) == [NextPass(w) EXCEPT !.pc = "ended"]

Alive(w) == process[w].pc \notin {"down", "exited"}
Aborted(w) == process[w].drain = "aborted"
Executing(w, r) == process[w].pc = "executing" /\ process[w].run = r

CoordinatorInit ==
  /\ jobRuns = [r \in Runs |-> AbsentRow(r)]
  /\ resourceLeases = {}
  /\ workerInstances = [w \in Workers |-> [state |-> "unregistered", heartbeatAt |-> 0]]
  /\ claimingPaused = FALSE
  /\ hostRestartClaimFence = NoFence
  /\ bootIdentity = 0
  /\ now = Horizon
  /\ process = [w \in Workers |-> [Idle EXCEPT !.pc = "down"]]

-----------------------------------------------------------------------------
(* The claim loop                                                          *)

Initialize(w) ==
  /\ process[w].pc = "down"
  /\ RegisterWorker(w, now)
  /\ Set(w, Idle)

Heartbeat(w) ==
  /\ Alive(w)
  /\ workerInstances[w].heartbeatAt < now
  /\ HeartbeatWorker(w, now)
  /\ UNCHANGED process

(* An aborted loop ends where its pass ends.                               *)
BeginPass(w) ==
  /\ process[w].pc = "idle"
  /\ Set(w, IF Aborted(w) THEN LoopEnded(w)
            ELSE [process[w] EXCEPT !.pc = "recovering", !.at = now])
  /\ UNCHANGED vars

(* Mutant: the pass claims without recovering expired claims first.        *)
RecoverPassSkipped(w) ==
  /\ process[w].pc = "recovering"
  /\ Set(w, IF Aborted(w) THEN LoopEnded(w) ELSE [process[w] EXCEPT !.pc = "claiming"])
  /\ UNCHANGED vars

RecoverPass(w) ==
  /\ process[w].pc = "recovering"
  /\ \/ RecoverExpiredClaims(Runs, RetryDelay, process[w].at)
     \/ /\ \A r \in Runs : ~Expired(r, process[w].at)
        /\ UNCHANGED vars
  /\ Set(w, IF Aborted(w) THEN LoopEnded(w) ELSE [process[w] EXCEPT !.pc = "claiming"])

(* The first reason to stop an action is the one that counts; the monitor  *)
(* stops with it.                                                          *)
Stopped(self, reason) ==
  IF self.stop = "none" THEN [self EXCEPT !.stop = reason, !.polledAt = 0, !.renewDue = 0]
                        ELSE self

(* Mutant: the monitor neither waits nor schedules its next renewal.       *)
WatchedAtOnce(self, renewDue) == self

Watched(self, renewDue) ==
  IF self.stop = "none" THEN [self EXCEPT !.polledAt = now, !.renewDue = renewDue] ELSE self

(* An abort that overtakes the answer of the claim is the abort of an      *)
(* action that just began: the worker row drains before the loops abort,   *)
(* so no transaction claims for an aborted loop.                           *)
Started(w, r) ==
  Watched([NextPass(w) EXCEPT !.pc = "executing",
                              !.run = r,
                              !.token = jobRuns'[r].leaseToken,
                              !.expiresAt = jobRuns'[r].leaseExpiresAt],
          jobRuns'[r].updatedAt + RenewInterval)

(* A worker that may not claim throws, which ends every loop; nothing to   *)
(* claim begins the next pass.                                             *)
ClaimPass(w) ==
  /\ process[w].pc = "claiming"
  /\ ClaimNextRun(w, process[w].at)
  /\ \/ \E r \in Runs :
          /\ jobRuns'[r] # jobRuns[r]
          /\ Set(w, Started(w, r))
     \/ /\ jobRuns' = jobRuns
        /\ Set(w, IF WorkerMayClaim(w, process[w].at) THEN NextPass(w) ELSE LoopEnded(w))

-----------------------------------------------------------------------------
(* The execution of a claim                                                *)

Timeout(w) ==
  /\ process[w].pc = "executing"
  /\ process[w].stop = "none"
  /\ Set(w, Stopped(process[w], "timed-out"))
  /\ UNCHANGED vars

PollDue(w) ==
  /\ process[w].pc = "executing"
  /\ process[w].stop = "none"
  /\ ~process[w].renewing
  /\ process[w].polledAt < now

(* The monitor wakes after its poll interval, reads the claim, and either  *)
(* stops the action or decides whether a renewal is due.                   *)
MonitorPoll(w) ==
  LET self == process[w]
  IN /\ PollDue(w)
     /\ IF ~ClaimFence(w, self.run, self.token, now) THEN Set(w, Stopped(self, "claim-lost"))
        ELSE IF jobRuns[self.run].cancelRequested THEN Set(w, Stopped(self, "cancelled"))
        ELSE IF now < self.renewDue THEN Set(w, [self EXCEPT !.polledAt = now])
        ELSE Set(w, [self EXCEPT !.polledAt = now, !.renewing = TRUE, !.at = now])
     /\ UNCHANGED vars

Renew(w) ==
  LET self == process[w]
  IN /\ self.pc = "executing"
     /\ self.renewing
     /\ \/ /\ RenewClaim(w, self.run, self.token, self.at)
           /\ Set(w, Watched([self EXCEPT !.renewing = FALSE, !.at = 0,
                                  !.expiresAt = jobRuns'[self.run].leaseExpiresAt],
                          self.at + RenewInterval))
        \/ /\ ~ClaimFence(w, self.run, self.token, self.at)
           /\ Set(w, [Stopped(self, "claim-lost") EXCEPT !.renewing = FALSE, !.at = 0])
           /\ UNCHANGED vars

(* Output of the action.  A lost claim fails the write, not the action.    *)
WriteOutput(w) ==
  /\ process[w].pc = "executing"
  /\ AppendClaimEvent(w, process[w].run, process[w].token, now)
  /\ UNCHANGED process

(* The action ends by itself, with or without success, or because it was   *)
(* stopped; success counts whatever it was stopped for.  A failure is      *)
(* retryable when the action says so or the worker shuts down, never when  *)
(* its effect is unknown.  A renewal in flight is awaited first.  After a  *)
(* lost claim nothing is settled.                                          *)
FinishAction(w, succeeded, retryable) ==
  LET self == process[w]
      outcome == CASE succeeded -> "succeeded"
                   [] ~succeeded /\ self.stop \in {"timed-out", "cancelled"} -> self.stop
                   [] OTHER -> "failed"
  IN /\ self.pc = "executing"
     /\ ~self.renewing
     /\ Set(w, IF self.stop = "claim-lost" THEN NextPass(w)
               ELSE [NextPass(w) EXCEPT
                       !.pc = "settling", !.at = now, !.run = self.run, !.token = self.token,
                       !.outcome = outcome, !.retryable = outcome = "failed" /\ retryable])
     /\ UNCHANGED vars

(* A claim that was lost meanwhile is settled by whoever took it.          *)
Settle(w) ==
  LET self == process[w]
  IN /\ self.pc = "settling"
     /\ \/ SettleClaim(w, self.run, self.token, self.at, self.outcome, self.retryable)
        \/ /\ ~ClaimFence(w, self.run, self.token, self.at)
           /\ UNCHANGED vars
     /\ Set(w, NextPass(w))

-----------------------------------------------------------------------------
(* The drain, on a signal or after a failed loop: mark the row, abort the  *)
(* loops, wait for the claim loop, mark the row stopped, exit.             *)

DrainWorker(w) ==
  /\ Alive(w)
  /\ w \in Drainable
  /\ process[w].drain = "no"
  /\ BeginWorkerDrain(w, now)
  /\ Set(w, [process[w] EXCEPT !.drain = "draining"])

AbortLoops(w) ==
  /\ process[w].drain = "draining"
  /\ LET self == [process[w] EXCEPT !.drain = "aborted"]
     IN Set(w, IF self.pc = "executing" THEN Stopped(self, "shutdown") ELSE self)
  /\ UNCHANGED vars

Exit(w) ==
  /\ process[w].pc = "ended"
  /\ Aborted(w)
  /\ \/ StopWorker(w, now)
     \/ /\ workerInstances[w].state # "draining" \/ OwnedBy(w) # {}
        /\ UNCHANGED vars
  /\ Set(w, [Idle EXCEPT !.pc = "exited"])

(* A forced drain gives up on the action; the row cannot be stopped while  *)
(* the claim is running.                                                   *)
ForceExit(w) ==
  /\ process[w].pc \in {"executing", "settling"}
  /\ Aborted(w)
  /\ \/ StopWorker(w, now)
     \/ OwnedBy(w) # {} /\ UNCHANGED vars
  /\ Set(w, [Idle EXCEPT !.pc = "exited"])

Crash(w) ==
  /\ Alive(w)
  /\ w \notin Immortal
  /\ Set(w, [Idle EXCEPT !.pc = "exited"])
  /\ UNCHANGED vars

-----------------------------------------------------------------------------
(* The web process and the clock                                           *)

Enqueue(r) == EnqueueRun(r, now) /\ UNCHANGED process
Cancel(r) == CancelRun(r, now) /\ UNCHANGED process

Aged(t) == IF t > 0 THEN t - 1 ELSE 0

(* An immortal process has done what was due at this instant.              *)
Punctual(w) ==
  LET self == process[w]
  IN /\ self.pc # "down"
     /\ workerInstances[w].heartbeatAt = now
     /\ self.pc \in {"recovering", "claiming", "settling"} => self.at = now
     /\ self.pc = "executing" => self.stop = "none" /\ ~self.renewing /\ self.polledAt = now

PassTime ==
  /\ \A w \in Immortal : Punctual(w)
  /\ jobRuns' = [r \in Runs |->
       [jobRuns[r] EXCEPT !.availableAt = Aged(@), !.updatedAt = Aged(@),
                          !.leaseExpiresAt = Aged(@)]]
  /\ resourceLeases' = {[lease EXCEPT !.expiresAt = Aged(@)] : lease \in resourceLeases}
  /\ workerInstances' = [w \in Workers |->
       [workerInstances[w] EXCEPT !.heartbeatAt = Aged(@)]]
  /\ process' = [w \in Workers |->
       [process[w] EXCEPT !.at = Aged(@), !.expiresAt = Aged(@), !.polledAt = Aged(@),
                          !.renewDue = Aged(@)]]
  /\ UNCHANGED <<claimingPaused, hostRestartClaimFence, bootIdentity, now>>

-----------------------------------------------------------------------------
ActionEnds(w) ==
  \E succeeded, retryable \in BOOLEAN : FinishAction(w, succeeded, retryable)

(* The loop of a process, up to the next thing it waits for.               *)
LoopStep(w) ==
  \/ Initialize(w)
  \/ BeginPass(w) \/ RecoverPass(w) \/ ClaimPass(w)
  \/ MonitorPoll(w) \/ Renew(w)
  \/ process[w].stop # "none" /\ ActionEnds(w)
  \/ Settle(w)
  \/ Exit(w)

CoordinatorNext ==
  \/ \E w \in Workers :
       \/ LoopStep(w) \/ Heartbeat(w) \/ ActionEnds(w) \/ WriteOutput(w) \/ Timeout(w)
       \/ DrainWorker(w) \/ AbortLoops(w) \/ ForceExit(w) \/ Crash(w)
  \/ \E r \in Runs : Enqueue(r) \/ Cancel(r)
  \/ PassTime

CoordinatorSpec == CoordinatorInit /\ [][CoordinatorNext]_coordinatorVars

(* Timers fire, promises settle and time passes; an action that is told to *)
(* stop ends.  When an action ends by itself, and what operators and       *)
(* crashes do, is open.                                                    *)
CoordinatorFairness ==
  /\ WF_coordinatorVars(PassTime)
  /\ \A w \in Workers :
       /\ WF_coordinatorVars(LoopStep(w))
       /\ WF_coordinatorVars(Timeout(w))
       /\ WF_coordinatorVars(AbortLoops(w))
  /\ \A w \in Immortal : WF_coordinatorVars(Heartbeat(w))

CoordinatorFairSpec == CoordinatorSpec /\ CoordinatorFairness

-----------------------------------------------------------------------------
(* Properties                                                              *)

(* Every process is in a state of its loop, and remembers a run exactly    *)
(* while it executes or settles one.                                       *)
CoordinatorTypeOK ==
  \A w \in Workers :
    /\ process[w].pc \in {"down", "idle", "recovering", "claiming", "executing",
                          "settling", "ended", "exited"}
    /\ process[w].run \in Runs \cup {NoClaim}
    /\ process[w].run # NoClaim <=> process[w].pc \in {"executing", "settling"}
    /\ process[w].drain \in {"no", "draining", "aborted"}

(* A process whose lease, as far as it knows, has not run out still holds  *)
(* the claim, whatever the other workers did with instants they read long  *)
(* before: two workers execute one run only after the lease of the first   *)
(* ended.                                                                  *)
LeaseIsExclusive ==
  \A w \in Workers :
    process[w].pc = "executing" /\ process[w].expiresAt > now =>
      ClaimFence(w, process[w].run, process[w].token, now)

(* An action that must not be repeated is never executed by two workers,   *)
(* not even by one that lost its lease and has not noticed.                *)
UnsafeActionsRunOnce ==
  \A v, w \in Workers, r \in Runs :
    v # w /\ Executing(v, r) /\ Executing(w, r) => RetrySafe[r]

(* When the loop comes to claim again, its last claim is over, also when   *)
(* it lost the claim or the settlement.  The queue would answer a worker   *)
(* at capacity like an unknown one and the process would stop itself.      *)
ClaimLoopNeverAtCapacity ==
  \A w \in Workers : process[w].pc = "claiming" => OwnedBy(w) = {}

(* The loop keeps to its stages, and always comes back to the claim with   *)
(* nothing in its hands.                                                   *)
CoordinatorConsistent == CoordinatorTypeOK /\ ClaimLoopNeverAtCapacity

(* A renewal always finds its lease expiring before the new one, although  *)
(* output may have moved the row's timestamp past the instant the monitor  *)
(* read: the transaction would throw and fail the whole worker.            *)
RenewalNeverThrows ==
  \A w \in Workers :
    LET self == process[w]
    IN self.pc = "executing" /\ self.renewing
         /\ ClaimFence(w, self.run, self.token, self.at) =>
       Latest(jobRuns[self.run].updatedAt, self.at) + LeaseDuration
         > jobRuns[self.run].leaseExpiresAt

(* As long as one worker lives, every queued run comes to an end, whoever  *)
(* crashed, stalled or was drained while holding it.                       *)
RunsFinish ==
  \A r \in Runs : Queued(r) ~> jobRuns[r].state \in TerminalStates

(* A drain comes to its end without being forced.                          *)
DrainEnds ==
  \A w \in Workers : process[w].drain # "no" ~> process[w].pc = "exited"

=============================================================================
