------------------------- MODULE AuthenticationWork -------------------------
(***************************************************************************)
(* One gate of AuthenticationWorkService: bounded admission, bounded active *)
(* work, and calls whose caller may stop waiting while the work goes on.     *)
(* Each call has a caller fiber and a worker fiber; whichever of result,      *)
(* failure, timeout and cancellation claims the settlement first has its      *)
(* durable callback run, and the work's permits wait for it.                  *)
(***************************************************************************)
EXTENDS Integers, FiniteSets

CONSTANTS
    Calls,              \* the verification calls made of the gate
    MaximumConcurrent,  \* permits of gate.active
    MaximumQueued       \* further permits of gate.admitted

ASSUME GateAssumption ==
    /\ MaximumConcurrent \in Nat \ {0}
    /\ MaximumQueued \in Nat

VARIABLES
    active,       \* free permits of gate.active
    admitted,     \* free permits of gate.admitted
    caller,       \* where the caller's fiber is
    outcome,      \* what the caller was answered
    worker,       \* where the worker's fiber is
    started,      \* workerState.started
    interrupted,  \* workerState.callerInterrupted
    aborted,      \* controller.signal.aborted
    work,         \* the Promise of the work itself
    claim,        \* settlementState.claim.source
    settlement    \* the promise of that claim

permits == <<active, admitted>>
callerVars == <<caller, outcome>>
signals == <<interrupted, aborted>>
settlementVars == <<claim, settlement>>
workerVars == <<worker, started, work>>
vars == <<permits, callerVars, workerVars, signals, settlementVars>>

HoldsActive == {"running", "settling", "ending", "cancelling"}
HoldsAdmission == HoldsActive \cup {"queued", "releasing"}
Settled(c) == settlement[c] \in {"ok", "rejected"}

Init ==
    /\ active = MaximumConcurrent
    /\ admitted = MaximumConcurrent + MaximumQueued
    /\ caller = [c \in Calls |-> "idle"]
    /\ outcome = [c \in Calls |-> "none"]
    /\ worker = [c \in Calls |-> "none"]
    /\ started = [c \in Calls |-> FALSE]
    /\ interrupted = [c \in Calls |-> FALSE]
    /\ aborted = [c \in Calls |-> FALSE]
    /\ work = [c \in Calls |-> "none"]
    /\ claim = [c \in Calls |-> "none"]
    /\ settlement = [c \in Calls |-> "none"]

\* beginSettlement: the first source owns the settlement, later ones join it.
BeginSettlement(c, source) ==
    IF claim[c] = "none"
    THEN /\ claim' = [claim EXCEPT ![c] = source]
         /\ settlement' = [settlement EXCEPT ![c] = "pending"]
    ELSE UNCHANGED settlementVars

Answer(c, answer) ==
    /\ caller' = [caller EXCEPT ![c] = "returned"]
    /\ outcome' = [outcome EXCEPT ![c] = answer]
-----------------------------------------------------------------------------
(* Admission.                                                                *)

Admit(c) ==
    /\ caller[c] = "idle"
    /\ admitted > 0
    /\ admitted' = admitted - 1
    /\ caller' = [caller EXCEPT ![c] = "waiting"]
    /\ worker' = [worker EXCEPT ![c] = "queued"]
    /\ UNCHANGED <<active, outcome, started, work, signals, settlementVars>>

RejectAtCapacity(c) ==
    /\ caller[c] = "idle"
    /\ admitted = 0
    /\ Answer(c, "capacity")
    /\ UNCHANGED <<permits, workerVars, signals, settlementVars>>
-----------------------------------------------------------------------------
(* The worker fiber.                                                         *)

\* An abort that arrives with the permit still finds the work not begun.
Start(c) ==
    /\ worker[c] = "queued"
    /\ active > 0
    /\ active' = active - 1
    /\ started' = [started EXCEPT ![c] = TRUE]
    /\ worker' = [worker EXCEPT ![c] = IF aborted[c] THEN "ending" ELSE "running"]
    /\ work' = [work EXCEPT ![c] = IF aborted[c] THEN "none" ELSE "pending"]
    /\ UNCHANGED <<admitted, callerVars, signals, settlementVars>>

LeaveQueue(c) ==
    /\ worker[c] = "queued"
    /\ aborted[c]
    /\ worker' = [worker EXCEPT ![c] = "releasing"]
    /\ UNCHANGED <<permits, callerVars, started, work, signals, settlementVars>>

\* The Promise settles when it likes; an abort signal may or may not make it.
SettleWork(c, result) ==
    /\ work[c] = "pending"
    /\ work' = [work EXCEPT ![c] = result]
    /\ UNCHANGED <<permits, callerVars, worker, started, signals, settlementVars>>

\* notifyResultBeforeRelease and notifyFailureBeforeRelease.
NotifyWork(c) ==
    /\ worker[c] = "running"
    /\ work[c] \in {"result", "failure"}
    /\ IF interrupted[c]
       THEN worker' = [worker EXCEPT ![c] = "ending"] /\ UNCHANGED settlementVars
       ELSE /\ worker' = [worker EXCEPT ![c] = "settling"]
            /\ BeginSettlement(c, work[c])
    /\ UNCHANGED <<permits, callerVars, started, work, signals>>

(* Mutant: the worker does not wait for the settlement it joined.             *)
EndWithoutAwaiting(c) ==
    /\ worker[c] = "settling"
    /\ worker' = [worker EXCEPT ![c] = "ending"]
    /\ UNCHANGED <<permits, callerVars, started, work, signals, settlementVars>>

AwaitSettlement(c) ==
    /\ worker[c] = "settling"
    /\ Settled(c)
    /\ worker' = [worker EXCEPT ![c] = "ending"]
    /\ UNCHANGED <<permits, callerVars, started, work, signals, settlementVars>>

ReleaseActive(c) ==
    /\ active' = active + 1
    /\ worker' = [worker EXCEPT ![c] = "releasing"]

\* notifyCancellationBeforeRelease: only work whose caller left settles here.
EndWork(c) ==
    /\ worker[c] = "ending"
    /\ IF interrupted[c]
       THEN /\ worker' = [worker EXCEPT ![c] = "cancelling"]
            /\ BeginSettlement(c, "cancellation")
            /\ UNCHANGED active
       ELSE ReleaseActive(c) /\ UNCHANGED settlementVars
    /\ UNCHANGED <<admitted, callerVars, started, work, signals>>

AwaitCancellation(c) ==
    /\ worker[c] = "cancelling"
    /\ Settled(c)
    /\ ReleaseActive(c)
    /\ UNCHANGED <<admitted, callerVars, started, work, signals, settlementVars>>

(* Mutant: admission waits for a settlement that may never have been claimed. *)
ReleaseSettledAdmission(c) ==
    /\ worker[c] = "releasing"
    /\ Settled(c)
    /\ admitted' = admitted + 1
    /\ worker' = [worker EXCEPT ![c] = "done"]
    /\ UNCHANGED <<active, callerVars, started, work, signals, settlementVars>>

\* releaseWorkerPermits: a settlement in flight still holds the admission.
ReleaseAdmission(c) ==
    /\ worker[c] = "releasing"
    /\ claim[c] = "none" \/ Settled(c)
    /\ admitted' = admitted + 1
    /\ worker' = [worker EXCEPT ![c] = "done"]
    /\ UNCHANGED <<active, callerVars, started, work, signals, settlementVars>>

\* The claimed callback ends, well or not.
Settle(c, result) ==
    /\ settlement[c] = "pending"
    /\ settlement' = [settlement EXCEPT ![c] = result]
    /\ UNCHANGED <<permits, callerVars, workerVars, signals, claim>>
-----------------------------------------------------------------------------
(* The caller's fiber.                                                       *)

(* Mutant: a deadline that finds the settlement claimed aborts all the same.  *)
TimeOutRegardless(c) ==
    /\ caller[c] = "waiting"
    /\ caller' = [caller EXCEPT ![c] = "timedOut"]
    /\ BeginSettlement(c, "timeout")
    /\ aborted' = [aborted EXCEPT ![c] = TRUE]
    /\ UNCHANGED <<permits, outcome, workerVars, interrupted>>

\* The deadline passes before anybody claimed the settlement.
TimeOut(c) ==
    /\ caller[c] = "waiting"
    /\ claim[c] = "none"
    /\ caller' = [caller EXCEPT ![c] = "timedOut"]
    /\ BeginSettlement(c, "timeout")
    /\ aborted' = [aborted EXCEPT ![c] = TRUE]
    /\ UNCHANGED <<permits, outcome, workerVars, interrupted>>

\* A queued worker that was told to stop is awaited, a running one is left behind.
ReturnTimeout(c) ==
    /\ caller[c] = "timedOut"
    /\ Settled(c)
    /\ started[c] \/ worker[c] = "done"
    /\ Answer(c, IF settlement[c] = "ok" THEN "timeout" ELSE "settlement")
    /\ UNCHANGED <<permits, workerVars, signals, settlementVars>>

\* The verification has an outcome, or its fiber has ended: no deadline applies now.
Join(c) ==
    /\ caller[c] = "waiting"
    /\ claim[c] \in {"result", "failure"} \/ worker[c] = "done"
    /\ caller' = [caller EXCEPT ![c] = "joining"]
    /\ UNCHANGED <<permits, outcome, workerVars, signals, settlementVars>>

ReturnJoined(c) ==
    /\ caller[c] = "joining"
    /\ worker[c] = "done"
    /\ Answer(c, IF settlement[c] = "rejected" THEN "settlement" ELSE work[c])
    /\ UNCHANGED <<permits, workerVars, signals, settlementVars>>

\* The request is aborted. A caller waits for its worker only while that is queued.
Interrupt(c) ==
    /\ caller[c] \in {"waiting", "timedOut", "joining"}
    /\ interrupted' = [interrupted EXCEPT ![c] = TRUE]
    /\ aborted' = [aborted EXCEPT ![c] = TRUE]
    /\ IF started[c] THEN Answer(c, "interrupted")
       ELSE caller' = [caller EXCEPT ![c] = "leaving"] /\ UNCHANGED outcome
    /\ UNCHANGED <<permits, workerVars, settlementVars>>

ReturnInterrupted(c) ==
    /\ caller[c] = "leaving"
    /\ worker[c] = "done"
    /\ Answer(c, "interrupted")
    /\ UNCHANGED <<permits, workerVars, signals, settlementVars>>
-----------------------------------------------------------------------------
WorkerStep(c) ==
    \/ Start(c) \/ LeaveQueue(c) \/ NotifyWork(c) \/ AwaitSettlement(c)
    \/ EndWork(c) \/ AwaitCancellation(c) \/ ReleaseAdmission(c)

CallerStep(c) ==
    \/ TimeOut(c) \/ ReturnTimeout(c) \/ Join(c) \/ ReturnJoined(c)
    \/ ReturnInterrupted(c)

SettleStep(c) == \E result \in {"ok", "rejected"} : Settle(c, result)

Next ==
    \E c \in Calls :
        \/ Admit(c) \/ RejectAtCapacity(c)
        \/ WorkerStep(c)
        \/ CallerStep(c)
        \/ Interrupt(c)
        \/ SettleStep(c)
        \/ \E result \in {"result", "failure"} : SettleWork(c, result)

Spec == Init /\ [][Next]_vars

\* Fibers run, deadlines pass and callbacks end. The work itself may never end.
Fairness ==
    \A c \in Calls :
        WF_vars(WorkerStep(c)) /\ WF_vars(CallerStep(c)) /\ WF_vars(SettleStep(c))

FairSpec == Spec /\ Fairness
-----------------------------------------------------------------------------
(* Properties.                                                               *)

\* Permits and fibers keep their types.
TypeOK ==
    /\ active \in 0..MaximumConcurrent
    /\ admitted \in 0..(MaximumConcurrent + MaximumQueued)
    /\ caller \in [Calls -> {"idle", "waiting", "timedOut", "joining", "leaving",
                             "returned"}]
    /\ outcome \in [Calls -> {"none", "capacity", "timeout", "settlement", "result",
                              "failure", "interrupted"}]
    /\ worker \in [Calls -> HoldsAdmission \cup {"none", "done"}]
    /\ started \in [Calls -> BOOLEAN]
    /\ interrupted \in [Calls -> BOOLEAN]
    /\ aborted \in [Calls -> BOOLEAN]
    /\ work \in [Calls -> {"none", "pending", "result", "failure"}]
    /\ claim \in [Calls -> {"none", "result", "failure", "timeout", "cancellation"}]
    /\ settlement \in [Calls -> {"none", "pending", "ok", "rejected"}]

\* Work that nobody waits for any more still occupies a place, so abandoned hashes
\* cannot pile up ("keeps its permit until settlement", authenticationWorkGate.ts:568);
\* and work that ran gives its permits back only when its settlement is over, so that
\* no later verification of the gate sees a budget that an earlier one has yet to
\* charge (authenticationWorkGate.ts:73-78).
GateKeepsPermits ==
    /\ Cardinality({c \in Calls : work[c] = "pending"}) <= MaximumConcurrent
    /\ \A c \in Calls :
        work[c] # "none" /\ worker[c] \in {"releasing", "done"} => Settled(c)

\* The caller hears of the outcome that was settled: a call answered as verified had
\* its result recorded and not its timeout, and the other way round.
AnswerMatchesSettlement ==
    \A c \in Calls :
        outcome[c] \in {"result", "failure", "timeout"} =>
            claim[c] = outcome[c] /\ settlement[c] = "ok"

\* Every admitted caller is answered although the work may never end.
CallerReturns(c) == caller[c] = "waiting" ~> caller[c] = "returned"
CallersReturn == \A c \in Calls : CallerReturns(c)

\* Once its work has ended, or was never begun, a call gives back all its permits.
PermitReturns(c) == worker[c] # "none" ~> (worker[c] = "done" \/ work[c] = "pending")
PermitsReturn == \A c \in Calls : PermitReturns(c)
=============================================================================
