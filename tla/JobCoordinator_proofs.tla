------------------------ MODULE JobCoordinator_proofs ------------------------
(***************************************************************************)
(* Theorems about the worker processes of module JobCoordinator, for any   *)
(* number of runs and workers, any durations and any delay between reading *)
(* the clock and committing the transaction that carries the instant.      *)
(*                                                                         *)
(* The argument: a claim is named by its run and its token, which is never *)
(* given out twice, so a process and a row that agree on the token speak   *)
(* of one claim.  What a process knows of its claim (ProcessInv) is        *)
(* disturbed by no step that leaves live claims alone and touches no other *)
(* claim of it (Respects), and each step of another process is one.        *)
(***************************************************************************)
EXTENDS JobCoordinator, TLAPS

-----------------------------------------------------------------------------
(* The inductive invariant                                                 *)

RowOk(r, row) ==
  /\ row.attemptLimit \in 1..AttemptMaximum
  /\ row.attemptCount <= row.attemptLimit
  /\ row.state \in {"absent", "queued"} => row.attemptCount < row.attemptLimit
  /\ row.state = "running" =>
       /\ row.leaseToken = row.attemptCount
       /\ row.attemptCount > 0
       /\ row.leaseOwner \in Workers
  /\ row.updatedAt <= Horizon
  /\ ~RetrySafe[r] =>
       /\ row.attemptCount <= 1
       /\ row.state \in {"absent", "queued"} => row.attemptCount = 0

RowsOk ==
  /\ now = Horizon
  /\ jobRuns \in [Runs -> RunRow]
  /\ \A r \in Runs : RowOk(r, jobRuns[r])

Stages == {"down", "idle", "recovering", "claiming", "executing", "settling", "ended",
           "exited"}

Process ==
  [pc : Stages, at : Nat, run : Runs \cup {NoClaim}, token : Nat, expiresAt : Nat,
   stop : {"none", "claim-lost", "cancelled", "timed-out", "shutdown"},
   polledAt : Nat, renewDue : Nat, renewing : BOOLEAN,
   outcome : {"none"} \cup TerminalStates, retryable : BOOLEAN,
   drain : {"no", "draining", "aborted"}]

(* The row still is that of the claim the process knows.                   *)
Holds(w) ==
  /\ Running(process[w].run)
  /\ jobRuns[process[w].run].leaseOwner = w
  /\ jobRuns[process[w].run].leaseToken = process[w].token

(* A process that executes or settles a run has no other claim, and the    *)
(* token it knows is one that was given out for the run, to it alone.      *)
HandsInv(w) ==
  LET self == process[w]
      row == jobRuns[self.run]
  IN self.pc \in {"executing", "settling"} =>
       /\ self.token \in 1..row.attemptCount
       /\ \A r \in OwnedBy(w) : r = self.run /\ jobRuns[r].leaseToken = self.token
       /\ Running(self.run) /\ row.leaseToken = self.token => row.leaseOwner = w

(* What it knows of the end of its lease, and its monitor with it.         *)
MonitorInv(w) ==
  LET self == process[w]
      row == jobRuns[self.run]
  IN self.pc = "executing" =>
       /\ self.expiresAt > now => Holds(w) /\ row.leaseExpiresAt >= self.expiresAt
       /\ self.stop = "claim-lost" =>
            ~self.renewing /\ (Holds(w) => row.leaseExpiresAt <= now)
       /\ Holds(w) /\ self.stop = "none" => row.leaseExpiresAt <= self.polledAt + LeaseDuration
       /\ Holds(w) /\ self.renewing => row.leaseExpiresAt < self.at + LeaseDuration

(* Between two executions: what the worker still owns has expired, and is  *)
(* recovered before it claims again.                                       *)
PassInv(w) ==
  LET self == process[w]
  IN /\ self.pc \in {"down", "claiming"} => OwnedBy(w) = {}
     /\ self.pc = "idle" => \A r \in OwnedBy(w) : jobRuns[r].leaseExpiresAt <= now
     /\ self.pc = "recovering" => \A r \in OwnedBy(w) : jobRuns[r].leaseExpiresAt <= self.at

ProcessInv(w) ==
  /\ process[w].at <= now /\ process[w].polledAt <= now
  /\ process[w].run # NoClaim <=> process[w].pc \in {"executing", "settling"}
  /\ process[w].pc = "settling" => process[w].outcome \in TerminalStates
  /\ HandsInv(w) /\ MonitorInv(w) /\ PassInv(w)

(* No token is in two hands.                                               *)
TokensDiffer ==
  \A v, w \in Workers :
    v # w /\ process[v].run = process[w].run /\ process[v].run # NoClaim =>
      process[v].token # process[w].token

ProcessesInv ==
  /\ process \in [Workers -> Process]
  /\ \A w \in Workers : ProcessInv(w)
  /\ TokensDiffer

CoordinatorInv == RowsOk /\ ProcessesInv

-----------------------------------------------------------------------------
(* What a transaction does to the claims                                   *)

RunningAfter(r) == jobRuns'[r].state = "running"

(* The claim of a run, or its absence, stays as it is.                     *)
Kept(r) ==
  /\ jobRuns'[r].attemptCount = jobRuns[r].attemptCount
  /\ RunningAfter(r) <=> Running(r)
  /\ Running(r) => /\ jobRuns'[r].leaseOwner = jobRuns[r].leaseOwner
                   /\ jobRuns'[r].leaseToken = jobRuns[r].leaseToken
                   /\ jobRuns'[r].leaseExpiresAt = jobRuns[r].leaseExpiresAt

Ended(r) ==
  /\ jobRuns'[r].attemptCount = jobRuns[r].attemptCount
  /\ Running(r) /\ ~RunningAfter(r)

Begun(r, w) ==
  /\ ~Running(r) /\ RunningAfter(r)
  /\ jobRuns'[r].attemptCount = jobRuns[r].attemptCount + 1
  /\ jobRuns'[r].leaseOwner = w
  /\ jobRuns'[r].leaseToken = jobRuns[r].attemptCount + 1
  /\ jobRuns'[r].leaseExpiresAt = jobRuns'[r].updatedAt + LeaseDuration

Extended(r) ==
  /\ jobRuns'[r].attemptCount = jobRuns[r].attemptCount
  /\ Running(r) /\ RunningAfter(r)
  /\ jobRuns'[r].leaseOwner = jobRuns[r].leaseOwner
  /\ jobRuns'[r].leaseToken = jobRuns[r].leaseToken
  /\ jobRuns'[r].leaseExpiresAt > jobRuns[r].leaseExpiresAt
  /\ jobRuns'[r].leaseExpiresAt = jobRuns'[r].updatedAt + LeaseDuration

-----------------------------------------------------------------------------
(* Row updates                                                             *)

(* The later of two instants up to now is one of them.                     *)
LEMMA LatestUpToNow ==
  ASSUME NEW a \in Nat, NEW b \in Nat, a <= Horizon, b <= Horizon
  PROVE  /\ Latest(a, b) \in Nat
         /\ Latest(a, b) <= Horizon
BY CoordinatorConstants DEF Latest

(* EnqueueRun                                                              *)
LEMMA EnqueuedRow ==
  ASSUME NEW r \in Runs, NEW row \in RunRow, RowOk(r, row), row.state = "absent",
         NEW at \in Nat, at <= Horizon
  PROVE  LET new == [row EXCEPT !.state = "queued", !.availableAt = at, !.updatedAt = at]
         IN /\ new \in RunRow
            /\ RowOk(r, new)
            /\ new.state = "queued"
            /\ new.attemptCount = row.attemptCount
<1> DEFINE new == [row EXCEPT !.state = "queued", !.availableAt = at, !.updatedAt = at]
<1>1. new \in RunRow
  BY DEF RunRow, RunStates
<1>2. /\ new.state = "queued"
      /\ new.attemptCount = row.attemptCount
      /\ new.attemptLimit = row.attemptLimit
      /\ new.updatedAt = at
  BY DEF RunRow
<1> HIDE DEF new
<1>3. RowOk(r, new)
  BY <1>2 DEF RowOk
<1> QED
  BY <1>1, <1>2, <1>3 DEF new

(* The end of a claim, or of a queued run, in state "state".               *)
LEMMA FinishedRow ==
  ASSUME NEW r \in Runs, NEW row \in RunRow, RowOk(r, row), NEW state \in TerminalStates,
         NEW at \in Nat, at <= Horizon
  PROVE  /\ Finished(row, state, at) \in RunRow
         /\ RowOk(r, Finished(row, state, at))
         /\ Finished(row, state, at).state = state
         /\ Finished(row, state, at).attemptCount = row.attemptCount
<1> DEFINE new == Finished(row, state, at)
<1>1. new \in RunRow
  BY DEF RunRow, RunStates, Finished, Unleased
<1>2. /\ new.state = state
      /\ new.attemptCount = row.attemptCount
      /\ new.attemptLimit = row.attemptLimit
      /\ new.updatedAt = at
  BY DEF RunRow, Finished, Unleased
<1> HIDE DEF new
<1>3. RowOk(r, new)
  BY <1>2 DEF RowOk, TerminalStates
<1> QED
  BY <1>1, <1>2, <1>3 DEF new

(* CancelRun of a queued run                                               *)
LEMMA CancelledInQueueRow ==
  ASSUME NEW r \in Runs, NEW row \in RunRow, RowOk(r, row), NEW at \in Nat, at <= Horizon
  PROVE  /\ CancelledInQueue(row, at) \in RunRow
         /\ RowOk(r, CancelledInQueue(row, at))
         /\ CancelledInQueue(row, at).state = "cancelled"
         /\ CancelledInQueue(row, at).attemptCount = row.attemptCount
<1> DEFINE instant == Latest(row.updatedAt, at)
           old == Finished(row, "cancelled", instant)
           new == CancelledInQueue(row, at)
<1>1. instant \in Nat /\ instant <= Horizon
  BY LatestUpToNow DEF RunRow, RowOk
<1> HIDE DEF instant
<1>2. /\ old \in RunRow
      /\ RowOk(r, old)
      /\ old.state = "cancelled"
      /\ old.attemptCount = row.attemptCount
  BY <1>1, FinishedRow DEF TerminalStates
<1>3. new = [old EXCEPT !.cancelRequested = TRUE]
  BY DEF CancelledInQueue, instant
<1> HIDE DEF old, new
<1>4. new \in RunRow
  BY <1>2, <1>3 DEF RunRow
<1>5. /\ new.state = old.state
      /\ new.attemptCount = old.attemptCount
      /\ new.attemptLimit = old.attemptLimit
      /\ new.updatedAt = old.updatedAt
  BY <1>2, <1>3 DEF RunRow
<1>6. RowOk(r, new)
  BY <1>2, <1>5 DEF RowOk
<1> QED
  BY <1>2, <1>4, <1>5, <1>6 DEF new

(* CancelRun of a running run, AppendClaimEvent: the claim stays.          *)
Touched(row, requested, at) ==
  [row EXCEPT !.cancelRequested = requested, !.updatedAt = Latest(row.updatedAt, at)]

LEMMA TouchedRow ==
  ASSUME NEW r \in Runs, NEW row \in RunRow, RowOk(r, row), NEW requested \in BOOLEAN,
         NEW at \in Nat, at <= Horizon
  PROVE  LET new == Touched(row, requested, at)
         IN /\ new \in RunRow
            /\ RowOk(r, new)
            /\ new.state = row.state
            /\ new.attemptCount = row.attemptCount
            /\ new.leaseOwner = row.leaseOwner
            /\ new.leaseToken = row.leaseToken
            /\ new.leaseExpiresAt = row.leaseExpiresAt
<1> DEFINE instant == Latest(row.updatedAt, at)
           new == Touched(row, requested, at)
<1>1. instant \in Nat /\ instant <= Horizon
  BY LatestUpToNow DEF RunRow, RowOk
<1>a. new = [row EXCEPT !.cancelRequested = requested, !.updatedAt = instant]
  BY DEF Touched
<1> HIDE DEF instant, new
<1>2. new \in RunRow
  BY <1>1, <1>a DEF RunRow
<1>3. /\ new.state = row.state
      /\ new.attemptCount = row.attemptCount
      /\ new.attemptLimit = row.attemptLimit
      /\ new.leaseOwner = row.leaseOwner
      /\ new.leaseToken = row.leaseToken
      /\ new.leaseExpiresAt = row.leaseExpiresAt
      /\ new.updatedAt = instant
  BY <1>a DEF RunRow
<1>4. RowOk(r, new)
  BY <1>1, <1>3 DEF RowOk
<1> QED
  BY <1>2, <1>3, <1>4 DEF new, instant

(* ClaimNextRun                                                            *)
LEMMA ClaimedRow ==
  ASSUME NEW r \in Runs, NEW row \in RunRow, RowOk(r, row), row.state = "queued",
         NEW w \in Workers, NEW at \in Nat, at <= Horizon
  PROVE  LET new == Claimed(row, w, at)
         IN /\ new \in RunRow
            /\ RowOk(r, new)
            /\ new.state = "running"
            /\ new.attemptCount = row.attemptCount + 1
            /\ new.leaseOwner = w
            /\ new.leaseToken = row.attemptCount + 1
            /\ new.leaseExpiresAt = new.updatedAt + LeaseDuration
<1> DEFINE new == Claimed(row, w, at)
<1>a. at + LeaseDuration \in Nat /\ row.attemptCount + 1 \in Nat
  BY QueueConstants DEF RunRow
<1>1. new \in RunRow
  BY <1>a DEF RunRow, RunStates, Claimed
<1>2. /\ new.state = "running"
      /\ new.attemptCount = row.attemptCount + 1
      /\ new.attemptLimit = row.attemptLimit
      /\ new.leaseOwner = w
      /\ new.leaseToken = row.attemptCount + 1
      /\ new.leaseExpiresAt = at + LeaseDuration
      /\ new.updatedAt = at
  BY DEF RunRow, Claimed
<1>3. row.attemptCount \in Nat /\ row.attemptLimit \in Nat
  BY DEF RunRow
<1> HIDE DEF new
<1>4. RowOk(r, new)
  BY <1>2, <1>3 DEF RowOk
<1> QED
  BY <1>1, <1>2, <1>4 DEF new

(* RenewClaim                                                              *)
LEMMA RenewedRow ==
  ASSUME NEW r \in Runs, NEW row \in RunRow, RowOk(r, row), NEW at \in Nat, at <= Horizon
  PROVE  LET new == [row EXCEPT !.updatedAt = at, !.leaseExpiresAt = at + LeaseDuration]
         IN /\ new \in RunRow
            /\ RowOk(r, new)
            /\ new.state = row.state
            /\ new.attemptCount = row.attemptCount
            /\ new.leaseOwner = row.leaseOwner
            /\ new.leaseToken = row.leaseToken
            /\ new.leaseExpiresAt = at + LeaseDuration
            /\ new.updatedAt = at
<1> DEFINE new == [row EXCEPT !.updatedAt = at, !.leaseExpiresAt = at + LeaseDuration]
<1>a. at + LeaseDuration \in Nat
  BY QueueConstants
<1>1. new \in RunRow
  BY <1>a DEF RunRow
<1>2. /\ new.state = row.state
      /\ new.attemptCount = row.attemptCount
      /\ new.attemptLimit = row.attemptLimit
      /\ new.leaseOwner = row.leaseOwner
      /\ new.leaseToken = row.leaseToken
      /\ new.leaseExpiresAt = at + LeaseDuration
      /\ new.updatedAt = at
  BY DEF RunRow
<1> HIDE DEF new
<1>3. RowOk(r, new)
  BY <1>2 DEF RowOk
<1> QED
  BY <1>1, <1>2, <1>3 DEF new

(* A retry, by settlement or by recovery                                   *)
LEMMA RequeuedRow ==
  ASSUME NEW r \in Runs, NEW row \in RunRow, RowOk(r, row), RetrySafe[r],
         row.attemptCount < row.attemptLimit,
         NEW at \in Nat, at <= Horizon, NEW availableAt \in Nat
  PROVE  LET new == Requeued(row, at, availableAt)
         IN /\ new \in RunRow
            /\ RowOk(r, new)
            /\ new.state = "queued"
            /\ new.attemptCount = row.attemptCount
<1> DEFINE new == Requeued(row, at, availableAt)
<1>1. new \in RunRow
  BY DEF RunRow, RunStates, Requeued, Unleased
<1>2. /\ new.state = "queued"
      /\ new.attemptCount = row.attemptCount
      /\ new.attemptLimit = row.attemptLimit
      /\ new.updatedAt = at
  BY DEF RunRow, Requeued, Unleased
<1> HIDE DEF new
<1>3. RowOk(r, new)
  BY <1>2 DEF RowOk
<1> QED
  BY <1>1, <1>2, <1>3 DEF new

-----------------------------------------------------------------------------
(* Transactions                                                            *)

(* Rows that stay as they are keep what they satisfy, and so their claims. *)
LEMMA OneRow ==
  ASSUME RowsOk, now' = now, NEW r \in Runs, NEW new \in RunRow, RowOk(r, new),
         jobRuns' = [jobRuns EXCEPT ![r] = new]
  PROVE  /\ RowsOk'
         /\ jobRuns'[r] = new
         /\ \A q \in Runs \ {r} : Kept(q)
<1>1. jobRuns \in [Runs -> RunRow]
  BY DEF RowsOk
<1>2. /\ jobRuns' \in [Runs -> RunRow]
      /\ jobRuns'[r] = new
      /\ \A q \in Runs \ {r} : jobRuns'[q] = jobRuns[q]
  BY <1>1
<1> QED
  BY <1>2 DEF RowsOk, Kept, Running, RunningAfter

LEMMA NoRow ==
  ASSUME RowsOk, UNCHANGED <<jobRuns, now>>
  PROVE  RowsOk' /\ \A r \in Runs : Kept(r)
BY DEF RowsOk, Kept, Running, RunningAfter

LEMMA EnqueueKeeps ==
  ASSUME RowsOk, NEW r \in Runs, EnqueueRun(r, now)
  PROVE  RowsOk' /\ \A q \in Runs : Kept(q)
<1> DEFINE new == [jobRuns[r] EXCEPT !.state = "queued", !.availableAt = now, !.updatedAt = now]
<1>1. /\ jobRuns[r] \in RunRow
      /\ RowOk(r, jobRuns[r])
      /\ jobRuns[r].state = "absent"
      /\ now \in Nat
      /\ now <= Horizon
  BY CoordinatorConstants DEF RowsOk, EnqueueRun
<1>2. /\ new \in RunRow
      /\ RowOk(r, new)
      /\ new.state = "queued"
      /\ new.attemptCount = jobRuns[r].attemptCount
  BY <1>1, EnqueuedRow
<1>3. jobRuns' = [jobRuns EXCEPT ![r] = new] /\ now' = now
  BY DEF EnqueueRun, RowsOk
<1> HIDE DEF new
<1>4. /\ RowsOk'
      /\ jobRuns'[r] = new
      /\ \A q \in Runs \ {r} : Kept(q)
  BY <1>2, <1>3, OneRow
<1>5. Kept(r)
  BY <1>1, <1>2, <1>4 DEF Kept, Running, RunningAfter
<1> QED
  BY <1>4, <1>5

LEMMA CancelKeeps ==
  ASSUME RowsOk, NEW r \in Runs, CancelRun(r, now)
  PROVE  RowsOk' /\ \A q \in Runs : Kept(q)
<1>1. /\ jobRuns[r] \in RunRow
      /\ RowOk(r, jobRuns[r])
      /\ now \in Nat
      /\ now <= Horizon
      /\ now' = now
  BY CoordinatorConstants DEF RowsOk, CancelRun
<1>2. CASE Queued(r) /\ jobRuns' = [jobRuns EXCEPT ![r] = CancelledInQueue(@, now)]
  <2> DEFINE new == CancelledInQueue(jobRuns[r], now)
  <2>1. /\ new \in RunRow
        /\ RowOk(r, new)
        /\ new.state = "cancelled"
        /\ new.attemptCount = jobRuns[r].attemptCount
    BY <1>1, CancelledInQueueRow
  <2>2. jobRuns' = [jobRuns EXCEPT ![r] = new]
    BY <1>2
  <2> HIDE DEF new
  <2>3. /\ RowsOk'
        /\ jobRuns'[r] = new
        /\ \A q \in Runs \ {r} : Kept(q)
    BY <1>1, <2>1, <2>2, OneRow
  <2>4. Kept(r)
    BY <1>2, <2>1, <2>3 DEF Kept, Running, RunningAfter, Queued
  <2> QED
    BY <2>3, <2>4
<1>3. CASE jobRuns' = [jobRuns EXCEPT ![r].cancelRequested = TRUE,
                                     ![r].updatedAt = Latest(@, now)]
  <2> DEFINE new == Touched(jobRuns[r], TRUE, now)
  <2>1. /\ new \in RunRow
        /\ RowOk(r, new)
        /\ new.state = jobRuns[r].state
        /\ new.attemptCount = jobRuns[r].attemptCount
        /\ new.leaseOwner = jobRuns[r].leaseOwner
        /\ new.leaseToken = jobRuns[r].leaseToken
        /\ new.leaseExpiresAt = jobRuns[r].leaseExpiresAt
    BY <1>1, TouchedRow
  <2>2. jobRuns' = [jobRuns EXCEPT ![r] = new]
    BY <1>3 DEF RowsOk, RunRow, Touched
  <2> HIDE DEF new
  <2>3. /\ RowsOk'
        /\ jobRuns'[r] = new
        /\ \A q \in Runs \ {r} : Kept(q)
    BY <1>1, <2>1, <2>2, OneRow
  <2>4. Kept(r)
    BY <2>1, <2>3 DEF Kept, Running, RunningAfter
  <2> QED
    BY <2>3, <2>4
<1> QED
  BY <1>2, <1>3 DEF CancelRun

LEMMA AppendKeeps ==
  ASSUME RowsOk, NEW w \in Workers, NEW r \in Runs, NEW token, AppendClaimEvent(w, r, token, now)
  PROVE  RowsOk' /\ \A q \in Runs : Kept(q)
<1> DEFINE requested == jobRuns[r].cancelRequested
           new == Touched(jobRuns[r], requested, now)
<1>1. /\ jobRuns[r] \in RunRow
      /\ RowOk(r, jobRuns[r])
      /\ now \in Nat
      /\ now <= Horizon
      /\ now' = now
  BY CoordinatorConstants DEF RowsOk, AppendClaimEvent
<1>2. requested \in BOOLEAN
  BY <1>1 DEF RunRow
<1>3. jobRuns' = [jobRuns EXCEPT ![r] = new]
  BY <1>1 DEF AppendClaimEvent, RowsOk, RunRow, Touched
<1> HIDE DEF requested
<1>4. /\ new \in RunRow
      /\ RowOk(r, new)
      /\ new.state = jobRuns[r].state
      /\ new.attemptCount = jobRuns[r].attemptCount
      /\ new.leaseOwner = jobRuns[r].leaseOwner
      /\ new.leaseToken = jobRuns[r].leaseToken
      /\ new.leaseExpiresAt = jobRuns[r].leaseExpiresAt
  BY <1>1, <1>2, TouchedRow
<1> HIDE DEF new
<1>5. /\ RowsOk'
      /\ jobRuns'[r] = new
      /\ \A q \in Runs \ {r} : Kept(q)
  BY <1>1, <1>3, <1>4, OneRow
<1>6. Kept(r)
  BY <1>4, <1>5 DEF Kept, Running, RunningAfter
<1> QED
  BY <1>5, <1>6

(* Of a claim of an instant that has come, ClaimNextRun begins at most one *)
(* and leaves the others alone.                                            *)
LEMMA ClaimBegins ==
  ASSUME RowsOk, NEW w \in Workers, NEW at \in Nat, at <= now, ClaimNextRun(w, at)
  PROVE  /\ RowsOk'
         /\ now' = now
         /\ \/ jobRuns' = jobRuns
            \/ \E r \in Runs : /\ WorkerMayClaim(w, at)
                               /\ Begun(r, w)
                               /\ \A q \in Runs \ {r} : Kept(q) /\ jobRuns'[q] = jobRuns[q]
<1>1. now' = now
  BY DEF ClaimNextRun
<1>2. CASE jobRuns' = jobRuns
  BY <1>1, <1>2, NoRow
<1>3. CASE jobRuns' # jobRuns
  <2>1. WorkerMayClaim(w, at)
    BY <1>3 DEF ClaimNextRun
  <2>2. PICK r \in NextClaims(w, at) :
          jobRuns' = [jobRuns EXCEPT ![r] =
                        Claimed(jobRuns[r], w, Latest(jobRuns[r].updatedAt, at))]
    BY <1>3 DEF ClaimNextRun
  <2> DEFINE instant == Latest(jobRuns[r].updatedAt, at)
             new == Claimed(jobRuns[r], w, instant)
  <2>3. r \in Runs /\ jobRuns[r].state = "queued"
    BY <2>2, QueueConstants DEF NextClaims, Claimable, Queued
  <2>4. /\ jobRuns[r] \in RunRow
        /\ RowOk(r, jobRuns[r])
        /\ jobRuns \in [Runs -> RunRow]
        /\ jobRuns[r].updatedAt \in Nat
        /\ jobRuns[r].updatedAt <= Horizon
        /\ at <= Horizon
    BY <2>3 DEF RowsOk, RowOk, RunRow
  <2>5. instant \in Nat /\ instant <= Horizon
    BY <2>4, LatestUpToNow
  <2> HIDE DEF instant
  <2>6. /\ new \in RunRow
        /\ RowOk(r, new)
        /\ new.state = "running"
        /\ new.attemptCount = jobRuns[r].attemptCount + 1
        /\ new.leaseOwner = w
        /\ new.leaseToken = jobRuns[r].attemptCount + 1
        /\ new.leaseExpiresAt = new.updatedAt + LeaseDuration
    BY <2>3, <2>4, <2>5, ClaimedRow
  <2>7. jobRuns' = [jobRuns EXCEPT ![r] = new]
    BY <2>2 DEF instant
  <2> HIDE DEF new
  <2>8. /\ RowsOk'
        /\ jobRuns'[r] = new
        /\ \A q \in Runs \ {r} : Kept(q)
    BY <1>1, <2>3, <2>6, <2>7, OneRow
  <2>9. \A q \in Runs \ {r} : jobRuns'[q] = jobRuns[q]
    BY <2>4, <2>7
  <2>10. Begun(r, w)
    BY <2>3, <2>6, <2>8 DEF Begun, Running, RunningAfter
  <2> QED
    BY <1>1, <2>1, <2>3, <2>8, <2>9, <2>10
<1> QED
  BY <1>2, <1>3

(* RenewClaim extends the one claim it names, up to an instant that the    *)
(* row and the caller have reached.                                        *)
LEMMA RenewalExtends ==
  ASSUME RowsOk, NEW w \in Workers, NEW r \in Runs, NEW token, NEW at \in Nat, at <= now,
         RenewClaim(w, r, token, at)
  PROVE  /\ RowsOk'
         /\ Extended(r)
         /\ \A q \in Runs \ {r} : Kept(q)
<1> DEFINE instant == Latest(jobRuns[r].updatedAt, at)
           expiresAt == instant + LeaseDuration
           new == [jobRuns[r] EXCEPT !.updatedAt = instant, !.leaseExpiresAt = expiresAt]
<1>1. /\ jobRuns[r] \in RunRow
      /\ RowOk(r, jobRuns[r])
      /\ jobRuns \in [Runs -> RunRow]
      /\ jobRuns[r].updatedAt \in Nat
      /\ jobRuns[r].updatedAt <= Horizon
      /\ at <= Horizon
      /\ now' = now
  BY DEF RowsOk, RowOk, RunRow, RenewClaim
<1>2. instant \in Nat /\ instant <= Horizon
  BY <1>1, LatestUpToNow
<1>3. /\ Running(r)
      /\ expiresAt > jobRuns[r].leaseExpiresAt
      /\ jobRuns' = [jobRuns EXCEPT ![r] = new]
  BY <1>1 DEF RenewClaim, ClaimFence, RunRow
<1> HIDE DEF instant
<1>4. /\ new \in RunRow
      /\ RowOk(r, new)
      /\ new.state = jobRuns[r].state
      /\ new.attemptCount = jobRuns[r].attemptCount
      /\ new.leaseOwner = jobRuns[r].leaseOwner
      /\ new.leaseToken = jobRuns[r].leaseToken
      /\ new.leaseExpiresAt = instant + LeaseDuration
      /\ new.updatedAt = instant
  BY <1>1, <1>2, RenewedRow, ZenonT(30)
<1> HIDE DEF new
<1>5. /\ RowsOk'
      /\ jobRuns'[r] = new
      /\ \A q \in Runs \ {r} : Kept(q)
  BY <1>1, <1>3, <1>4, OneRow
<1>6. Extended(r)
  BY <1>3, <1>4, <1>5 DEF Extended, Running, RunningAfter
<1> QED
  BY <1>5, <1>6

(* The retry instant of a claimed run is an instant.                       *)
LEMMA RetryInstant ==
  ASSUME NEW r \in Runs, NEW row \in RunRow, RowOk(r, row), row.state = "running",
         NEW settledAt \in Nat, NEW at \in Nat
  PROVE  Latest(settledAt, at + RetryDelay[row.attemptCount]) \in Nat
<1>1. row.attemptCount \in 1..AttemptMaximum
  BY QueueConstants DEF RowOk, RunRow
<1>2. RetryDelay[row.attemptCount] \in Nat
  BY <1>1, QueueConstants
<1> QED
  BY <1>2 DEF Latest

(* SettleClaim ends the one claim it names.                                *)
LEMMA SettlementEnds ==
  ASSUME RowsOk, NEW w \in Workers, NEW r \in Runs, NEW token, NEW at \in Nat, at <= now,
         NEW requested \in TerminalStates, NEW retryable \in BOOLEAN,
         SettleClaim(w, r, token, at, requested, retryable)
  PROVE  /\ RowsOk'
         /\ Ended(r)
         /\ \A q \in Runs \ {r} : Kept(q)
<1> DEFINE outcome == EffectiveOutcome(r, requested)
           settledAt == Latest(jobRuns[r].updatedAt, at)
           retryAt == Latest(settledAt, at + RetryDelay[jobRuns[r].attemptCount])
           new == IF MayRetry(r, outcome, retryable)
                  THEN Requeued(jobRuns[r], settledAt, retryAt)
                  ELSE Finished(jobRuns[r], outcome, settledAt)
<1>1. /\ jobRuns[r] \in RunRow
      /\ RowOk(r, jobRuns[r])
      /\ jobRuns \in [Runs -> RunRow]
      /\ jobRuns[r].updatedAt \in Nat
      /\ jobRuns[r].updatedAt <= Horizon
      /\ at <= Horizon
      /\ now' = now
  BY DEF RowsOk, RowOk, RunRow, SettleClaim
<1>2. Running(r) /\ jobRuns[r].state = "running"
  BY DEF SettleClaim, ClaimFence, Running
<1>3. settledAt \in Nat /\ settledAt <= Horizon
  BY <1>1, LatestUpToNow
<1>4. outcome \in TerminalStates
  BY DEF EffectiveOutcome, TerminalStates
<1>5. jobRuns' = [jobRuns EXCEPT ![r] = new]
  BY <1>1 DEF SettleClaim
<1> HIDE DEF settledAt, outcome
<1>6. retryAt \in Nat
  BY <1>1, <1>2, <1>3, RetryInstant
<1> HIDE DEF retryAt
<1>7. /\ new \in RunRow
      /\ RowOk(r, new)
      /\ new.state # "running"
      /\ new.attemptCount = jobRuns[r].attemptCount
  <2>1. CASE MayRetry(r, outcome, retryable)
    <3>1. RetrySafe[r] /\ jobRuns[r].attemptCount < jobRuns[r].attemptLimit
      BY <2>1 DEF MayRetry
    <3>2. new = Requeued(jobRuns[r], settledAt, retryAt)
      BY <2>1
    <3> QED
      BY <1>1, <1>3, <1>6, <3>1, <3>2, RequeuedRow
  <2>2. CASE ~MayRetry(r, outcome, retryable)
    <3>1. new = Finished(jobRuns[r], outcome, settledAt)
      BY <2>2
    <3> HIDE DEF new
    <3>2. /\ new \in RunRow
          /\ RowOk(r, new)
          /\ new.state = outcome
          /\ new.attemptCount = jobRuns[r].attemptCount
      BY <1>1, <1>3, <1>4, <3>1, FinishedRow
    <3> QED
      BY <1>4, <3>2 DEF TerminalStates
  <2> QED
    BY <2>1, <2>2
<1> HIDE DEF new
<1>8. /\ RowsOk'
      /\ jobRuns'[r] = new
      /\ \A q \in Runs \ {r} : Kept(q)
  BY <1>1, <1>5, <1>7, OneRow
<1>9. Ended(r)
  BY <1>2, <1>7, <1>8 DEF Ended, Running, RunningAfter
<1> QED
  BY <1>8, <1>9

(* The row of an expired claim after its recovery                          *)
LEMMA RecoveredRow ==
  ASSUME RowsOk, NEW r \in Runs, Running(r), NEW at \in Nat, at <= now
  PROVE  /\ Recovered(r, at, RetryDelay) \in RunRow
         /\ RowOk(r, Recovered(r, at, RetryDelay))
         /\ Recovered(r, at, RetryDelay).state # "running"
         /\ Recovered(r, at, RetryDelay).attemptCount = jobRuns[r].attemptCount
<1> DEFINE row == jobRuns[r]
           recoveredAt == Latest(row.updatedAt, at)
           retryAt == Latest(recoveredAt, at + RetryDelay[row.attemptCount])
           new == Recovered(r, at, RetryDelay)
<1>1. /\ row \in RunRow
      /\ RowOk(r, row)
      /\ row.state = "running"
      /\ row.updatedAt \in Nat
      /\ row.updatedAt <= Horizon
      /\ at <= Horizon
  BY DEF RowsOk, RowOk, RunRow, Running
<1>2. recoveredAt \in Nat /\ recoveredAt <= Horizon
  BY <1>1, LatestUpToNow
<1>3. \/ \E state \in {"cancelled", "failed"} : new = Finished(row, state, recoveredAt)
      \/ /\ RetrySafe[r]
         /\ row.attemptCount < row.attemptLimit
         /\ new = Requeued(row, recoveredAt, retryAt)
  BY DEF Recovered
<1> HIDE DEF recoveredAt, new
<1>4. retryAt \in Nat
  BY <1>1, <1>2, RetryInstant
<1> HIDE DEF retryAt, row
<1>5. ASSUME NEW state \in {"cancelled", "failed"}, new = Finished(row, state, recoveredAt)
      PROVE  /\ new \in RunRow
             /\ RowOk(r, new)
             /\ new.state # "running"
             /\ new.attemptCount = row.attemptCount
  <2>1. state \in TerminalStates /\ state # "running"
    BY DEF TerminalStates
  <2> QED
    BY <1>1, <1>2, <1>5, <2>1, FinishedRow
<1>6. ASSUME RetrySafe[r], row.attemptCount < row.attemptLimit,
             new = Requeued(row, recoveredAt, retryAt)
      PROVE  /\ new \in RunRow
             /\ RowOk(r, new)
             /\ new.state # "running"
             /\ new.attemptCount = row.attemptCount
  BY <1>1, <1>2, <1>4, <1>6, RequeuedRow
<1> QED
  BY <1>3, <1>5, <1>6 DEF new, row

(* RecoverExpiredClaims ends the claims that had expired at its instant    *)
(* and keeps the others.                                                   *)
LEMMA RecoveryEnds ==
  ASSUME RowsOk, NEW at \in Nat, at <= now, RecoverExpiredClaims(Runs, RetryDelay, at)
  PROVE  /\ RowsOk'
         /\ \A r \in Runs : Expired(r, at) => Ended(r)
         /\ \A r \in Runs : ~Expired(r, at) => Kept(r)
<1>1. /\ now' = now
      /\ jobRuns' = [r \in Runs |-> IF Expired(r, at) THEN Recovered(r, at, RetryDelay)
                                                     ELSE jobRuns[r]]
  BY DEF RecoverExpiredClaims
<1>2. ASSUME NEW r \in Runs, Expired(r, at)
      PROVE  jobRuns'[r] \in RunRow /\ RowOk(r, jobRuns'[r]) /\ Ended(r)
  <2>1. Running(r)
    BY <1>2 DEF Expired
  <2>2. jobRuns'[r] = Recovered(r, at, RetryDelay)
    BY <1>1, <1>2
  <2> QED
    BY <2>1, <2>2, RecoveredRow DEF Ended, Running, RunningAfter
<1>3. ASSUME NEW r \in Runs, ~Expired(r, at)
      PROVE  jobRuns'[r] \in RunRow /\ RowOk(r, jobRuns'[r]) /\ Kept(r)
  <2>1. jobRuns'[r] = jobRuns[r]
    BY <1>1, <1>3
  <2> QED
    BY <2>1 DEF RowsOk, Kept, Running, RunningAfter
<1>4. jobRuns' \in [Runs -> RunRow]
  BY <1>1, <1>2, <1>3
<1>5. RowsOk'
  BY <1>1, <1>2, <1>3, <1>4 DEF RowsOk
<1> QED
  BY <1>2, <1>3, <1>5

-----------------------------------------------------------------------------
(* What a step of one process does to the others                           *)

(* A step that gives worker v no claim, takes no live one from it and      *)
(* gives out no token twice.                                               *)
Respects(v) ==
  \A r \in Runs :
    /\ jobRuns'[r].attemptCount >= jobRuns[r].attemptCount
    /\ RunningAfter(r) /\ jobRuns'[r].leaseOwner = v =>
         /\ Running(r)
         /\ jobRuns[r].leaseOwner = v
         /\ jobRuns'[r].leaseToken = jobRuns[r].leaseToken
         /\ jobRuns'[r].leaseExpiresAt = jobRuns[r].leaseExpiresAt
    /\ Running(r) /\ jobRuns[r].leaseOwner = v /\ jobRuns[r].leaseExpiresAt > now =>
         /\ RunningAfter(r)
         /\ jobRuns'[r].leaseOwner = v
    /\ RunningAfter(r) =>
         \/ /\ Running(r)
            /\ jobRuns'[r].leaseOwner = jobRuns[r].leaseOwner
            /\ jobRuns'[r].leaseToken = jobRuns[r].leaseToken
         \/ jobRuns'[r].leaseToken > jobRuns[r].attemptCount

(* The transactions are of this kind for every worker whose claim they do  *)
(* not name.                                                               *)
LEMMA OthersRespected ==
  ASSUME RowsOk, RowsOk', NEW v \in Workers,
         \A r \in Runs :
           \/ Kept(r)
           \/ Ended(r) /\ (jobRuns[r].leaseOwner # v \/ jobRuns[r].leaseExpiresAt <= now)
           \/ Extended(r) /\ jobRuns[r].leaseOwner # v
           \/ \E u \in Workers \ {v} : Begun(r, u)
  PROVE  Respects(v)
<1> SUFFICES ASSUME NEW r \in Runs
             PROVE  Respects(v)!(r)
  BY DEF Respects
<1>1. /\ jobRuns[r].attemptCount \in Nat
      /\ jobRuns[r].leaseExpiresAt \in Nat
      /\ now \in Nat
  BY CoordinatorConstants DEF RowsOk, RunRow
<1>2. CASE Kept(r)
  BY <1>1, <1>2 DEF Kept
<1>3. CASE Ended(r) /\ (jobRuns[r].leaseOwner # v \/ jobRuns[r].leaseExpiresAt <= now)
  BY <1>1, <1>3 DEF Ended
<1>4. CASE Extended(r) /\ jobRuns[r].leaseOwner # v
  BY <1>1, <1>4 DEF Extended
<1>5. CASE \E u \in Workers \ {v} : Begun(r, u)
  BY <1>1, <1>5 DEF Begun
<1> QED
  BY <1>2, <1>3, <1>4, <1>5

(* A process that executes or settles has a run in its hands.              *)
LEMMA RunInHands ==
  ASSUME NEW w \in Workers, process \in [Workers -> Process], ProcessInv(w),
         process[w].pc \in {"executing", "settling"}
  PROVE  process[w].run \in Runs
BY DEF ProcessInv, Process

(* What a process that takes no step knows stays true.                     *)
LEMMA BystanderKept ==
  ASSUME RowsOk, RowsOk', process \in [Workers -> Process], NEW v \in Workers,
         ProcessInv(v), Respects(v), process'[v] = process[v], now' = now
  PROVE  ProcessInv(v)'
<1> DEFINE self == process[v]
           r == self.run
<1>1. self.token \in Nat /\ self.expiresAt \in Nat
  BY DEF Process
<1>2. HandsInv(v)'
  <2> SUFFICES ASSUME self.pc \in {"executing", "settling"}
               PROVE  /\ self.token \in 1..jobRuns'[r].attemptCount
                      /\ \A q \in OwnedBy(v)' : q = r /\ jobRuns'[q].leaseToken = self.token
                      /\ RunningAfter(r) /\ jobRuns'[r].leaseToken = self.token =>
                           jobRuns'[r].leaseOwner = v
    BY DEF HandsInv, Running, RunningAfter
  <2>1. r \in Runs
    BY RunInHands
  <2>2. jobRuns[r].attemptCount \in Nat /\ jobRuns'[r].attemptCount \in Nat
    BY <2>1 DEF RowsOk, RunRow
  <2>3. /\ self.token \in 1..jobRuns[r].attemptCount
        /\ \A q \in OwnedBy(v) : q = r /\ jobRuns[q].leaseToken = self.token
        /\ Running(r) /\ jobRuns[r].leaseToken = self.token => jobRuns[r].leaseOwner = v
    BY DEF ProcessInv, HandsInv
  <2>4. self.token \in 1..jobRuns'[r].attemptCount
    BY <2>1, <2>2, <2>3 DEF Respects
  <2>5. \A q \in OwnedBy(v)' : q = r /\ jobRuns'[q].leaseToken = self.token
    BY <2>3 DEF Respects, OwnedBy, Running, RunningAfter
  <2>6. ASSUME RunningAfter(r), jobRuns'[r].leaseToken = self.token
        PROVE  jobRuns'[r].leaseOwner = v
    BY <2>1, <2>2, <2>3, <2>6 DEF Respects
  <2> QED
    BY <2>4, <2>5, <2>6
<1>3. MonitorInv(v)'
  <2> SUFFICES ASSUME self.pc = "executing"
               PROVE  MonitorInv(v)'
    BY DEF MonitorInv
  <2>1. r \in Runs
    BY RunInHands
  <2>2. /\ self.expiresAt > now => Holds(v) /\ jobRuns[r].leaseExpiresAt >= self.expiresAt
        /\ self.stop = "claim-lost" =>
             ~self.renewing /\ (Holds(v) => jobRuns[r].leaseExpiresAt <= now)
        /\ Holds(v) /\ self.stop = "none" =>
             jobRuns[r].leaseExpiresAt <= self.polledAt + LeaseDuration
        /\ Holds(v) /\ self.renewing => jobRuns[r].leaseExpiresAt < self.at + LeaseDuration
    BY DEF ProcessInv, MonitorInv
  <2>3. Holds(v)' => Holds(v) /\ jobRuns'[r].leaseExpiresAt = jobRuns[r].leaseExpiresAt
    BY <2>1 DEF Respects, Holds, Running, RunningAfter
  <2>4. Holds(v) /\ jobRuns[r].leaseExpiresAt > now => Holds(v)'
    BY <2>1 DEF Respects, Holds, Running, RunningAfter
  <2>5. jobRuns[r].leaseExpiresAt \in Nat /\ now \in Nat
    BY <2>1, CoordinatorConstants DEF RowsOk, RunRow
  <2> QED
    BY <1>1, <2>2, <2>3, <2>4, <2>5 DEF MonitorInv
<1>4. PassInv(v)'
  BY DEF ProcessInv, PassInv, OwnedBy, Respects, Running, RunningAfter
<1> QED
  BY <1>2, <1>3, <1>4 DEF ProcessInv

(* A step of one process, which takes no token that another one has.       *)
LEMMA StepOfOne ==
  ASSUME CoordinatorInv, RowsOk', NEW w \in Workers, NEW self \in Process, Set(w, self),
         ProcessInv(w)', \A v \in Workers \ {w} : Respects(v),
         \/ self.run = NoClaim
         \/ self.run = process[w].run /\ self.token = process[w].token
         \/ self.run \in Runs /\ self.token > jobRuns[self.run].attemptCount
  PROVE  CoordinatorInv'
<1>1. /\ process \in [Workers -> Process]
      /\ \A v \in Workers : ProcessInv(v)
      /\ TokensDiffer
      /\ RowsOk
      /\ now' = now
  BY DEF CoordinatorInv, ProcessesInv, RowsOk
<1>2. /\ process' \in [Workers -> Process]
      /\ process'[w] = self
      /\ \A v \in Workers \ {w} : process'[v] = process[v]
  BY <1>1 DEF Set
<1>3. \A v \in Workers \ {w} : ProcessInv(v)'
  BY <1>1, <1>2, BystanderKept
<1>4. ASSUME NEW v \in Workers \ {w}, process[v].run = self.run, process[v].run # NoClaim
      PROVE  process[v].token # self.token
  <2>1. CASE self.run = process[w].run /\ self.token = process[w].token
    BY <1>1, <1>4, <2>1 DEF TokensDiffer
  <2>2. CASE self.run \in Runs /\ self.token > jobRuns[self.run].attemptCount
    <3>1. process[v].token \in 1..jobRuns[process[v].run].attemptCount
      BY <1>1, <1>4 DEF ProcessInv, HandsInv
    <3>2. jobRuns[self.run].attemptCount \in Nat /\ self.token \in Nat
      BY <1>1, <2>2 DEF RowsOk, RunRow, Process
    <3> QED
      BY <1>4, <2>2, <3>1, <3>2
  <2> QED
    BY <1>4, <2>1, <2>2
<1>5. TokensDiffer'
  <2> SUFFICES ASSUME NEW u \in Workers, NEW v \in Workers, u # v,
                      process'[u].run = process'[v].run, process'[u].run # NoClaim
               PROVE  process'[u].token # process'[v].token
    BY DEF TokensDiffer
  <2>1. CASE u = w
    BY <1>2, <1>4, <2>1
  <2>2. CASE v = w
    BY <1>2, <1>4, <2>2
  <2>3. CASE u # w /\ v # w
    BY <1>1, <1>2, <2>3 DEF TokensDiffer
  <2> QED
    BY <2>1, <2>2, <2>3
<1> QED
  BY <1>2, <1>3, <1>5 DEF CoordinatorInv, ProcessesInv

(* A transaction that keeps every claim, in no process's name or in the    *)
(* name of one that does not look at its answer.                           *)
LEMMA StepOfNone ==
  ASSUME CoordinatorInv, RowsOk', \A r \in Runs : Kept(r), UNCHANGED process
  PROVE  CoordinatorInv'
<1>1. RowsOk /\ now' = now
  BY DEF CoordinatorInv, RowsOk
<1>2. \A v \in Workers : Respects(v)
  BY <1>1, OthersRespected
<1> QED
  BY <1>1, <1>2, BystanderKept DEF CoordinatorInv, ProcessesInv, TokensDiffer

(* A step that changes no row respects everyone.                           *)
LEMMA StepOfOneAlone ==
  ASSUME CoordinatorInv, jobRuns' = jobRuns, now' = now, NEW w \in Workers,
         NEW self \in Process, Set(w, self), ProcessInv(w)',
         self.run = NoClaim \/ (self.run = process[w].run /\ self.token = process[w].token)
  PROVE  CoordinatorInv'
<1>1. RowsOk
  BY DEF CoordinatorInv
<1>2. RowsOk' /\ \A r \in Runs : Kept(r)
  BY <1>1, NoRow
<1>3. \A v \in Workers : Respects(v)
  BY <1>1, <1>2, OthersRespected
<1> QED
  BY <1>2, <1>3, StepOfOne

-----------------------------------------------------------------------------
(* The steps of a process                                                  *)

LEMMA LeaseLength == LeaseDuration \in Nat /\ LeaseDuration > 0
BY QueueConstants

(* What the lemmas below know of the process that takes the step           *)
Known(w) ==
  /\ process[w] \in Process
  /\ ProcessInv(w)
  /\ process \in [Workers -> Process]
  /\ now = Horizon /\ now \in Nat
  /\ jobRuns \in [Runs -> RunRow]

LEMMA StepBegins ==
  ASSUME CoordinatorInv, NEW w \in Workers
  PROVE  Known(w)
BY CoordinatorConstants DEF CoordinatorInv, ProcessesInv, RowsOk, Known

(* A process without a claim: only what its worker still owns matters.     *)
LEMMA FreeProcess ==
  ASSUME NEW w \in Workers, NEW self, process'[w] = self, now' = now, self.run = NoClaim,
         self.at <= now, self.polledAt <= now, self.pc \notin {"executing", "settling"},
         PassInv(w)'
  PROVE  ProcessInv(w)'
BY DEF ProcessInv, HandsInv, MonitorInv

(* Only the process that takes the step changes.                           *)
LEMMA SetOne ==
  ASSUME process \in [Workers -> Process], NEW w \in Workers, NEW self, Set(w, self)
  PROVE  process'[w] = self
BY DEF Set

(* The records a process becomes when it has or takes nothing in its hands *)
LEMMA FreeRecords ==
  ASSUME NEW w \in Workers, process[w] \in Process, NEW pc \in Stages
  PROVE  /\ [NextPass(w) EXCEPT !.pc = pc] \in Process
         /\ [NextPass(w) EXCEPT !.pc = pc].pc = pc
         /\ [NextPass(w) EXCEPT !.pc = pc].run = NoClaim
         /\ [NextPass(w) EXCEPT !.pc = pc].at = 0
         /\ [NextPass(w) EXCEPT !.pc = pc].polledAt = 0
         /\ [Idle EXCEPT !.pc = pc] \in Process
         /\ [Idle EXCEPT !.pc = pc].pc = pc
         /\ [Idle EXCEPT !.pc = pc].run = NoClaim
         /\ [Idle EXCEPT !.pc = pc].at = 0
         /\ [Idle EXCEPT !.pc = pc].polledAt = 0
BY DEF Process, NextPass, Idle

LEMMA InitializeKeeps ==
  ASSUME CoordinatorInv, NEW w \in Workers, Initialize(w)
  PROVE  CoordinatorInv'
<1>1. Known(w)
  BY StepBegins
<1>2. /\ process[w].pc = "down"
      /\ Set(w, Idle)
      /\ UNCHANGED <<jobRuns, now>>
  BY DEF Initialize, RegisterWorker
<1>3. Idle \in Process /\ Idle.run = NoClaim /\ Idle.pc = "idle" /\ Idle.at = 0
        /\ Idle.polledAt = 0
  BY DEF Idle, Process, Stages
<1>4. process'[w] = Idle
  BY <1>1, <1>2, SetOne DEF Known
<1>5. OwnedBy(w)' = {}
  BY <1>1, <1>2 DEF Known, ProcessInv, PassInv, OwnedBy, Running
<1> HIDE DEF Idle
<1>6. PassInv(w)'
  BY <1>3, <1>4, <1>5 DEF PassInv
<1>7. ProcessInv(w)'
  BY <1>1, <1>2, <1>3, <1>4, <1>6, FreeProcess DEF Known
<1> QED
  BY <1>2, <1>3, <1>7, StepOfOneAlone

LEMMA BeginPassKeeps ==
  ASSUME CoordinatorInv, NEW w \in Workers, BeginPass(w)
  PROVE  CoordinatorInv'
<1> DEFINE self == [process[w] EXCEPT !.pc = "recovering", !.at = now]
<1>1. Known(w)
  BY StepBegins
<1>2. /\ process[w].pc = "idle"
      /\ Set(w, IF Aborted(w) THEN LoopEnded(w) ELSE self)
      /\ UNCHANGED <<jobRuns, now>>
  BY DEF BeginPass, vars
<1>3. process[w].run = NoClaim /\ \A r \in OwnedBy(w) : jobRuns[r].leaseExpiresAt <= now
  BY <1>1, <1>2 DEF Known, ProcessInv, PassInv
<1>4. OwnedBy(w)' = OwnedBy(w)
  BY <1>2 DEF OwnedBy, Running
<1>5. CASE Set(w, LoopEnded(w))
  <2>1. /\ LoopEnded(w) \in Process
        /\ LoopEnded(w).pc = "ended"
        /\ LoopEnded(w).run = NoClaim
        /\ LoopEnded(w).at = 0
        /\ LoopEnded(w).polledAt = 0
    BY <1>1, FreeRecords DEF LoopEnded, Stages, Known
  <2>2. process'[w] = LoopEnded(w)
    BY <1>1, <1>5, SetOne DEF Known
  <2>3. PassInv(w)'
    BY <2>1, <2>2 DEF PassInv
  <2>4. ProcessInv(w)'
    BY <1>1, <1>2, <2>1, <2>2, <2>3, FreeProcess DEF Known
  <2> QED
    BY <1>2, <1>5, <2>1, <2>4, StepOfOneAlone
<1>6. CASE Set(w, self)
  <2>1. /\ self \in Process
        /\ self.pc = "recovering"
        /\ self.run = NoClaim
        /\ self.at = now
        /\ self.polledAt = process[w].polledAt
    BY <1>1, <1>3 DEF Process, Stages, Known
  <2>2. process'[w] = self
    BY <1>1, <1>6, SetOne DEF Known
  <2> HIDE DEF self
  <2>3. PassInv(w)'
    BY <1>2, <1>3, <1>4, <2>1, <2>2 DEF PassInv
  <2>4. ProcessInv(w)'
    BY <1>1, <1>2, <2>1, <2>2, <2>3, FreeProcess DEF Known, ProcessInv
  <2> QED
    BY <1>2, <1>6, <2>1, <2>4, StepOfOneAlone
<1> QED
  BY <1>2, <1>5, <1>6

LEMMA RecoverPassKeeps ==
  ASSUME CoordinatorInv, NEW w \in Workers, RecoverPass(w)
  PROVE  CoordinatorInv'
<1> DEFINE at == process[w].at
           claiming == [process[w] EXCEPT !.pc = "claiming"]
<1>1. Known(w) /\ RowsOk
  BY StepBegins DEF CoordinatorInv
<1>2. /\ process[w].pc = "recovering"
      /\ at \in Nat
      /\ at <= now
      /\ process[w].run = NoClaim
      /\ \A r \in OwnedBy(w) : jobRuns[r].leaseExpiresAt <= at
  BY <1>1 DEF RecoverPass, Known, ProcessInv, PassInv, Process
<1> HIDE DEF at
<1>3. /\ RowsOk'
      /\ now' = now
      /\ \A r \in Runs : Expired(r, at) => Ended(r)
      /\ \A r \in Runs : ~Expired(r, at) => Kept(r)
  <2>1. CASE RecoverExpiredClaims(Runs, RetryDelay, at)
    BY <1>1, <1>2, <2>1, RecoveryEnds DEF RecoverExpiredClaims
  <2>2. CASE (\A r \in Runs : ~Expired(r, at)) /\ UNCHANGED vars
    BY <1>1, <2>2, NoRow DEF vars
  <2> QED
    BY <2>1, <2>2 DEF RecoverPass, at
<1>4. OwnedBy(w)' = {}
  BY <1>2, <1>3 DEF OwnedBy, Expired, Ended, Kept, Running, RunningAfter
<1>5. \A v \in Workers : Respects(v)
  <2>1. \A r \in Runs : Kept(r) \/ (Ended(r) /\ jobRuns[r].leaseExpiresAt <= now)
    BY <1>1, <1>2, <1>3 DEF Expired, RowsOk, RunRow, Known
  <2> QED
    BY <1>1, <1>3, <2>1, OthersRespected
<1>6. ASSUME NEW self \in Process, Set(w, self), self.run = NoClaim, self.at <= now,
             self.polledAt <= now, self.pc \in {"claiming", "ended"}
      PROVE  CoordinatorInv'
  <2>1. process'[w] = self
    BY <1>1, <1>6, SetOne DEF Known
  <2>2. PassInv(w)'
    BY <1>4, <1>6, <2>1 DEF PassInv
  <2>3. ProcessInv(w)'
    BY <1>3, <1>6, <2>1, <2>2, FreeProcess
  <2> QED
    BY <1>3, <1>5, <1>6, <2>3, StepOfOne
<1>7. /\ LoopEnded(w) \in Process
      /\ LoopEnded(w).pc = "ended"
      /\ LoopEnded(w).run = NoClaim
      /\ LoopEnded(w).at = 0
      /\ LoopEnded(w).polledAt = 0
  BY <1>1, FreeRecords DEF LoopEnded, Stages, Known
<1>8. /\ claiming \in Process
      /\ claiming.pc = "claiming"
      /\ claiming.run = NoClaim
      /\ claiming.at = at
      /\ claiming.polledAt = process[w].polledAt
  BY <1>1, <1>2 DEF Process, Stages, Known, at
<1>9. Set(w, LoopEnded(w)) \/ Set(w, claiming)
  BY DEF RecoverPass
<1>10. 0 <= now /\ process[w].polledAt <= now
  BY <1>1 DEF Known, ProcessInv
<1> HIDE DEF claiming
<1> QED
  BY <1>2, <1>6, <1>7, <1>8, <1>9, <1>10

(* The process of a claim that just began                                  *)
LEMMA StartedRecord ==
  ASSUME NEW w \in Workers, Known(w), NEW r \in Runs, jobRuns'[r] \in RunRow
  PROVE  LET self == Started(w, r)
         IN /\ self \in Process
            /\ self.pc = "executing"
            /\ self.run = r
            /\ self.token = jobRuns'[r].leaseToken
            /\ self.expiresAt = jobRuns'[r].leaseExpiresAt
            /\ self.stop = "none"
            /\ self.polledAt = now
            /\ self.renewing = FALSE
            /\ self.at = 0
<1> DEFINE token == jobRuns'[r].leaseToken
           expiresAt == jobRuns'[r].leaseExpiresAt
           renewDue == jobRuns'[r].updatedAt + RenewInterval
           begun == [NextPass(w) EXCEPT !.pc = "executing", !.run = r, !.token = token,
                                        !.expiresAt = expiresAt]
           self == [begun EXCEPT !.polledAt = now, !.renewDue = renewDue]
<1>1. token \in Nat /\ expiresAt \in Nat /\ renewDue \in Nat /\ now \in Nat
  BY CoordinatorConstants DEF RunRow, Known
<1>2. NextPass(w) \in Process
  BY DEF NextPass, Idle, Process, Stages, Known
<1>3. NextPass(w).stop = "none" /\ NextPass(w).at = 0 /\ NextPass(w).renewing = FALSE
  BY DEF NextPass, Idle
<1> HIDE DEF token, expiresAt, renewDue
<1>4. begun \in Process
  BY <1>1, <1>2 DEF Process, Stages
<1>5. /\ begun.pc = "executing"
      /\ begun.run = r
      /\ begun.token = token
      /\ begun.expiresAt = expiresAt
      /\ begun.stop = "none"
      /\ begun.at = 0
      /\ begun.renewing = FALSE
  BY <1>2, <1>3 DEF Process
<1>6. Started(w, r) = Watched(begun, renewDue)
  BY DEF Started, token, expiresAt, renewDue
<1> HIDE DEF begun
<1>7. Started(w, r) = self
  BY <1>5, <1>6 DEF Watched
<1>8. self \in Process
  BY <1>1, <1>4 DEF Process
<1>9. /\ self.pc = "executing"
      /\ self.run = r
      /\ self.token = token
      /\ self.expiresAt = expiresAt
      /\ self.stop = "none"
      /\ self.polledAt = now
      /\ self.renewing = FALSE
      /\ self.at = 0
  BY <1>4, <1>5 DEF Process
<1> QED
  BY <1>7, <1>8, <1>9 DEF token, expiresAt

LEMMA ClaimPassKeeps ==
  ASSUME CoordinatorInv, NEW w \in Workers, ClaimPass(w)
  PROVE  CoordinatorInv'
<1> DEFINE at == process[w].at
<1>1. Known(w) /\ RowsOk
  BY StepBegins DEF CoordinatorInv
<1>2. /\ process[w].pc = "claiming"
      /\ ClaimNextRun(w, at)
      /\ at \in Nat
      /\ at <= now
      /\ OwnedBy(w) = {}
  BY <1>1 DEF ClaimPass, Known, ProcessInv, PassInv, Process
<1> HIDE DEF at
<1>3. /\ RowsOk'
      /\ now' = now
      /\ \/ jobRuns' = jobRuns
         \/ \E r \in Runs : /\ WorkerMayClaim(w, at)
                            /\ Begun(r, w)
                            /\ \A q \in Runs \ {r} : Kept(q) /\ jobRuns'[q] = jobRuns[q]
  BY <1>1, <1>2, ClaimBegins
<1>4. CASE jobRuns' = jobRuns
  <2>1. Set(w, NextPass(w)) \/ Set(w, LoopEnded(w))
    BY <1>4 DEF ClaimPass
  <2>2. OwnedBy(w)' = {}
    BY <1>2, <1>4 DEF OwnedBy, Running
  <2>3. ASSUME NEW self \in Process, Set(w, self), self.run = NoClaim, self.at = 0,
               self.polledAt = 0, self.pc \in {"idle", "ended"}
        PROVE  CoordinatorInv'
    <3>1. process'[w] = self
      BY <1>1, <2>3, SetOne DEF Known
    <3>2. PassInv(w)'
      BY <2>2, <2>3, <3>1 DEF PassInv
    <3>3. ProcessInv(w)'
      BY <1>1, <1>3, <2>3, <3>1, <3>2, FreeProcess DEF Known
    <3> QED
      BY <1>3, <1>4, <2>3, <3>3, StepOfOneAlone
  <2>4. /\ LoopEnded(w) \in Process
        /\ LoopEnded(w).pc = "ended"
        /\ LoopEnded(w).run = NoClaim
        /\ LoopEnded(w).at = 0
        /\ LoopEnded(w).polledAt = 0
    BY <1>1, FreeRecords DEF LoopEnded, Stages, Known
  <2>5. /\ NextPass(w) \in Process
        /\ NextPass(w).pc = "idle"
        /\ NextPass(w).run = NoClaim
        /\ NextPass(w).at = 0
        /\ NextPass(w).polledAt = 0
    BY <1>1 DEF NextPass, Idle, Process, Stages, Known
  <2> QED
    BY <2>1, <2>3, <2>4, <2>5
<1>5. CASE jobRuns' # jobRuns
  <2>1. PICK q \in Runs : jobRuns'[q] # jobRuns[q] /\ Set(w, Started(w, q))
    BY <1>5 DEF ClaimPass
  <2>2. /\ Begun(q, w)
        /\ \A r \in Runs \ {q} : Kept(r) /\ jobRuns'[r] = jobRuns[r]
    BY <1>3, <1>5, <2>1
  <2> DEFINE self == Started(w, q)
  <2>3. /\ jobRuns'[q] \in RunRow
        /\ jobRuns'[q].updatedAt \in Nat
        /\ jobRuns'[q].updatedAt <= now
        /\ jobRuns[q].attemptCount \in Nat
    BY <1>1, <1>3 DEF RowsOk, RowOk, RunRow
  <2>4. /\ self \in Process
        /\ self.pc = "executing"
        /\ self.run = q
        /\ self.token = jobRuns'[q].leaseToken
        /\ self.expiresAt = jobRuns'[q].leaseExpiresAt
        /\ self.stop = "none"
        /\ self.polledAt = now
        /\ self.renewing = FALSE
        /\ self.at = 0
    BY <1>1, <2>3, StartedRecord
  <2>5. process'[w] = self
    BY <1>1, <2>1, SetOne DEF Known
  <2> HIDE DEF self
  <2>6. \A v \in Workers \ {w} : Respects(v)
    <3>1. \A v \in Workers \ {w} : \A r \in Runs :
            Kept(r) \/ (\E u \in Workers \ {v} : Begun(r, u))
      BY <2>2
    <3> QED
      BY <1>1, <1>3, <3>1, OthersRespected
  <2>7. \A r \in OwnedBy(w)' : r = q
    BY <1>2, <2>2 DEF OwnedBy, Kept, Running, RunningAfter
  <2>8. /\ RunningAfter(q)
        /\ jobRuns'[q].leaseOwner = w
        /\ jobRuns'[q].attemptCount = jobRuns[q].attemptCount + 1
        /\ jobRuns'[q].leaseToken = jobRuns[q].attemptCount + 1
        /\ jobRuns'[q].leaseExpiresAt = jobRuns'[q].updatedAt + LeaseDuration
    BY <2>2 DEF Begun
  <2>9. HandsInv(w)'
    BY <2>3, <2>4, <2>5, <2>7, <2>8 DEF HandsInv
  <2>10. MonitorInv(w)'
    <3>1. Holds(w)'
      BY <2>4, <2>5, <2>8 DEF Holds, Running, RunningAfter
    <3>2. jobRuns'[q].leaseExpiresAt \in Nat /\ jobRuns'[q].leaseExpiresAt <= now + LeaseDuration
      BY <1>1, <2>3, <2>8, LeaseLength DEF Known
    <3> QED
      BY <2>4, <2>5, <3>1, <3>2 DEF MonitorInv
  <2>11. ProcessInv(w)'
    <3>1. q # NoClaim
      BY CoordinatorConstants
    <3> QED
      BY <1>1, <1>3, <2>4, <2>5, <2>9, <2>10, <3>1 DEF ProcessInv, PassInv, Known
  <2>12. self.token > jobRuns[q].attemptCount
    BY <2>3, <2>4, <2>8
  <2> QED
    BY <1>3, <2>1, <2>4, <2>6, <2>11, <2>12, StepOfOne DEF self
<1> QED
  BY <1>4, <1>5

(* A step of the monitor: the claim and what the process knows of it stay. *)
LEMMA MonitorStep ==
  ASSUME CoordinatorInv, jobRuns' = jobRuns, now' = now, NEW w \in Workers,
         NEW self \in Process, Set(w, self),
         process[w].pc = "executing", self.pc = "executing",
         self.run = process[w].run, self.token = process[w].token,
         self.expiresAt = process[w].expiresAt, self.at <= now, self.polledAt <= now,
         self.stop = "claim-lost" =>
           /\ ~self.renewing
           /\ Holds(w) => jobRuns[self.run].leaseExpiresAt <= now,
         Holds(w) /\ self.stop = "none" =>
           jobRuns[self.run].leaseExpiresAt <= self.polledAt + LeaseDuration,
         Holds(w) /\ self.renewing =>
           jobRuns[self.run].leaseExpiresAt < self.at + LeaseDuration
  PROVE  CoordinatorInv'
<1>1. Known(w)
  BY StepBegins
<1>2. process'[w] = self
  BY <1>1, SetOne DEF Known
<1>3. HandsInv(w)'
  BY <1>1, <1>2 DEF Known, ProcessInv, HandsInv, OwnedBy, Running
<1>4. Holds(w)' <=> Holds(w)
  BY <1>2 DEF Holds, Running
<1>5. MonitorInv(w)'
  BY <1>1, <1>2, <1>4 DEF Known, ProcessInv, MonitorInv
<1>6. ProcessInv(w)'
  BY <1>1, <1>2, <1>3, <1>5 DEF Known, ProcessInv, PassInv
<1> QED
  BY <1>6, StepOfOneAlone

Reasons == {"claim-lost", "cancelled", "timed-out", "shutdown"}

LEMMA StoppedRecord ==
  ASSUME NEW self \in Process, NEW reason \in Reasons
  PROVE  LET stopped == Stopped(self, reason)
         IN /\ stopped \in Process
            /\ stopped.pc = self.pc
            /\ stopped.run = self.run
            /\ stopped.token = self.token
            /\ stopped.expiresAt = self.expiresAt
            /\ stopped.at = self.at
            /\ stopped.renewing = self.renewing
            /\ stopped.stop = IF self.stop = "none" THEN reason ELSE self.stop
            /\ stopped.polledAt \in {0, self.polledAt}
<1>1. CASE self.stop = "none"
  <2> DEFINE stopped == [self EXCEPT !.stop = reason, !.polledAt = 0, !.renewDue = 0]
  <2>1. Stopped(self, reason) = stopped
    BY <1>1 DEF Stopped
  <2>2. stopped \in Process
    BY DEF Process, Reasons
  <2>3. /\ stopped.pc = self.pc
        /\ stopped.run = self.run
        /\ stopped.token = self.token
        /\ stopped.expiresAt = self.expiresAt
        /\ stopped.at = self.at
        /\ stopped.renewing = self.renewing
        /\ stopped.stop = reason
        /\ stopped.polledAt = 0
    BY DEF Process
  <2> HIDE DEF stopped
  <2> QED
    BY <1>1, <2>1, <2>2, <2>3
<1>2. CASE self.stop # "none"
  <2>1. Stopped(self, reason) = self
    BY <1>2 DEF Stopped
  <2> QED
    BY <1>2, <2>1
<1> QED
  BY <1>1, <1>2

LEMMA TimeoutKeeps ==
  ASSUME CoordinatorInv, NEW w \in Workers, Timeout(w)
  PROVE  CoordinatorInv'
<1> DEFINE self == Stopped(process[w], "timed-out")
<1>1. Known(w)
  BY StepBegins
<1>2. /\ process[w].pc = "executing"
      /\ process[w].stop = "none"
      /\ Set(w, self)
      /\ jobRuns' = jobRuns
      /\ now' = now
  BY DEF Timeout, vars
<1>3. /\ self \in Process
      /\ self.pc = process[w].pc
      /\ self.run = process[w].run
      /\ self.token = process[w].token
      /\ self.expiresAt = process[w].expiresAt
      /\ self.at = process[w].at
      /\ self.renewing = process[w].renewing
      /\ self.stop = "timed-out"
      /\ self.polledAt \in {0, process[w].polledAt}
  BY <1>1, <1>2, StoppedRecord DEF Known, Reasons
<1> HIDE DEF self
<1>4. self.at <= now /\ self.polledAt <= now
  BY <1>1, <1>3 DEF Known, ProcessInv
<1>5. Holds(w) /\ self.renewing => jobRuns[self.run].leaseExpiresAt < self.at + LeaseDuration
  BY <1>1, <1>2, <1>3 DEF Known, ProcessInv, MonitorInv
<1> QED
  BY <1>2, <1>3, <1>4, <1>5, MonitorStep

LEMMA MonitorPollKeeps ==
  ASSUME CoordinatorInv, NEW w \in Workers, MonitorPoll(w)
  PROVE  CoordinatorInv'
<1> DEFINE self == process[w]
           row == jobRuns[self.run]
           lost == Stopped(self, "claim-lost")
           cancelled == Stopped(self, "cancelled")
           watching == [self EXCEPT !.polledAt = now]
           renewing == [self EXCEPT !.polledAt = now, !.renewing = TRUE, !.at = now]
<1>1. Known(w)
  BY StepBegins
<1>2. /\ self.pc = "executing"
      /\ self.stop = "none"
      /\ self.renewing = FALSE
      /\ self.polledAt < now
      /\ self.at <= now
      /\ self \in Process
      /\ self.polledAt \in Nat
      /\ now \in Nat
      /\ jobRuns' = jobRuns
      /\ now' = now
  BY <1>1 DEF MonitorPoll, PollDue, vars, Known, ProcessInv, Process
<1>3. self.run \in Runs /\ row.leaseExpiresAt \in Nat
  <2>1. self.run \in Runs
    BY <1>1, <1>2, RunInHands DEF Known
  <2> QED
    BY <1>1, <2>1 DEF Known, RunRow
<1>4. Holds(w) => row.leaseExpiresAt <= self.polledAt + LeaseDuration
  BY <1>1, <1>2 DEF Known, ProcessInv, MonitorInv
<1>5. \/ ~ClaimFence(w, self.run, self.token, now) /\ Set(w, lost)
      \/ Set(w, cancelled)
      \/ Set(w, watching)
      \/ Set(w, renewing)
  BY DEF MonitorPoll
<1>6. ASSUME ~ClaimFence(w, self.run, self.token, now), Set(w, lost)
      PROVE  CoordinatorInv'
  <2>1. /\ lost \in Process
        /\ lost.pc = self.pc
        /\ lost.run = self.run
        /\ lost.token = self.token
        /\ lost.expiresAt = self.expiresAt
        /\ lost.at = self.at
        /\ lost.renewing = self.renewing
        /\ lost.stop = "claim-lost"
        /\ lost.polledAt \in {0, self.polledAt}
    BY <1>2, StoppedRecord DEF Reasons
  <2>2. Holds(w) => row.leaseExpiresAt <= now
    BY <1>2, <1>3, <1>6 DEF ClaimFence, Holds
  <2> HIDE DEF lost
  <2>3. lost.polledAt <= now
    BY <1>2, <2>1
  <2> QED
    BY <1>2, <1>6, <2>1, <2>2, <2>3, MonitorStep
<1>7. ASSUME Set(w, cancelled)
      PROVE  CoordinatorInv'
  <2>1. /\ cancelled \in Process
        /\ cancelled.pc = self.pc
        /\ cancelled.run = self.run
        /\ cancelled.token = self.token
        /\ cancelled.expiresAt = self.expiresAt
        /\ cancelled.at = self.at
        /\ cancelled.renewing = self.renewing
        /\ cancelled.stop = "cancelled"
        /\ cancelled.polledAt \in {0, self.polledAt}
    BY <1>2, StoppedRecord DEF Reasons
  <2> HIDE DEF cancelled
  <2>2. cancelled.polledAt <= now
    BY <1>2, <2>1
  <2> QED
    BY <1>2, <1>7, <2>1, <2>2, MonitorStep
<1>8. ASSUME Set(w, watching)
      PROVE  CoordinatorInv'
  <2>1. watching \in Process
    BY <1>2 DEF Process
  <2>2. /\ watching.pc = self.pc
        /\ watching.run = self.run
        /\ watching.token = self.token
        /\ watching.expiresAt = self.expiresAt
        /\ watching.at = self.at
        /\ watching.renewing = FALSE
        /\ watching.stop = "none"
        /\ watching.polledAt = now
    BY <1>2 DEF Process
  <2> HIDE DEF watching
  <2>3. Holds(w) => row.leaseExpiresAt <= now + LeaseDuration
    BY <1>2, <1>3, <1>4, LeaseLength
  <2>4. now <= now
    BY <1>2
  <2> QED
    BY <1>2, <1>8, <2>1, <2>2, <2>3, <2>4, MonitorStep
<1>9. ASSUME Set(w, renewing)
      PROVE  CoordinatorInv'
  <2>1. renewing \in Process
    BY <1>2 DEF Process
  <2>2. /\ renewing.pc = self.pc
        /\ renewing.run = self.run
        /\ renewing.token = self.token
        /\ renewing.expiresAt = self.expiresAt
        /\ renewing.at = now
        /\ renewing.renewing = TRUE
        /\ renewing.stop = "none"
        /\ renewing.polledAt = now
    BY <1>2 DEF Process
  <2> HIDE DEF renewing
  <2>3. Holds(w) => row.leaseExpiresAt < now + LeaseDuration
    BY <1>2, <1>3, <1>4, LeaseLength
  <2>4. Holds(w) => row.leaseExpiresAt <= now + LeaseDuration
    BY <1>2, <1>3, <1>4, LeaseLength
  <2>5. now <= now
    BY <1>2
  <2> QED
    BY <1>2, <1>9, <2>1, <2>2, <2>3, <2>4, <2>5, MonitorStep
<1> QED
  BY <1>5, <1>6, <1>7, <1>8, <1>9

(* The process of a renewal that succeeded; if the action was stopped      *)
(* meanwhile, the monitor does not wait for another poll.                  *)
Renewed(self, expiresAt, renewDue) ==
  Watched([self EXCEPT !.renewing = FALSE, !.at = 0, !.expiresAt = expiresAt], renewDue)

LEMMA RenewedRecord ==
  ASSUME NEW self, NEW expiresAt, NEW renewDue,
         self \in Process, expiresAt \in Nat, renewDue \in Nat, now \in Nat
  PROVE  LET renewed == Renewed(self, expiresAt, renewDue)
         IN /\ renewed \in Process
            /\ renewed.pc = self.pc
            /\ renewed.run = self.run
            /\ renewed.token = self.token
            /\ renewed.expiresAt = expiresAt
            /\ renewed.at = 0
            /\ ~renewed.renewing
            /\ renewed.stop = self.stop
            /\ self.stop = "none" => renewed.polledAt = now
            /\ self.stop # "none" => renewed.polledAt = self.polledAt
<1> DEFINE answered == [self EXCEPT !.renewing = FALSE, !.at = 0, !.expiresAt = expiresAt]
           waiting == [answered EXCEPT !.polledAt = now, !.renewDue = renewDue]
           renewed == Renewed(self, expiresAt, renewDue)
<1>1. answered \in Process
  BY DEF Process
<1>2. /\ answered.pc = self.pc
      /\ answered.run = self.run
      /\ answered.token = self.token
      /\ answered.expiresAt = expiresAt
      /\ answered.at = 0
      /\ answered.renewing = FALSE
      /\ answered.stop = self.stop
      /\ answered.polledAt = self.polledAt
  BY DEF Process
<1> HIDE DEF answered
<1>3. waiting \in Process
  BY <1>1 DEF Process
<1>4. /\ waiting.pc = answered.pc
      /\ waiting.run = answered.run
      /\ waiting.token = answered.token
      /\ waiting.expiresAt = answered.expiresAt
      /\ waiting.at = answered.at
      /\ waiting.renewing = answered.renewing
      /\ waiting.stop = answered.stop
      /\ waiting.polledAt = now
  BY <1>1 DEF Process
<1>5. renewed = IF self.stop = "none" THEN waiting ELSE answered
  BY <1>2 DEF Watched, Renewed, answered
<1> HIDE DEF waiting, renewed
<1>6. CASE self.stop = "none"
  <2>1. renewed = waiting
    BY <1>5, <1>6
  <2> QED
    BY <1>2, <1>3, <1>4, <1>6, <2>1 DEF renewed
<1>7. CASE self.stop # "none"
  <2>1. renewed = answered
    BY <1>5, <1>7
  <2> QED
    BY <1>1, <1>2, <1>7, <2>1 DEF renewed
<1> QED
  BY <1>6, <1>7

LEMMA RenewKeeps ==
  ASSUME CoordinatorInv, NEW w \in Workers, Renew(w)
  PROVE  CoordinatorInv'
<1> DEFINE self == process[w]
           r == self.run
           stopped == Stopped(self, "claim-lost")
           lost == [stopped EXCEPT !.renewing = FALSE, !.at = 0]
<1>1. Known(w) /\ RowsOk
  BY StepBegins DEF CoordinatorInv
<1>2. /\ self.pc = "executing"
      /\ self.renewing
      /\ self \in Process
      /\ self.at \in Nat
      /\ self.at <= now
      /\ self.polledAt \in Nat
      /\ self.polledAt <= now
      /\ now \in Nat
      /\ r \in Runs
  <2>1. /\ self.pc = "executing"
        /\ self.renewing
        /\ self \in Process
        /\ self.at <= now
        /\ self.polledAt <= now
        /\ now \in Nat
    BY <1>1 DEF Renew, Known, ProcessInv
  <2>2. self.at \in Nat /\ self.polledAt \in Nat
    BY <2>1 DEF Process
  <2> QED
    BY <1>1, <2>1, <2>2, RunInHands DEF Known
<1>3. /\ HandsInv(w)
      /\ MonitorInv(w)
  BY <1>1 DEF Known, ProcessInv
<1>4. ASSUME RenewClaim(w, r, self.token, self.at),
             NEW expiresAt, expiresAt = jobRuns'[r].leaseExpiresAt,
             NEW renewDue, renewDue = self.at + RenewInterval,
             Set(w, Renewed(self, expiresAt, renewDue))
      PROVE  CoordinatorInv'
  <2> DEFINE renewed == Renewed(self, expiresAt, renewDue)
  <2>1. /\ RowsOk'
        /\ Extended(r)
        /\ \A q \in Runs \ {r} : Kept(q)
        /\ now' = now
    BY <1>1, <1>2, <1>4, RenewalExtends DEF RowsOk
  <2>2. Holds(w)
    BY <1>4 DEF RenewClaim, ClaimFence, Holds
  <2>3. /\ jobRuns'[r] \in RunRow
        /\ jobRuns'[r].updatedAt \in Nat
        /\ jobRuns'[r].updatedAt <= now
        /\ expiresAt \in Nat
        /\ renewDue \in Nat
    BY <1>1, <1>2, <1>4, <2>1, CoordinatorConstants DEF RowsOk, RowOk, RunRow
  <2>4. /\ renewed \in Process
        /\ renewed.pc = self.pc
        /\ renewed.run = self.run
        /\ renewed.token = self.token
        /\ renewed.expiresAt = expiresAt
        /\ renewed.at = 0
        /\ ~renewed.renewing
        /\ renewed.stop = self.stop
        /\ self.stop = "none" => renewed.polledAt = now
        /\ self.stop # "none" => renewed.polledAt = self.polledAt
    <3>1. self \in Process /\ expiresAt \in Nat /\ renewDue \in Nat /\ now \in Nat
      BY <1>2, <2>3
    <3> QED
      BY <3>1, RenewedRecord
  <2>5. process'[w] = renewed
    BY <1>1, <1>4, SetOne DEF Known, renewed
  <2> HIDE DEF renewed
  <2>6. \A v \in Workers \ {w} : Respects(v)
    BY <1>1, <2>1, <2>2, OthersRespected DEF Holds
  <2>7. Holds(w)'
    BY <1>2, <2>1, <2>2, <2>4, <2>5 DEF Extended, Holds, Running, RunningAfter
  <2>8. HandsInv(w)'
    <3>1. \A q \in OwnedBy(w)' : q \in OwnedBy(w) /\ jobRuns'[q].leaseToken = jobRuns[q].leaseToken
      BY <2>1, <2>2 DEF OwnedBy, Kept, Extended, Holds, Running, RunningAfter
    <3>2. jobRuns'[r].leaseOwner = w /\ jobRuns'[r].attemptCount = jobRuns[r].attemptCount
      BY <2>1, <2>2 DEF Extended, Holds
    <3> QED
      BY <1>2, <1>3, <2>4, <2>5, <3>1, <3>2 DEF HandsInv
  <2>9. MonitorInv(w)'
    <3>1. expiresAt <= now + LeaseDuration
      <4>1. expiresAt = jobRuns'[r].updatedAt + LeaseDuration
        BY <1>4, <2>1 DEF Extended
      <4> QED
        BY <1>2, <2>3, <4>1, LeaseLength
    <3>2. self.stop # "claim-lost"
      BY <1>2, <1>3 DEF MonitorInv
    <3> QED
      BY <2>1, <2>3, <2>4, <2>5, <2>7, <3>1, <3>2, <1>4 DEF MonitorInv
  <2>10. ProcessInv(w)'
    <3>1. renewed.polledAt <= now /\ 0 <= now
      BY <1>2, <2>4
    <3>2. r # NoClaim
      BY <1>2, CoordinatorConstants
    <3> QED
      BY <1>2, <2>1, <2>4, <2>5, <2>8, <2>9, <3>1, <3>2 DEF ProcessInv, PassInv
  <2> QED
    BY <1>4, <2>1, <2>4, <2>6, <2>10, StepOfOne DEF renewed
<1>5. ASSUME ~ClaimFence(w, r, self.token, self.at), Set(w, lost), jobRuns' = jobRuns, now' = now
      PROVE  CoordinatorInv'
  <2>1. /\ stopped \in Process
        /\ stopped.pc = self.pc
        /\ stopped.run = self.run
        /\ stopped.token = self.token
        /\ stopped.expiresAt = self.expiresAt
        /\ stopped.stop = IF self.stop = "none" THEN "claim-lost" ELSE self.stop
        /\ stopped.polledAt \in {0, self.polledAt}
    BY <1>2, StoppedRecord DEF Reasons
  <2> HIDE DEF stopped
  <2>2. lost \in Process
    BY <2>1 DEF Process
  <2>3. /\ lost.pc = stopped.pc
        /\ lost.run = stopped.run
        /\ lost.token = stopped.token
        /\ lost.expiresAt = stopped.expiresAt
        /\ lost.stop = stopped.stop
        /\ lost.polledAt = stopped.polledAt
        /\ lost.at = 0
        /\ lost.renewing = FALSE
    BY <2>1 DEF Process
  <2> HIDE DEF lost
  <2>4. lost.polledAt <= now /\ lost.at <= now
    BY <1>2, <2>1, <2>3
  <2>5. Holds(w) => jobRuns[lost.run].leaseExpiresAt <= now
    <3>1. jobRuns[r].leaseExpiresAt \in Nat
      BY <1>1, <1>2 DEF Known, RunRow
    <3> QED
      BY <1>2, <1>5, <2>1, <2>3, <3>1 DEF ClaimFence, Holds
  <2>6. lost.stop # "none"
    BY <2>1, <2>3
  <2> QED
    BY <1>2, <1>5, <2>1, <2>2, <2>3, <2>4, <2>5, <2>6, MonitorStep
<1> QED
  BY <1>4, <1>5 DEF Renew, Renewed, vars

(* A process that lets its claim go comes back to the loop when the claim  *)
(* has expired.                                                            *)
LEMMA LetGo ==
  ASSUME CoordinatorInv, jobRuns' = jobRuns, now' = now, NEW w \in Workers,
         Set(w, NextPass(w)), \A r \in OwnedBy(w) : jobRuns[r].leaseExpiresAt <= now
  PROVE  CoordinatorInv'
<1> DEFINE self == NextPass(w)
<1>1. Known(w)
  BY StepBegins
<1>2. /\ self \in Process
      /\ self.pc = "idle"
      /\ self.run = NoClaim
      /\ self.at = 0
      /\ self.polledAt = 0
  BY <1>1 DEF NextPass, Idle, Process, Stages, Known
<1>3. process'[w] = self
  BY <1>1, SetOne DEF Known
<1> HIDE DEF self
<1>4. \A r \in OwnedBy(w)' : jobRuns'[r].leaseExpiresAt <= now
  BY DEF OwnedBy, Running
<1>5. PassInv(w)'
  BY <1>2, <1>3, <1>4 DEF PassInv
<1>6. 0 <= now
  BY <1>1 DEF Known
<1>7. ProcessInv(w)'
  BY <1>2, <1>3, <1>5, <1>6, FreeProcess
<1> QED
  BY <1>2, <1>7, StepOfOneAlone DEF self

(* A process that is gone knows nothing.                                   *)
LEMMA Gone ==
  ASSUME CoordinatorInv, jobRuns' = jobRuns, now' = now, NEW w \in Workers,
         Set(w, [Idle EXCEPT !.pc = "exited"])
  PROVE  CoordinatorInv'
<1> DEFINE self == [Idle EXCEPT !.pc = "exited"]
<1>1. Known(w)
  BY StepBegins
<1>2. /\ self \in Process
      /\ self.pc = "exited"
      /\ self.run = NoClaim
      /\ self.at = 0
      /\ self.polledAt = 0
  BY DEF Idle, Process, Stages
<1>3. process'[w] = self
  BY <1>1, SetOne DEF Known
<1> HIDE DEF self
<1>4. PassInv(w)'
  BY <1>2, <1>3 DEF PassInv
<1>5. 0 <= now
  BY <1>1 DEF Known
<1>6. ProcessInv(w)'
  BY <1>2, <1>3, <1>4, <1>5, FreeProcess
<1> QED
  BY <1>2, <1>6, StepOfOneAlone DEF self

LEMMA FinishActionKeeps ==
  ASSUME CoordinatorInv, NEW w \in Workers, NEW succeeded \in BOOLEAN, NEW retryable \in BOOLEAN,
         FinishAction(w, succeeded, retryable)
  PROVE  CoordinatorInv'
<1> DEFINE self == process[w]
           outcome == CASE succeeded -> "succeeded"
                        [] ~succeeded /\ self.stop \in {"timed-out", "cancelled"} -> self.stop
                        [] OTHER -> "failed"
           retries == outcome = "failed" /\ retryable
           settling == [NextPass(w) EXCEPT
                          !.pc = "settling", !.at = now, !.run = self.run, !.token = self.token,
                          !.outcome = outcome, !.retryable = retries]
<1>1. Known(w)
  BY StepBegins
<1>2. /\ self.pc = "executing"
      /\ self \in Process
      /\ now \in Nat
      /\ jobRuns' = jobRuns
      /\ now' = now
      /\ HandsInv(w)
      /\ MonitorInv(w)
  BY <1>1 DEF FinishAction, vars, Known, ProcessInv
<1>3. outcome \in TerminalStates
  BY DEF TerminalStates
<1>4. retries \in BOOLEAN
  OBVIOUS
<1>5. \/ self.stop = "claim-lost" /\ Set(w, NextPass(w))
      \/ Set(w, settling)
  BY DEF FinishAction
<1> HIDE DEF outcome, retries
<1>6. ASSUME self.stop = "claim-lost", Set(w, NextPass(w))
      PROVE  CoordinatorInv'
  <2>1. \A r \in OwnedBy(w) : jobRuns[r].leaseExpiresAt <= now
    BY <1>2, <1>6 DEF HandsInv, MonitorInv, Holds, OwnedBy
  <2> QED
    BY <1>2, <1>6, <2>1, LetGo
<1>7. ASSUME Set(w, settling)
      PROVE  CoordinatorInv'
  <2>1. NextPass(w) \in Process
    BY <1>2 DEF NextPass, Idle, Process, Stages
  <2>2. NextPass(w).polledAt = 0
    BY DEF NextPass, Idle
  <2> HIDE DEF self
  <2>3. self.run \in Runs \cup {NoClaim} /\ self.token \in Nat
    BY <1>2 DEF Process
  <2>4. settling \in Process
    BY <1>2, <1>3, <1>4, <2>1, <2>3 DEF Process, Stages
  <2>5. /\ settling.pc = "settling"
        /\ settling.at = now
        /\ settling.run = self.run
        /\ settling.token = self.token
        /\ settling.outcome = outcome
        /\ settling.polledAt = 0
    BY <2>1, <2>2 DEF Process
  <2>6. process'[w] = settling
    BY <1>1, <1>7, SetOne DEF Known
  <2> HIDE DEF settling
  <2>7. HandsInv(w)'
    BY <1>2, <2>5, <2>6 DEF HandsInv, OwnedBy, Running, self
  <2>8. self.run # NoClaim
    BY <1>1, <1>2 DEF Known, ProcessInv, self
  <2>9. now <= now /\ 0 <= now
    BY <1>2
  <2>10. ProcessInv(w)'
    BY <1>2, <1>3, <2>5, <2>6, <2>7, <2>8, <2>9 DEF ProcessInv, MonitorInv, PassInv
  <2> QED
    BY <1>2, <1>7, <2>4, <2>5, <2>10, StepOfOneAlone DEF self
<1> QED
  BY <1>5, <1>6, <1>7

LEMMA SettleKeeps ==
  ASSUME CoordinatorInv, NEW w \in Workers, Settle(w)
  PROVE  CoordinatorInv'
<1> DEFINE self == process[w]
           r == self.run
           outcome == self.outcome
           retryable == self.retryable
<1>1. Known(w) /\ RowsOk
  BY StepBegins DEF CoordinatorInv
<1>2. /\ self.pc = "settling"
      /\ self \in Process
      /\ self.at <= now
      /\ outcome \in TerminalStates
      /\ HandsInv(w)
      /\ Set(w, NextPass(w))
  BY <1>1 DEF Settle, Known, ProcessInv
<1>3. /\ self.at \in Nat
      /\ retryable \in BOOLEAN
      /\ r \in Runs
  BY <1>1, <1>2, RunInHands DEF Process, Known
<1>4. CASE SettleClaim(w, r, self.token, self.at, outcome, retryable)
  <2> HIDE DEF outcome, retryable
  <2>1. /\ RowsOk'
        /\ Ended(r)
        /\ \A q \in Runs \ {r} : Kept(q)
        /\ now' = now
    BY <1>1, <1>2, <1>3, <1>4, SettlementEnds DEF RowsOk
  <2>2. Running(r) /\ jobRuns[r].leaseOwner = w
    BY <1>4 DEF SettleClaim, ClaimFence
  <2>3. \A v \in Workers \ {w} : Respects(v)
    BY <1>1, <2>1, <2>2, OthersRespected
  <2>4. OwnedBy(w)' = {}
    <3>1. \A q \in OwnedBy(w) : q = r
      BY <1>2 DEF HandsInv
    <3>2. ASSUME NEW q \in Runs, RunningAfter(q), jobRuns'[q].leaseOwner = w
          PROVE  FALSE
      <4>1. q # r
        BY <2>1, <3>2 DEF Ended
      <4>2. q \in OwnedBy(w)
        BY <2>1, <3>2, <4>1 DEF Kept, OwnedBy
      <4> QED
        BY <3>1, <4>1, <4>2
    <3> QED
      BY <3>2 DEF OwnedBy, Running, RunningAfter
  <2>5. /\ NextPass(w) \in Process
        /\ NextPass(w).pc = "idle"
        /\ NextPass(w).run = NoClaim
        /\ NextPass(w).at = 0
        /\ NextPass(w).polledAt = 0
    BY <1>2 DEF NextPass, Idle, Process, Stages
  <2>6. process'[w] = NextPass(w)
    BY <1>1, <1>2, SetOne DEF Known
  <2>7. PassInv(w)'
    BY <2>4, <2>5, <2>6 DEF PassInv
  <2>8. 0 <= now
    BY <1>1 DEF Known
  <2>9. ProcessInv(w)'
    BY <2>1, <2>5, <2>6, <2>7, <2>8, FreeProcess
  <2> QED
    BY <1>2, <2>1, <2>3, <2>5, <2>9, StepOfOne
<1>5. CASE ~ClaimFence(w, r, self.token, self.at) /\ UNCHANGED vars
  <2>1. jobRuns[r].leaseExpiresAt \in Nat /\ now \in Nat
    BY <1>1, <1>3 DEF Known, RunRow
  <2>2. \A q \in OwnedBy(w) : jobRuns[q].leaseExpiresAt <= now
    BY <1>2, <1>3, <1>5, <2>1 DEF HandsInv, OwnedBy, ClaimFence
  <2> QED
    BY <1>2, <1>5, <2>2, LetGo DEF vars
<1> QED
  BY <1>4, <1>5 DEF Settle

-----------------------------------------------------------------------------
(* The drain, the end of a process, and the steps in no process's name     *)

LEMMA DrainWorkerKeeps ==
  ASSUME CoordinatorInv, NEW w \in Workers, DrainWorker(w)
  PROVE  CoordinatorInv'
<1> DEFINE self == [process[w] EXCEPT !.drain = "draining"]
<1>1. Known(w)
  BY StepBegins
<1>2. Set(w, self) /\ jobRuns' = jobRuns /\ now' = now
  BY DEF DrainWorker, BeginWorkerDrain
<1>3. self \in Process
  BY <1>1 DEF Known, Process
<1>4. /\ self.pc = process[w].pc
      /\ self.at = process[w].at
      /\ self.run = process[w].run
      /\ self.token = process[w].token
      /\ self.expiresAt = process[w].expiresAt
      /\ self.stop = process[w].stop
      /\ self.polledAt = process[w].polledAt
      /\ self.renewing = process[w].renewing
      /\ self.outcome = process[w].outcome
  BY <1>1 DEF Known, Process
<1>5. process'[w] = self
  BY <1>1, <1>2, SetOne DEF Known
<1> HIDE DEF self
<1>6. HandsInv(w)' /\ PassInv(w)'
  BY <1>1, <1>2, <1>4, <1>5 DEF Known, ProcessInv, HandsInv, PassInv, OwnedBy, Running
<1>7. Holds(w)' <=> Holds(w)
  BY <1>2, <1>4, <1>5 DEF Holds, Running
<1>8. MonitorInv(w)'
  BY <1>1, <1>2, <1>4, <1>5, <1>7 DEF Known, ProcessInv, MonitorInv
<1>9. ProcessInv(w)'
  BY <1>1, <1>2, <1>4, <1>5, <1>6, <1>8 DEF Known, ProcessInv
<1> QED
  BY <1>2, <1>3, <1>4, <1>9, StepOfOneAlone

LEMMA AbortLoopsKeeps ==
  ASSUME CoordinatorInv, NEW w \in Workers, AbortLoops(w)
  PROVE  CoordinatorInv'
<1> DEFINE aborted == [process[w] EXCEPT !.drain = "aborted"]
           self == Stopped(aborted, "shutdown")
<1>1. Known(w)
  BY StepBegins
<1>2. /\ Set(w, IF aborted.pc = "executing" THEN self ELSE aborted)
      /\ jobRuns' = jobRuns
      /\ now' = now
  BY DEF AbortLoops, vars
<1>3. aborted \in Process
  BY <1>1 DEF Known, Process
<1>4. /\ aborted.pc = process[w].pc
      /\ aborted.at = process[w].at
      /\ aborted.run = process[w].run
      /\ aborted.token = process[w].token
      /\ aborted.expiresAt = process[w].expiresAt
      /\ aborted.stop = process[w].stop
      /\ aborted.polledAt = process[w].polledAt
      /\ aborted.renewing = process[w].renewing
      /\ aborted.outcome = process[w].outcome
  BY <1>1 DEF Known, Process
<1> HIDE DEF aborted
<1>5. CASE aborted.pc = "executing"
  <2>1. /\ self \in Process
        /\ self.pc = aborted.pc
        /\ self.run = aborted.run
        /\ self.token = aborted.token
        /\ self.expiresAt = aborted.expiresAt
        /\ self.at = aborted.at
        /\ self.renewing = aborted.renewing
        /\ self.stop = IF aborted.stop = "none" THEN "shutdown" ELSE aborted.stop
        /\ self.polledAt \in {0, aborted.polledAt}
    BY <1>3, StoppedRecord DEF Reasons
  <2> HIDE DEF self
  <2>2. Set(w, self)
    BY <1>2, <1>5
  <2>3. /\ self.stop # "none"
        /\ self.stop = "claim-lost" => process[w].stop = "claim-lost"
    BY <1>4, <2>1
  <2>4. self.at <= now /\ self.polledAt <= now
    BY <1>1, <1>4, <2>1 DEF Known, ProcessInv
  <2>5. /\ self.stop = "claim-lost" =>
             /\ ~self.renewing
             /\ Holds(w) => jobRuns[self.run].leaseExpiresAt <= now
        /\ Holds(w) /\ self.renewing =>
             jobRuns[self.run].leaseExpiresAt < self.at + LeaseDuration
    BY <1>1, <1>4, <1>5, <2>1, <2>3 DEF Known, ProcessInv, MonitorInv
  <2> QED
    BY <1>2, <1>4, <1>5, <2>1, <2>2, <2>3, <2>4, <2>5, MonitorStep
<1>6. CASE aborted.pc # "executing"
  <2>1. Set(w, aborted)
    BY <1>2, <1>6
  <2>2. process'[w] = aborted
    BY <1>1, <2>1, SetOne DEF Known
  <2>3. HandsInv(w)' /\ PassInv(w)'
    BY <1>1, <1>2, <1>4, <2>2 DEF Known, ProcessInv, HandsInv, PassInv, OwnedBy, Running
  <2>4. ProcessInv(w)'
    BY <1>1, <1>2, <1>4, <1>6, <2>2, <2>3 DEF Known, ProcessInv, MonitorInv
  <2> QED
    BY <1>2, <1>3, <1>4, <2>1, <2>4, StepOfOneAlone
<1> QED
  BY <1>5, <1>6

LEMMA DepartureKeeps ==
  ASSUME CoordinatorInv, NEW w \in Workers, Exit(w) \/ ForceExit(w) \/ Crash(w)
  PROVE  CoordinatorInv'
<1>1. jobRuns' = jobRuns /\ now' = now
  BY DEF Exit, ForceExit, Crash, StopWorker, vars
<1>2. Set(w, [Idle EXCEPT !.pc = "exited"])
  BY DEF Exit, ForceExit, Crash
<1> QED
  BY <1>1, <1>2, Gone

LEMMA HeartbeatKeeps ==
  ASSUME CoordinatorInv, NEW w \in Workers, Heartbeat(w)
  PROVE  CoordinatorInv'
<1>1. UNCHANGED <<jobRuns, now>> /\ UNCHANGED process
  BY DEF Heartbeat, HeartbeatWorker
<1> QED
  BY <1>1, NoRow, StepOfNone DEF CoordinatorInv

LEMMA WriteOutputKeeps ==
  ASSUME CoordinatorInv, NEW w \in Workers, WriteOutput(w)
  PROVE  CoordinatorInv'
<1>1. Known(w) /\ RowsOk
  BY StepBegins DEF CoordinatorInv
<1>2. process[w].run \in Runs
  BY <1>1, RunInHands DEF WriteOutput, Known
<1>3. RowsOk' /\ \A q \in Runs : Kept(q)
  BY <1>1, <1>2, AppendKeeps DEF WriteOutput
<1> QED
  BY <1>3, StepOfNone DEF WriteOutput

LEMMA WebKeeps ==
  ASSUME CoordinatorInv, NEW r \in Runs, Enqueue(r) \/ Cancel(r)
  PROVE  CoordinatorInv'
<1>1. RowsOk
  BY DEF CoordinatorInv
<1>2. RowsOk' /\ \A q \in Runs : Kept(q)
  BY <1>1, EnqueueKeeps, CancelKeeps DEF Enqueue, Cancel
<1> QED
  BY <1>2, StepOfNone DEF Enqueue, Cancel

(* Instants that become older keep their order and their distances.        *)
LEMMA AgedInstants ==
  ASSUME NEW a \in Nat, NEW b \in Nat, NEW d \in Nat
  PROVE  /\ Aged(a) \in Nat
         /\ Aged(a) <= a
         /\ a <= b => Aged(a) <= Aged(b)
         /\ a <= b + d => Aged(a) <= Aged(b) + d
         /\ a < b + d /\ d > 0 => Aged(a) < Aged(b) + d
BY DEF Aged

AgedRow(row) ==
  [row EXCEPT !.availableAt = Aged(@), !.updatedAt = Aged(@), !.leaseExpiresAt = Aged(@)]

AgedProcess(self) ==
  [self EXCEPT !.at = Aged(@), !.expiresAt = Aged(@), !.polledAt = Aged(@), !.renewDue = Aged(@)]

LEMMA AgedRowOk ==
  ASSUME NEW r \in Runs, NEW row \in RunRow, RowOk(r, row)
  PROVE  /\ AgedRow(row) \in RunRow
         /\ RowOk(r, AgedRow(row))
         /\ AgedRow(row).state = row.state
         /\ AgedRow(row).attemptCount = row.attemptCount
         /\ AgedRow(row).leaseOwner = row.leaseOwner
         /\ AgedRow(row).leaseToken = row.leaseToken
         /\ AgedRow(row).leaseExpiresAt = Aged(row.leaseExpiresAt)
<1> DEFINE availableAt == Aged(row.availableAt)
           updatedAt == Aged(row.updatedAt)
           leaseExpiresAt == Aged(row.leaseExpiresAt)
           new == [row EXCEPT !.availableAt = availableAt, !.updatedAt = updatedAt,
                              !.leaseExpiresAt = leaseExpiresAt]
<1>1. /\ row.availableAt \in Nat
      /\ row.updatedAt \in Nat
      /\ row.leaseExpiresAt \in Nat
      /\ row.updatedAt <= Horizon
  BY DEF RunRow, RowOk
<1>2. availableAt \in Nat /\ updatedAt \in Nat /\ leaseExpiresAt \in Nat
  BY <1>1, AgedInstants
<1>3. updatedAt <= Horizon
  BY <1>1, CoordinatorConstants DEF Aged
<1>4. AgedRow(row) = new
  BY DEF AgedRow, RunRow
<1> HIDE DEF availableAt, updatedAt, leaseExpiresAt
<1>5. new \in RunRow
  BY <1>2 DEF RunRow
<1>6. /\ new.state = row.state
      /\ new.attemptCount = row.attemptCount
      /\ new.attemptLimit = row.attemptLimit
      /\ new.leaseOwner = row.leaseOwner
      /\ new.leaseToken = row.leaseToken
      /\ new.leaseExpiresAt = leaseExpiresAt
      /\ new.updatedAt = updatedAt
  BY DEF RunRow
<1> HIDE DEF new
<1>7. RowOk(r, new)
  BY <1>3, <1>6 DEF RowOk
<1> QED
  BY <1>4, <1>5, <1>6, <1>7 DEF leaseExpiresAt

LEMMA AgedRecord ==
  ASSUME NEW self \in Process
  PROVE  /\ AgedProcess(self) \in Process
         /\ AgedProcess(self).pc = self.pc
         /\ AgedProcess(self).run = self.run
         /\ AgedProcess(self).token = self.token
         /\ AgedProcess(self).stop = self.stop
         /\ AgedProcess(self).renewing = self.renewing
         /\ AgedProcess(self).outcome = self.outcome
         /\ AgedProcess(self).at = Aged(self.at)
         /\ AgedProcess(self).expiresAt = Aged(self.expiresAt)
         /\ AgedProcess(self).polledAt = Aged(self.polledAt)
<1> DEFINE at == Aged(self.at)
           expiresAt == Aged(self.expiresAt)
           polledAt == Aged(self.polledAt)
           renewDue == Aged(self.renewDue)
           new == [self EXCEPT !.at = at, !.expiresAt = expiresAt, !.polledAt = polledAt,
                               !.renewDue = renewDue]
<1>1. /\ self.at \in Nat
      /\ self.expiresAt \in Nat
      /\ self.polledAt \in Nat
      /\ self.renewDue \in Nat
  BY DEF Process
<1>2. at \in Nat /\ expiresAt \in Nat /\ polledAt \in Nat /\ renewDue \in Nat
  BY <1>1, AgedInstants
<1>3. AgedProcess(self) = new
  BY DEF AgedProcess, Process
<1> HIDE DEF at, expiresAt, polledAt, renewDue
<1>4. new \in Process
  BY <1>2 DEF Process
<1>5. /\ new.pc = self.pc
      /\ new.run = self.run
      /\ new.token = self.token
      /\ new.stop = self.stop
      /\ new.renewing = self.renewing
      /\ new.outcome = self.outcome
      /\ new.at = at
      /\ new.expiresAt = expiresAt
      /\ new.polledAt = polledAt
  BY DEF Process
<1> HIDE DEF new
<1> QED
  BY <1>3, <1>4, <1>5 DEF at, expiresAt, polledAt

(* When time passes every row and every process becomes older at once.     *)
LEMMA PassTimeKeeps ==
  ASSUME CoordinatorInv, PassTime
  PROVE  CoordinatorInv'
<1>1. /\ RowsOk
      /\ jobRuns \in [Runs -> RunRow]
      /\ process \in [Workers -> Process]
      /\ \A w \in Workers : ProcessInv(w)
      /\ TokensDiffer
      /\ now' = now
      /\ now = Horizon
      /\ now \in Nat
  BY CoordinatorConstants DEF CoordinatorInv, ProcessesInv, RowsOk, PassTime
<1>2. /\ jobRuns' = [r \in Runs |-> AgedRow(jobRuns[r])]
      /\ process' = [w \in Workers |-> AgedProcess(process[w])]
  BY DEF PassTime, AgedRow, AgedProcess
<1>3. \A r \in Runs :
        /\ jobRuns'[r] \in RunRow
        /\ RowOk(r, jobRuns'[r])
        /\ jobRuns'[r].state = jobRuns[r].state
        /\ jobRuns'[r].attemptCount = jobRuns[r].attemptCount
        /\ jobRuns'[r].leaseOwner = jobRuns[r].leaseOwner
        /\ jobRuns'[r].leaseToken = jobRuns[r].leaseToken
        /\ jobRuns'[r].leaseExpiresAt = Aged(jobRuns[r].leaseExpiresAt)
  BY <1>1, <1>2, AgedRowOk DEF RowsOk
<1>4. jobRuns' \in [Runs -> RunRow]
  BY <1>2, <1>3
<1>5. RowsOk'
  BY <1>1, <1>3, <1>4 DEF RowsOk
<1>6. \A w \in Workers :
        /\ process'[w] \in Process
        /\ process'[w].pc = process[w].pc
        /\ process'[w].run = process[w].run
        /\ process'[w].token = process[w].token
        /\ process'[w].stop = process[w].stop
        /\ process'[w].renewing = process[w].renewing
        /\ process'[w].outcome = process[w].outcome
        /\ process'[w].at = Aged(process[w].at)
        /\ process'[w].expiresAt = Aged(process[w].expiresAt)
        /\ process'[w].polledAt = Aged(process[w].polledAt)
  BY <1>1, <1>2, AgedRecord
<1>7. process' \in [Workers -> Process]
  BY <1>2, <1>6
<1>8. TokensDiffer'
  BY <1>1, <1>6 DEF TokensDiffer
<1>9. ASSUME NEW w \in Workers
      PROVE  ProcessInv(w)'
  <2> DEFINE self == process[w]
             r == self.run
  <2>1. /\ self.at \in Nat /\ self.at <= now
        /\ self.polledAt \in Nat /\ self.polledAt <= now
        /\ self.expiresAt \in Nat
    BY <1>1 DEF ProcessInv, Process
  <2>2. OwnedBy(w)' = OwnedBy(w)
    BY <1>3 DEF OwnedBy, Running
  <2>3. \A q \in Runs : jobRuns[q].leaseExpiresAt \in Nat
    BY <1>1 DEF RunRow
  <2>4. process'[w].at <= now /\ process'[w].polledAt <= now
    <3>1. Aged(self.at) <= self.at /\ Aged(self.at) \in Nat
      BY <2>1, AgedInstants
    <3>2. Aged(self.polledAt) <= self.polledAt /\ Aged(self.polledAt) \in Nat
      BY <2>1, AgedInstants
    <3> QED
      BY <1>1, <1>6, <2>1, <3>1, <3>2
  <2>5. HandsInv(w)'
    <3> SUFFICES ASSUME self.pc \in {"executing", "settling"}
                 PROVE  /\ process'[w].token \in 1..jobRuns'[r].attemptCount
                        /\ \A q \in OwnedBy(w)' : q = r /\ jobRuns'[q].leaseToken = process'[w].token
                        /\ jobRuns'[r].state = "running" /\ jobRuns'[r].leaseToken = process'[w].token
                             => jobRuns'[r].leaseOwner = w
      BY <1>6 DEF HandsInv, Running
    <3>1. r \in Runs
      BY <1>1, RunInHands
    <3>2. HandsInv(w)
      BY <1>1 DEF ProcessInv
    <3> QED
      BY <1>3, <1>6, <2>2, <3>1, <3>2 DEF HandsInv, Running, OwnedBy
  <2>6. MonitorInv(w)'
    <3> SUFFICES ASSUME self.pc = "executing"
                 PROVE  MonitorInv(w)'
      BY <1>6 DEF MonitorInv
    <3>1. r \in Runs
      BY <1>1, RunInHands
    <3> DEFINE lease == jobRuns[r].leaseExpiresAt
    <3>2. lease \in Nat /\ jobRuns'[r].leaseExpiresAt = Aged(lease)
      BY <1>3, <2>3, <3>1
    <3>3. Holds(w)' <=> Holds(w)
      BY <1>3, <1>6, <3>1 DEF Holds, Running
    <3>4. /\ self.expiresAt > now => Holds(w) /\ lease >= self.expiresAt
          /\ self.stop = "claim-lost" => ~self.renewing /\ (Holds(w) => lease <= now)
          /\ Holds(w) /\ self.stop = "none" => lease <= self.polledAt + LeaseDuration
          /\ Holds(w) /\ self.renewing => lease < self.at + LeaseDuration
      BY <1>1 DEF ProcessInv, MonitorInv
    <3> HIDE DEF lease
    <3>5. /\ Aged(self.expiresAt) > now => self.expiresAt > now
          /\ lease >= self.expiresAt => Aged(lease) >= Aged(self.expiresAt)
          /\ lease <= now => Aged(lease) <= now
          /\ lease <= self.polledAt + LeaseDuration =>
               Aged(lease) <= Aged(self.polledAt) + LeaseDuration
          /\ lease < self.at + LeaseDuration => Aged(lease) < Aged(self.at) + LeaseDuration
      BY <1>1, <2>1, <3>2, LeaseLength DEF Aged
    <3> QED
      BY <1>1, <1>6, <3>2, <3>3, <3>4, <3>5 DEF MonitorInv
  <2>7. PassInv(w)'
    <3>1. ASSUME NEW q \in OwnedBy(w)
          PROVE  /\ jobRuns[q].leaseExpiresAt <= now => jobRuns'[q].leaseExpiresAt <= now
                 /\ jobRuns[q].leaseExpiresAt <= self.at =>
                      jobRuns'[q].leaseExpiresAt <= process'[w].at
      <4>1. q \in Runs
        BY DEF OwnedBy
      <4>2. /\ jobRuns[q].leaseExpiresAt \in Nat
            /\ jobRuns'[q].leaseExpiresAt = Aged(jobRuns[q].leaseExpiresAt)
            /\ process'[w].at = Aged(self.at)
        BY <1>3, <1>6, <2>3, <4>1
      <4> QED
        BY <1>1, <2>1, <4>2 DEF Aged
    <3>2. PassInv(w)
      BY <1>1 DEF ProcessInv
    <3> QED
      BY <1>1, <1>6, <2>2, <3>1, <3>2 DEF PassInv
  <2>8. /\ process'[w].run # NoClaim <=> process'[w].pc \in {"executing", "settling"}
        /\ process'[w].pc = "settling" => process'[w].outcome \in TerminalStates
    BY <1>1, <1>6 DEF ProcessInv
  <2> QED
    BY <1>1, <2>4, <2>5, <2>6, <2>7, <2>8 DEF ProcessInv
<1> QED
  BY <1>5, <1>7, <1>8, <1>9 DEF CoordinatorInv, ProcessesInv

-----------------------------------------------------------------------------
(* The invariant                                                           *)

LEMMA InitCoordinatorInv == CoordinatorInit => CoordinatorInv
<1> SUFFICES ASSUME CoordinatorInit
             PROVE  CoordinatorInv
  OBVIOUS
<1> DEFINE down == [Idle EXCEPT !.pc = "down"]
<1>1. ASSUME NEW r \in Runs
      PROVE  AbsentRow(r) \in RunRow /\ RowOk(r, AbsentRow(r))
  <2>1. /\ InitialAttemptLimit[r] \in 1..AttemptMaximum
        /\ InitialAttemptLimit[r] \in Nat
        /\ InitialAttemptLimit[r] > 0
    BY QueueConstants
  <2>2. AbsentRow(r) \in RunRow
    BY <2>1 DEF AbsentRow, RunRow, RunStates
  <2>3. /\ AbsentRow(r).state = "absent"
        /\ AbsentRow(r).attemptCount = 0
        /\ AbsentRow(r).attemptLimit = InitialAttemptLimit[r]
        /\ AbsentRow(r).updatedAt = 0
    BY DEF AbsentRow
  <2> QED
    BY <2>1, <2>2, <2>3, CoordinatorConstants DEF RowOk
<1>2. jobRuns = [r \in Runs |-> AbsentRow(r)] /\ now = Horizon
  BY DEF CoordinatorInit
<1>3. RowsOk
  BY <1>1, <1>2 DEF RowsOk
<1>4. /\ down \in Process
      /\ down.pc = "down"
      /\ down.run = NoClaim
      /\ down.at = 0
      /\ down.polledAt = 0
  BY DEF Idle, Process, Stages
<1>5. process = [w \in Workers |-> down]
  BY DEF CoordinatorInit
<1> HIDE DEF down
<1>6. \A w \in Workers : OwnedBy(w) = {}
  BY <1>2 DEF OwnedBy, Running, AbsentRow
<1>7. 0 <= now
  BY <1>2, CoordinatorConstants
<1>8. \A w \in Workers : ProcessInv(w)
  BY <1>4, <1>5, <1>6, <1>7 DEF ProcessInv, HandsInv, MonitorInv, PassInv
<1>9. TokensDiffer
  BY <1>4, <1>5 DEF TokensDiffer
<1> QED
  BY <1>3, <1>4, <1>5, <1>8, <1>9 DEF CoordinatorInv, ProcessesInv

LEMMA NextCoordinatorInv == CoordinatorInv /\ [CoordinatorNext]_coordinatorVars => CoordinatorInv'
<1> SUFFICES ASSUME CoordinatorInv, [CoordinatorNext]_coordinatorVars
             PROVE  CoordinatorInv'
  OBVIOUS
<1>1. ASSUME NEW w \in Workers, ActionEnds(w)
      PROVE  CoordinatorInv'
  BY <1>1, FinishActionKeeps DEF ActionEnds
<1>2. ASSUME NEW w \in Workers, LoopStep(w)
      PROVE  CoordinatorInv'
  BY <1>1, <1>2, InitializeKeeps, BeginPassKeeps, RecoverPassKeeps, ClaimPassKeeps,
     MonitorPollKeeps, RenewKeeps, SettleKeeps, DepartureKeeps DEF LoopStep
<1>3. ASSUME NEW w \in Workers,
             Heartbeat(w) \/ WriteOutput(w) \/ Timeout(w) \/ DrainWorker(w) \/ AbortLoops(w)
               \/ ForceExit(w) \/ Crash(w)
      PROVE  CoordinatorInv'
  BY <1>3, HeartbeatKeeps, WriteOutputKeeps, TimeoutKeeps, DrainWorkerKeeps, AbortLoopsKeeps,
     DepartureKeeps
<1>4. CASE \E r \in Runs : Enqueue(r) \/ Cancel(r)
  BY <1>4, WebKeeps
<1>5. CASE PassTime
  BY <1>5, PassTimeKeeps
<1>6. CASE UNCHANGED coordinatorVars
  <2>1. UNCHANGED <<jobRuns, now>> /\ UNCHANGED process
    BY <1>6 DEF coordinatorVars
  <2> QED
    BY <2>1, NoRow, StepOfNone DEF CoordinatorInv
<1> QED
  BY <1>1, <1>2, <1>3, <1>4, <1>5, <1>6 DEF CoordinatorNext

(* Rows and processes agree on the claims throughout.                      *)
THEOREM CoordinatorInvariance == CoordinatorSpec => []CoordinatorInv
<1>1. CoordinatorInit => CoordinatorInv
  BY InitCoordinatorInv
<1>2. CoordinatorInv /\ [CoordinatorNext]_coordinatorVars => CoordinatorInv'
  BY NextCoordinatorInv
<1> QED
  BY <1>1, <1>2, PTL DEF CoordinatorSpec

-----------------------------------------------------------------------------
(* What the project states about the worker processes                      *)

(* The loop keeps to its stages and comes to claim only when the worker    *)
(* owns no running claim any more, also after a lost claim or settlement.  *)
THEOREM LoopsStayConsistent == CoordinatorSpec => []CoordinatorConsistent
<1>1. CoordinatorInv => CoordinatorConsistent
  <2> SUFFICES ASSUME CoordinatorInv, NEW w \in Workers
               PROVE  /\ CoordinatorTypeOK!(w)
                      /\ process[w].pc = "claiming" => OwnedBy(w) = {}
    BY DEF CoordinatorConsistent, CoordinatorTypeOK, ClaimLoopNeverAtCapacity
  <2>1. process[w] \in Process /\ ProcessInv(w)
    BY DEF CoordinatorInv, ProcessesInv
  <2> QED
    BY <2>1 DEF Process, Stages, ProcessInv, PassInv
<1> QED
  BY <1>1, CoordinatorInvariance, PTL

(* An action that must not be repeated is in the hands of one process at   *)
(* most, even when a lease ran out and nobody has noticed.                 *)
THEOREM UnsafeActionsHaveOneProcess == CoordinatorSpec => []UnsafeActionsRunOnce
<1>1. CoordinatorInv => UnsafeActionsRunOnce
  <2> SUFFICES ASSUME CoordinatorInv, NEW v \in Workers, NEW w \in Workers, NEW r \in Runs,
                      v # w, Executing(v, r), Executing(w, r), ~RetrySafe[r]
               PROVE  FALSE
    BY DEF UnsafeActionsRunOnce
  <2>1. /\ process[v].token \in 1..jobRuns[r].attemptCount
        /\ process[w].token \in 1..jobRuns[r].attemptCount
    BY DEF CoordinatorInv, ProcessesInv, ProcessInv, HandsInv, Executing
  <2>2. jobRuns[r].attemptCount \in Nat /\ jobRuns[r].attemptCount <= 1
    BY DEF CoordinatorInv, RowsOk, RowOk, RunRow
  <2>3. process[v].token = process[w].token
    BY <2>1, <2>2
  <2>4. r # NoClaim
    BY CoordinatorConstants
  <2> QED
    BY <2>3, <2>4 DEF CoordinatorInv, ProcessesInv, TokensDiffer, Executing
<1> QED
  BY <1>1, CoordinatorInvariance, PTL

(* A process whose lease, as far as it knows, has not run out holds the    *)
(* claim, whatever instants other workers read long before.                *)
THEOREM LeasesAreExclusive == CoordinatorSpec => []LeaseIsExclusive
<1>1. CoordinatorInv => LeaseIsExclusive
  <2> SUFFICES ASSUME CoordinatorInv, NEW w \in Workers, process[w].pc = "executing",
                      process[w].expiresAt > now
               PROVE  ClaimFence(w, process[w].run, process[w].token, now)
    BY DEF LeaseIsExclusive
  <2>1. Known(w)
    BY StepBegins
  <2>2. Holds(w) /\ jobRuns[process[w].run].leaseExpiresAt >= process[w].expiresAt
    BY <2>1 DEF Known, ProcessInv, MonitorInv
  <2>3. process[w].run \in Runs
    BY <2>1, RunInHands DEF Known
  <2>4. /\ jobRuns[process[w].run].leaseExpiresAt \in Nat
        /\ process[w].expiresAt \in Nat
        /\ now \in Nat
    BY <2>1, <2>3 DEF Known, RunRow, Process
  <2> QED
    BY <2>2, <2>4 DEF ClaimFence, Holds
<1> QED
  BY <1>1, CoordinatorInvariance, PTL

(* A renewal of a claim that is still held always extends its lease, so    *)
(* that the transaction does not throw and take the worker down.           *)
THEOREM RenewalsNeverThrow == CoordinatorSpec => []RenewalNeverThrows
<1>1. CoordinatorInv => RenewalNeverThrows
  <2> DEFINE self(w) == process[w]
  <2> SUFFICES ASSUME CoordinatorInv, NEW w \in Workers, self(w).pc = "executing",
                      self(w).renewing, ClaimFence(w, self(w).run, self(w).token, self(w).at)
               PROVE  Latest(jobRuns[self(w).run].updatedAt, self(w).at) + LeaseDuration
                        > jobRuns[self(w).run].leaseExpiresAt
    BY DEF RenewalNeverThrows
  <2>1. Known(w)
    BY StepBegins
  <2>2. self(w).run \in Runs
    BY <2>1, RunInHands DEF Known
  <2>3. /\ jobRuns[self(w).run].leaseExpiresAt \in Nat
        /\ jobRuns[self(w).run].updatedAt \in Nat
        /\ self(w).at \in Nat
    BY <2>1, <2>2 DEF Known, RunRow, Process
  <2>4. jobRuns[self(w).run].leaseExpiresAt < self(w).at + LeaseDuration
    BY <2>1 DEF Known, ProcessInv, MonitorInv, Holds, ClaimFence
  <2> QED
    BY <2>3, <2>4, LeaseLength DEF Latest
<1> QED
  BY <1>1, CoordinatorInvariance, PTL
=============================================================================
