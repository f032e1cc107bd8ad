# Mira Dashboard: a verification project

TLA+ models of the concurrent core of the Dashboard, the TLC configurations that
check them on small instances, and TLAPS proofs of what matters most. The reference
is the repository's source; every definition that stands for code is listed with
its lines in `PROJECT.json` ("map"). Paths below are relative to the repository.

## 1. The system

The Dashboard is one host's control panel: a **web** process (HTTP, tRPC, SSE,
business services), a **worker** process (durable jobs, terminals), a SQLite
database they share, an external gateway reached over one WebSocket per process, and
the scripts that build, activate and recover releases. There is one operator, but
many tabs, two processes, overlapping releases, and reboots.

The processes do not call each other. They meet in the database: every write is an
immediate transaction behind a write admission that may wait and retry. So the hard
behaviours are those of stale reads, leases, and crashes between transactions.

### Inventory

| Component | State | Operations | Hard because | Correct when |
|---|---|---|---|---|
| Durable job queue (`server/domains/jobs/repository.ts`) | `job_runs`, `resource_leases`, `worker_instances`, `job_worker_control`, `host_restart_claim_fence` | enqueue, cancel, claim, renew, append output, settle, recover expired claims, drain and stop workers, arm and clear the restart fence, recover a delivery run | callers carry instants read before write admission; a holder may be late, its lease recovered by another | leases are exclusive and match their claims; attempts stay within the limit; a cancellation is never lost; the fence excludes other claims; no legal call aborts on a constraint |
| Table constraints (`src/migrations/*`) | the rows | CHECKs and triggers that abort | they restate the rules in SQL | they accept everything the repository does |
| Run event history (same repository file) | event, payload and byte counters per run | append structural and payload events | output fills what transitions need later | a transition always finds room |
| Schedules (`repository.ts`, `service.ts`, `scheduleTime.ts`, `registeredSchedule.ts`) | `scheduled_jobs`, `job_disable_intents` | schedule pass, edit, pause with expiry, manual run, reconciliation with a release's registry | pass and edit compute from copies; two releases overlap | one active run, due occurrence only, never stuck, pauses end, retired schedules stay off |
| Job worker coordinator (`coordinator.ts`) | loops, claim in execution, monitor, drain | claim loop, execution, cancellation poll and renewal, heartbeat, drain, forced drain | every await is an interleaving point; crash, stall | one live executor per claim; runs finish; drain ends |
| Delivery recovery at startup (`deliveryProductionRecovery.ts`) | receipt, capsule, audit row | requeue or settle the delivery run of a dead release | runs while others live | the run can be continued within its limits |
| Action executors and registry | handlers, definitions | run an action | side effects outside the database | bounded, typed outcome |
| Enqueue queues (`serviceActionQueue.ts`, `logMaintenanceQueue.ts`, `manualEnqueue.ts`) | idempotency keys | enqueue once | replays | same key, same run |
| SQLite runtime and write admission (`server/database/runtime/*`) | connection, admission | begin immediate, retry on contention until a deadline | retry after the start would repeat the effect | a write commits at most once |
| Realtime outbox and event pump (`server/platform/realtime/*`) | outbox rows, poll cursor, subscriber queues | poll, subscribe from a cursor, replay, retain, resync | subscribers attach while polling and retention go on | every event once and in order, or an explicit resync |
| Gateway transport (`server/platform/gateway/*`) | connection generation, pending requests, chat scopes, subscriber queues | connect, back off, request, subscribe, deliver | late answers of an old connection; scopes that close and open while requests are on their way | answers and events belong to their generation; a loss is reported; an answer tells whether the request left |
| Chat runs (`server/domains/chat/*`) | runs, messages, transcripts, settlement state | admit, send, follow, abort, reconcile, settle, recover | terminal events race aborts, deadlines, restarts and replays | one final state; attachments follow the dispatch; every run settles |
| Authentication (`server/domains/security/*`) | permits, attempts, pending logins | admit, verify, time out | a caller leaves, its work goes on | a permit returns exactly once; the answer is what was settled |
| Tasks and notifications (`server/domains/tasks/*`, `worker/taskNotifications.ts`) | board, notification outbox | edit; claim, deliver, retry | the lease runs out during delivery | delivered at least once, marked only then |
| Release activation (`scripts/delivery/*`) | journal, release link, database snapshots | prepare, switch, verify, roll back, retain | crash at any point | release and database belong together |
| Log rotation and log readers (`worker/logs/*`, `server/platform/logs/*`) | log, archives, epoch projection | rotate by copy and truncation, recover, retain; read | the log is written on; a rotation stops anywhere; readers overlap it | what a rotation saw is archived before it is truncated; a line keeps its identity to itself |
| Previews, cache, monitoring, terminals, gateway projections, providers, HTTP composition, browser | see `PROJECT.json` | | files, processes, rendering | see `PROJECT.json` |

How they interact around the queue:

    operator -> service.ts --enqueue/cancel/edit--> repository.ts (SQLite)
                                                     ^   ^   ^
    worker coordinator --recover, claim, renew,-----/    |   |
                         append, settle, heartbeat       |   |
    worker schedule loop --due occurrence---------------/    |
    process start --reconcile schedules, delivery recovery--/
    executor of host.system.restart --arm/clear fence--> repository.ts, then reboot

`PROJECT.json` ("components") names every part with its sources, also those without a
model and why; "hazards" lists what is hard to test, at the line where it bites, with
the properties that cover it or the reason none does yet.

## 2. Modules

| Module | Models | Lines it stands for |
|---|---|---|
| `JobQueue` | the tables of the queue and all transactions on them | `repository.ts` |
| `JobRunLifecycle` | abstract specification: what the CHECKs and triggers of `job_runs` accept | the two migrations named in the map |
| `JobRunEvents` | counters of one run's history through every transaction that appends | `repository.ts`, `jobModel` limits |
| `JobSchedules` | one schedule with pass, operator, and releases | `repository.ts`, `service.ts`, `coordinator.ts` |
| `JobCoordinator` | worker processes, EXTENDS `JobQueue` and performs its transactions | `coordinator.ts` |
| `EventFeed` | abstract specification: what a subscriber of events is promised | the event contract |
| `RealtimeEvents` | outbox, pump and subscriptions; implements `EventFeed` | `server/platform/realtime/*` |
| `ChatSubscriptions` | the reconnecting gateway lane, chat scopes, leases | `persistentGatewayTransport.ts`, `subscriptionManager.ts` |
| `GatewayRequests` | requests on lanes of their own | `persistentGatewayTransport.ts` |
| `ChatRuns` | one chat run from admission to settlement | `server/domains/chat/*` |
| `AuthenticationWork` | the gate in front of password hashing | `authenticationWorkGate.ts` |
| `TaskNotifications` | the leased outbox of task notifications and its senders | `taskNotificationQueue.ts`, `worker/taskNotifications.ts` |
| `WriteAdmission` | write calls that contend for the database | `databasePolicy.ts`, `databaseService.ts` |
| `ReleaseActivation` | activation, recovery and retention of releases | `scripts/delivery/*` |
| `LogRotation` | one log, its archives, its rotation and its readers | `managedLogRotation.ts`, `safeLogReader.ts` |
| `JobQueue_proofs`, `JobRunEvents_proofs`, `JobSchedules_proofs`, `JobCoordinator_proofs`, `ChatRuns_proofs`, `RealtimeEvents_proofs` | theorems about the module they are named after | |
| `Services_proofs`, `Streams_proofs` | theorems about the compositions `MCServices` and `MCStreams`, so about each component in them | |
| `MC*` | constants and compositions for TLC | |

### JobQueue

One action is one transaction; its parameter `at` is the instant the caller read before
waiting for write admission, up to `Staleness` old. Rejections, lost claims and thrown errors
roll back and are stuttering steps. `jobRuns[r]` is the row; the state `absent`
stands for a run not yet inserted. The lease token is a fresh UUID in the code and the
attempt number here, which is as unique for a run. `ClaimHolderStep` lets any worker present any token at any time, so a
late or confused process is part of the model; the coordinator's narrower behaviour is in
`JobCoordinator`. A reboot (`HostRestart`) only changes the boot identity: tables persist.

| Action | Code |
|---|---|
| `EnqueueRun` | `enqueueManualRun`, `enqueueNextDueSchedule` (the row) |
| `CancelRun`, `DisableSchedule`, `RetireSchedules` | `cancelRun`, `updateSchedule`, `reconcileSchedules` on runs |
| `ClaimNextRun` | `claimNextRun` with fence, pause, freshness, capacity, order, resource conflicts |
| `RenewClaim`, `AppendClaimEvent`, `SettleClaim` | calls under the fenced claim predicate |
| `RecoverExpiredClaims` | both callers: the claim loop, and release startup for one run |
| `RecoverDeliveryProductionTerminalRun` | the requeue with room for one attempt |
| `ArmHostRestartClaimFence`, `ClearHostRestartClaimFence` | the fence |
| `RegisterWorker`, `HeartbeatWorker`, `BeginWorkerDrain`, `StopWorker`, `SetClaimingPaused` | worker rows and the operator's pause |

### JobRunLifecycle

The database's own idea of a legal row change, translated from the SQL. `JobQueue`
implements it (`ImplementsLifecycle`): a violated trigger would abort a transaction
of the repository, and most callers treat that as fatal.

### JobRunEvents

The counters are unguarded on purpose: the database would abort the transaction of an
event that does not fit, and the property says that never happens. Payload bytes are a
nondeterministic Boolean, since the byte limit only stops payload events.

### JobSchedules

The parties that keep a copy across a wait are `ListDueSchedules`/`EnqueueNextDueSchedule` (worker)
and `ReadSchedule`/`UpdateSchedule` (service). `ActivateRelease`, `StartWeb`
and `StartWorker` let the two processes run different registries during a release change. Cadences
are intervals, with the phase of their anchor, and a grid for cron and daily expressions.
In `MCJobSchedules` a behaviour is `quiet` or not: in a quiet one the operator leaves the cadence of an
enabled schedule alone, which separates two questions (section 3).

### JobCoordinator

`process[w]` is the local state between two waits. The instants of a pass are read once and used by two transactions, as in the code.
The clock is a moving frame: `now` stays at `Horizon` and `PassTime` ages all stored
instants, down to 0 ("long past"); the code only compares instants, so nothing distinguishes
them below, and the state space is finite without an end of time, which liveness needs.
Constants of `JobQueue` that bound time are therefore 0 in these runs.

### EventFeed, RealtimeEvents

`EventFeed` promises per stream: from the `position` at which it began, every event of the client's topics once and in order, or a resync, and that only when an event
after the position is gone. `cursor` is what the client was *given*; it survives the stream, and the next one begins there. A client that was given nothing has none
(nothing is yielded at attach; the browser sets its cursor from a delivery only, `realtimeHub.ts:121`): its next stream begins at whatever tail is then current, and what was
written in between is not promised (see the observations in section 3). `RealtimeEvents` has the rows issued and pruned, the pump's `pollCursor` with what it knows to be the latest
row, and one `stream` per client with its own step counter: the asynchronous read of the bounds, the registration that takes its boundary
from the live cursor, the replay page by page, the queue, the end by overflow, disconnect or a failing pump. The stream's own `position` is what it has yielded. `ActiveFloor` and the required cursors of the subscribers (`AdvanceRequiredCursor`) protect rows from retention; `Prune` is
external, since no code under `src/` deletes these rows yet (`application-architecture.md:767` announces it).

### ChatSubscriptions, GatewayRequests

`lane`, `generation` and `reconnect` are the connection of the long-lived lane; `outbound` and `inbound` the frames on their way, `upstream` the subscriptions
the gateway holds for the connection, `emitted` what it has to say of a run. `scope` is one chat scope of the transport, `lease` the subscription manager's hold
on it. The gateway (external) may drop the event of a slow connection (`GatewayEmits`) and refuse a subscription (`GatewayTakesFrame`).
`GatewayRequests` follows a call through its own lane: permit, socket, preparation, dispatch, and the race of answer, timeout, abort and
close. `executed` is what really happened at the gateway, which no variable of the code knows.

### ChatRuns

`chatRun` is the row of `chat_runs`, `transcript` that of the session, `ticket` the hold on one-shot attachments; `sending`, `aborting`,
`reconciling` and `recovery` are the four activities of the web process with their place between two waits, and `provider` what became of the message at
the gateway. Each transaction of the repository is one step with its version guard. Disturbances (restart, lost
connection, control of the transcript, boundary, failing pass) are limited by a bound, not by kind or moment.

### AuthenticationWork, TaskNotifications, WriteAdmission

`AuthenticationWork` separates the caller, the worker that hashes and the settlement of the attempt: they race for one record,
and the permit belongs to the worker, not to the caller. `TaskNotifications` has rows with their leases, `accepted` (what the
gateway took) and one sender per process. The instant of a claim is read before write admission (`ReadClaimInstant`): a lease that lapsed since is not
claimable to it (`seen`). `WriteAdmission` separates contention before and after `BEGIN IMMEDIATE` succeeded.

### ReleaseActivation

`journal`, `live`, `snapshots`, `workspace`, `artifacts`, `pointer` are durable, `services` and `deployer` are not. `deployer.at` names the next durable
step of `activateRelease`, of `recoverExistingTransition` or of retention; every step may throw, crash or be cut off by a reboot. A database is known by the release whose schema it has, whether it is the very file that the
journal recorded, and whether it was written since.

### LogRotation

`logFile` is the file under the log's name: its number (a moved log is followed by a new file), the last line truncated away, and whether it is `trusted`. `openFileTarget` throws for a log
that is not, or that is longer than `MaximumSourceLines`: `Openable` guards every run, also the recovery of a log left `rotating`. `ChangeAccess` takes trust away and gives it back. Lines are numbers in the
order of writing. `engine` is one run of `createManagedLogRotationEngine` on one log at its step in `copyTruncate`, with the `view` it took when it opened
the file; `projection` is the log's entry in `rotation-epochs.json`; an archive counts its names, since `commitStage` links before it unlinks.
`reader` is one read between the two looks at the epoch, `tracker` what `createSourceGenerationTracker` remembers;
its `began` stands for the generation: the first line of the file as the reader first saw it. All lines read the same, so that the reader's
checkpoint of the text never helps it.

### Compositions

`MCJobActions` is `JobQueue` with three runs of which a behaviour has some (`cast`): the host restart action and an ordinary run, or the delivery
action alone. The components of `MCStreams`, `MCServices` and
`MCProgress` share no state with one another in the code: side by side they would only be shuffled. A behaviour therefore chooses one of them
(`chosen`) and runs it alone; the state space is the sum of theirs, and the properties keep the names of the components. `MCCoordinatorProgress` chooses in the same way one
of three runs (`only`): `firm` may be repeated, `soft` may be cancelled while it runs, `once` must not be repeated.

## 3. Runs

| Run | Question | What it shows |
|---|---|---|
| `queue` | do leases, attempts, cancellation and the table's rules hold under races? | types; lease rows are exactly the keys of running claims; attempts bounded; a stored cancellation wins; a lease never goes back, and a live one is ended by its holder only; `JobQueue` implements `JobRunLifecycle` |
| `job_actions` | can another claim run under a reboot; does recovery at startup stay legal? | the fence excludes every other claim; only an online worker that owns nothing takes a claim; delivery rows stay within limits and lifecycle |
| `streams` | do events, chat scopes, requests and run histories keep their promises? | `RealtimeEvents` implements `EventFeed` stream by stream; no cursor that protects rows runs ahead; a loss in a chat is reported; an answer is truthful about what was sent; the reserve of 33 suffices for every fitting definition |
| `services` | does work that outlives its caller keep its promises over crashes? | permits, answers, deliveries, releases with their databases, writes, archived log lines, identities of lines |
| `progress` | does everybody get on? | callers return, permits come back, writes are answered, notifications are delivered, streams catch up or end, leases come alive again, logs that are left alone do not stay closed |
| `chat_runs` | what becomes of a message under disturbances? | the first outcome stays; attachments return only if the gateway did not take the message; every run settles |
| `schedules` | pass, operator and releases on one schedule | one active run, no stale occurrence, no intent on an enabled schedule, retirement is final, pauses end, a quiet schedule advances |
| `coordinator_progress` | is a lease exclusive for processes that stall, crash and drain; is an unsafe action executed by two workers; do runs finish, does a drain end? | a live lease has one holder and its renewal never throws; the loop never claims at capacity; no; yes while one worker lives; yes |
| `delivery_events` (violation) | is the documented reserve of 33 enough for every lifecycle? | no, finding 1 |
| `schedule_edits` (violation) | does a schedule advance when its cadence is edited while enabled? | no, finding 2 |
| `activation_recovery` (violation) | can every journal be recovered? | no, finding 3 |
| `chat_overlap` (violation) | is a subscription that the transport believes in real? | no, finding 4 |

### Findings

1. **The event reserve is too small for recovered delivery runs** (`delivery_events`).
   The documentation promises that 33 structural slots hold every legal ten-attempt
   lifecycle. A release startup that requeues a terminal delivery run appends a
   `retry-scheduled` event on top of the `lease-expired` and `failed` of that attempt. Ten attempts cost
   up to 39 events with the truncation mark. It takes a run whose output used its 967 payload
   slots and that startups recover again and again; the transition that meets the full
   history aborts. The theorem of section 4 gives the reserve that suffices.
2. **A cadence edit can restore a consumed occurrence** (`schedule_edits`). The service
   computes the new cursor from the row it read; advancing the cursor does not change the row's
   version, so the version guard accepts an edit computed before the pass. The cursor may then
   name an occurrence whose run exists, and the idempotent replay in `enqueueNextDueSchedule` returns that run
   without moving the cursor: the schedule stays due and never runs again until it is edited
   once more.
3. **A committed activation whose journal survives cannot be rolled back** (`activation_recovery`). The workspace of a transition is
   discarded before its journal is cleared. If the deployer stops in between and the committed release then fails to become ready, the next recovery
   marks the journal `rollback-required` and finds neither the previous file nor a workspace: it throws, now and in every later
   recovery, although the snapshot is still there.
4. **A late answer unsubscribes a scope that is in use** (`chat_overlap`). When a scope loses its last subscriber before its subscribe request is answered, the
   answer makes the transport unsubscribe the session. A newer scope of the same session that subscribed meanwhile is cut off, and stays recorded as subscribed.

### Observations

The modules state four more properties the code does not have, each commented so; no run claims them. The first contradicts a document, the others none.

- `FirstStreamLosesNothing` (`RealtimeEvents`): `application-architecture.md:757` to `765` wants the initial load gap-free, by a snapshot that returns the outbox cursor to subscribe from. No procedure
  returns one. A first stream that ends before its first delivery (a failed poll, a restart, a disconnect) leaves the browser without a cursor, and the next one begins at
  a newer tail. What was written in between causes no resync; the browser asks for its data again only where the failure reached it as an error.

- `FailureIsHonest` (`ChatRuns`): a maintenance pass lists its candidates first; a run that it lists before its dispatch and that is dispatched while the
  pass is busy with others is failed as *not dispatched* (`service.ts:3706`, `3722`).
- `LegalStatesAreStorable` (`ChatRuns`): the reducer lets a run with a requested cancellation be interrupted, or become active again after an
  unknown outcome (`reducer.ts:20-25`); `chat_runs_cancellation_check` (`schema/chatRuns.ts:136`) refuses both.
- `RetentionApplies` (`LogRotation`): a worker that stops between the link and the unlink of `commitStage` leaves an archive with two names. Retention trusts only files with one
  (`fileStatusIsTrusted`), so it throws in every later run and deletes nothing more, and nothing removes the stage. An archive-only target has the same kind of trap: a stop between publishing the
  `.gz` and unlinking the source makes every later `compressArchive` of it fail with `EEXIST`.

A log marked `rotating` that outgrows `maximumSourceBytes`, or is not trusted, stays closed to readers until it shrinks or is moved: every later run throws at `managedLogRotation.ts:275`,
and the probe refuses a rotating log (`logRotationEpochProbe.ts:210`). `ReadersAreServed` excludes this, see *Fairness*.

To see a counterexample, name the property in a configuration of the module's run (`MCChatRuns.cfg`), in one of `LogRotation` itself, or, for the realtime one, as
`Realtime!FirstStreamLosesNothing` in a module that extends `MCStreams`.

### Bounds, and why they are enough

- *Queue*: two workers and two runs that share one resource are the least in which a claim
  races a claim, a recovery races its holder, and a run waits for a resource. The instants 0..2 with
  a lease of 2 and staleness 1 let a lease be granted and renewed, or run out and be recovered with
  a late instant while the other worker claims. The runs differ in retry safety, policy, priority and
  schedule. Symmetry is only over workers and only in runs without liveness.
- *Job actions*: for the restart two runs that share nothing, so that only the fence separates them, and two boots over the instants 0..2; for delivery
  one run under two workers over the instants 0..3, an attempt maximum of 3
  with an initial limit of 2, which reaches the end of the limit and the refusal beyond it. Waiting for a resource is left to the run of the queue, and so is the operator's pause.
- *Schedules*: periods 2 and 3 with instants 0..3 make old and new occurrences coincide and differ;
  one manual run; three versions allow two metadata changes between a read and its commit.
  `MaxVersion` stops operators and releases, never the schedule pass or an expiry.
- *Coordinator progress*: one worker that lives and one that stalls, crashes or drains; lease 2 and horizon 3; one of three runs, of which only `once` meets drains, and `soft` has one attempt, as a
  run whose cancellation is requested is never requeued. Small numbers keep the code's order
  poll < renewal < lease (1 s, 30 s, 120 s). A page of 32 candidates or expired claims never fills.
- *Streams*: a client for all topics and one for some, three events, pages and queues of one: an event may be replayed, queued, overflow a queue or be pruned before it
  is read. Two chat scopes of one session over two generations, three events of a run, queues of two: each loss, replay and overlap of scopes. Three calls
  on two permits: one always waits. Run histories have 10 attempts and the code's reserve, with few payload events in place of 967: the share only shifts
  where structural events begin to count.
- *Services*: three calls on one permit and one place to wait; two notifications, two senders, two stops; three transitions between two releases: an activation, one
  on top of it and the way back; three writers, so that contention outlasts one of them; three lines, two files, one stop and a retention of one for the log: a rotation is
  interrupted, repeated over a grown or replaced log, and its archive retained. A log of two lines can be opened and one of three cannot; a loss of trust counts against the same bound as a stop. The bound on lines makes
  the writer fall silent; the one liveness property of the log supposes that anyway.
- *Progress*: the same components one size smaller (two calls, one notification, two writers, the log without its readers, one client), as liveness is checked on
  the whole graph.
- *Chat runs*: one message and three disturbances, so that two recoveries of the same run overlap; two messages are beyond reach.

TLC checks deadlock in the runs of the queue, the schedules and the coordinator, which never stop. The others
(`streams`, `services`, `progress`, `chat_runs`, and the violation runs of their modules) end where their bounded work is done.

### Fairness

- *Schedules*: weak fairness of the schedule pass and of expiry, both steps of the worker's schedule
  loop, which repeats every second while the worker lives; and of the end of every active
  run, since attempts and timeouts are bounded. No fairness for operators and releases.
- *Coordinator*: weak fairness of time, of every loop step of a process (a promise that settled is continued), of the action timeout and of the abort
  that follows a drain; heartbeat only for the worker that lives. That worker takes its due steps before
  time passes (`Punctual`): its renewals are not starved by the clock. Nothing is assumed of the
  moment an action ends by itself, of operators, or of crashes. An action that was told to
  stop does end; executors receive an abort signal and are required to.
- *Authentication, writes, one-shot calls*: weak fairness of fibers, callbacks and timers. A call may time out instead of ever being answered; a lane that
  is closing closes.
- *Task notifications*: weak fairness of the senders' steps, strong fairness of claims, of the gateway accepting what it is sent again and again, of an
  answer in time and of its settlement: delivery needs an attempt that succeeds in the end, and nothing less.
- *Realtime*: weak fairness of the poll loop and of each generator. *Chat subscriptions*: of listeners, their reconciliation and closing lanes; nothing of connects or the gateway.
- *Log rotation*: weak fairness of the steps of the engine, which a schedule starts again and again; none of writers, movers, or reads. `ReadersAreServed` holds only for a log that is `LeftAlone`:
  from some time on nobody writes to it, as a line written during each run fails `verifyIdentity` each time, and it is gone or can be opened. Nothing makes a writer fall
  silent, so of a busy log the module promises no progress.
- *Chat runs*: weak fairness of send calls ending, of timers and the deadline, of the maintenance pass and its fence recovery, and of a pending control of the
  transcript ending or being overtaken. Answers and events of the gateway need never come.

## 4. Theorems

Every invariant and every safety property of actions that a passing run checks, and both refinements, are proved for all values of the
constants: any number of runs, workers, clients, calls or lines, any limits and durations. Where the run checks a composition (`StreamsSpec`,
`ServicesSpec`), the theorem is about that specification, and so about the component alone. `PROJECT.json` ("theorems") lists them with the
property each one states. Where it restricts a module (`ActionsSpec`, `ProgressSpec`), the theorem is about the module.

**`JobQueue_proofs`.** `AttemptBudget` is not inductive: a requeue of a running row must know that the
row has an attempt left, that it is leased, and that only a cancellable run has a request. `RowsInv` says
all that the table's CHECKs need of each row, and nothing about other rows. One lemma per row
update (`ClaimedRow`, `RequeuedRow`, `FinishedRow`, ...) shows that the update keeps the row
invariant *and* is a lifecycle step; one lemma per action shows that it
updates each row by one of these or not at all (`StepUpdatesRows`). Induction (`NextIInv`) and the refinement `QueueImplementsLifecycle` then both follow from the same
lemma. What the steps do to claims is a second layer: every transaction but a claim keeps each claim or ends it (`KeepsClaims`, `OnlyClaimsStartRuns`).
From it follow

- `RestartExcludes`, with `FenceInv`: a fence of the current boot names a run that is the only one that may be running. A claim that finds a live
  fence does nothing, one that finds a dead one drops it; without that deletion the row would stand beside another claim, and a caller with an older instant would take it for live;
- `LeasesMatchClaims`: each transaction moves the rows of `resource_leases` together with the claim they belong to;
- `WorkersWithinCapacity`: only a claim adds to what a worker owns, it looks first whether the worker is online and owns nothing, and only a worker that owns nothing stops;
- `LeasesOnlyAdvance`: a recovery passes over leases that have not run out (`RecoverySparesLiveLease`), so only a step that presents the claim ends a live one, and it
  settles this run alone (`HolderEndsLiveLease`);
- the action property `CancellationsWin`, and `TypeCorrect` and `AttemptsBounded`.

**`JobRunEvents_proofs`.** `EventBudgetHolds`: for every attempt maximum `A`, payload share and initial limit `L`, the
history never overflows if the reserve holds `3A + 3` events, or `4A + 2 - L` for a
delivery run. The invariant bounds structural events by the attempts made, the limit granted by startups, the
truncation mark and the cancellation request. With `A = 10` this is 33, the
code's number, and 39 for a delivery run with `L = 3`.

**`JobSchedules_proofs`.** The invariant ties what the pass and the edit carry from their read to their transaction to the row they read: an edit in flight belongs to a
web process that registers the schedule and never leaves an enabled row with an intent (`EditInv`); a pass in flight saw a due occurrence and moves beyond its
instant (`PassInv`, by `NextOccurrenceIsLater`). One active run is stated run by run (`AtMostOneActive`) and turned into the count of `OneActiveRun` at the end.
From it: `RowsStayConsistent`, `AtMostOneRun`, `RetiredSchedulesStayDisabled` and the action property `OnlyDueOccurrencesInserted`.

**`JobCoordinator_proofs`.** A claim is named by its run and its token, which is never given out twice (`TokensDiffer`), so a process and a row that agree on the token
speak of one claim. What a process knows of its claim (`ProcessInv`) is, while it executes: its own estimate of the end of the lease is never later than the row's, and what it still owns
between two executions has expired and is recovered before it claims again. A step of another process leaves live claims
alone and touches no other claim of it (`Respects`), so it disturbs none of this (`BystanderKept`); the step of the process itself has a lemma per action.
`AgedRecord` and `PassTimeKeeps` carry the invariant over the moving frame of time. From it: `LeasesAreExclusive`, `UnsafeActionsHaveOneProcess`, `RenewalsNeverThrow`, `LoopsStayConsistent`.

**`ChatRuns_proofs`.** `ChatInv` adds to the properties how far the send of a run, its reservation and its
gateway agree (`CallAgrees`: a reservation is held only while the call is open; an overdue run's send is over), and how many boundaries the transcript can have seen. Nearly every step only rewrites rows
in a way that keeps final states (`RowStep`); admission, dispatch and boundaries are apart. From it: `ChatRunsStayConsistent`, `OutcomesAreFinal`.

**`RealtimeEvents_proofs`.** The record of a stream is judged together with the id it stands at (`StreamOK`): its position, or while none is attached the cursor of its client. What is queued or pending are all events of its
topics from there to what it observed. Every listening stream has been served up to the poll cursor or not yet left its boundary (`PumpAgrees`). `PageIsContiguous`: within retention a page has no gap. The poll's loop over its page and the page itself need induction over
numbers, done with the least counterexample (`LeastNatural`). `PumpImplementsFeed`: every step of the pump is a step of `EventFeed` or changes nothing in it; it says no more than `EventFeed` promises, so nothing of what happens between a stream that delivered nothing and the next. Its theorems assume `RealtimeAssumption`, which `MCStreams` states of its
constants.

**`Streams_proofs`.** The invariant is that of each component side by side (`StreamsInv`), as no step changes the variables of two. The pump's is taken from `RealtimeEvents_proofs`
(`PumpIsRealtime`). For chat subscriptions: what is queued of a scope that has not ended belongs to the open connection (`ScopeOK`), and the queue of the leased scope leads
without a silent gap from what the chat domain has seen to what was received last (`ServedOK`). For a one-shot call: permit, socket, request, sent flag, outcome, reply and what was executed agree (`CallOK`). From it:
`AnswersAreTruthful`, `LossIsAlwaysReported`, `StreamImplementsFeed`, `StreamCursorsProtect`, `StreamsStayConsistent`.

**`Services_proofs`.** Again one invariant per component.

- Gate (`PermitsAreKept`, part of `AnswersStayTrue`): who claimed the settlement can be read off where the caller and the worker are, and the permits are counted by those who hold them.
- Notifications (`NoNotificationIsLost`): a process that settles a row as delivered knows that the gateway took it.
- Releases (`PairIsKept`, `LiveIsReplacedWhileStopped`): at every point of the deployer the transition under way is that of the journal; the previous database is the live file until the
  journal says that it may be replaced, and in the snapshot from then on.
- Writes: the open transaction is that of the holder of the lock, and only its commit made anything durable.
- Logs (`TruncatedLinesAreArchived`): nobody else truncates the file the engine has opened, and from the link of the archive on what it saw of it is archived; an epoch that a reader has seen is over as soon as the log is truncated again.

*Assumptions.* Only the named ones on constants, which TLC evaluates on every run: `QueueConstants`, `NullFence`, `EventConstants`, `ScheduleConstants`, `NullValues`,
`CoordinatorConstants`, `GateAssumption`, `ChatRunsAssumption`, and `ConstantsMeetAssumptions` of `MCServices` and `MCStreams`, which gathers those of the components they instantiate. They say that
limits lie within their maximum, durations are positive, null values differ from values, and a delivery run is retry-safe, never cancellable and not scheduled, as `actionRegistry.ts` and the trigger have it.

*Only model-checked*: liveness, that is `ExpiredIntentEnds`, `QuietScheduleAdvances`, `RunFinishes`, `DrainOfMortalEnds`, `CallsEnd`, `EventuallyDelivered`, `ClientsAreServed` and
`RunsSettle`, since the prover handles neither liveness under fairness nor ENABLED; and the violations, which are counterexamples.
Nor can the library's induction theorems be used, which take operators as parameters; where induction is needed here the least counterexample serves. No module
declares a RECURSIVE operator.

## 5. Not modelled

Everywhere: text, payloads, names, results, audit rows, metrics, byte budgets: no property is about them.

- *Queue and coordinator*: pages of 32 candidates, 32 expired claims, the paging of due schedules; `job_runs.queuedAt` as a tie-breaker
  (any order of a tie is allowed); a wall clock that steps back (a late instant has the same effect up to `Staleness`); heartbeat and schedule loop
  failures, `afterSuccessfulSettlement`, the log-maintenance exclusion. What actions do to the host: they succeed, fail, fail
  retryably or never end.
- *Realtime*: poisoned rows, pruning of anything but a prefix. The branch that forces a resync after an empty page (`eventPumpPolling.ts:148`) is left out: `PageIsContiguous` proves
  that within retention an empty page means that the poll has caught up.
- *Chat subscriptions*: more than one session key or subscriber of a scope, runs that end, unsubscribe answers, the limit of retired identifiers. An opening promise resolves in
  the step that opens; a lane that closes while connecting is closed at once; touching a scope is an action only while the lane reconnects.
- *Gateway requests*: rate admission of companion asks, the maximum of pending requests, identifiers that collide.
- *Chat runs*: runs that others started at the gateway, companion asks, the coalescer's batches and sequence numbers, snapshots, retention, deletion of sessions, the dedupe of lifecycle
  events by time. A final message in the history always names its run; a replayed admission changes nothing; a history is read and applied in one step; a
  gateway call ends before the 24 hour deadline.
- *Authentication*: what is verified, rate limits, pending logins. *Writes*: opening, migration, checkpoints, the retry at startup.
- *Task notifications*: the board; attempt counters and the length of a backoff; whether the gateway recognises a repeated notification.
- *Release activation*: the executor's own transition identifier and operation journal, the deployment lease, validation of files, the smoke test as more than a success or a
  failure. A branch of the handler that restores a promoted artifact without a journal cannot be reached. Writes between a reboot and the rollback that it interrupted are lost
  with the database they went to; no document promises otherwise.
- *Log rotation*: more than one log or engine (the lock, and its reclaim after two hours), rotation by renaming, which no target of the manifest uses, archive-only
  targets, retention by age, the state file with the cadence (a log is due at any time), and a failing directory sync after the projection was renamed.
- The other components of section 1. What is left of them is either one guarded row update after another, or input and output against the host.

## 6. Plan

Ordered by what a failure would cost.

1. Pages of the claim loop, of recovery and of the schedule pass, with the page size as a constant, as a module of its own: no run or
   schedule starves behind a page. The log-maintenance exclusion.
2. Runs that the gateway reports without our having started them, companion asks, archive-only log targets.
3. Terminal sessions (bounded replay, attach tokens), monitoring incidents, idempotent enqueue queues, previews.
4. Proofs for what items 1 to 3 add.

## 7. Reproducing

    tlc -workers 2 -config MCJobQueue.cfg MCJobQueue.tla
    tlapm JobQueue_proofs.tla        (and likewise each *_proofs.tla)

Each run's module, configuration and properties are in `PROJECT.json` ("runs"); "mutants" lists, for every property, a
change of a mapped definition, as a plausible bug would make it, that violates the property in that run.
Definitions commented *Mutant* exist only for that.
