------------------------- MODULE ReleaseActivation -------------------------
(***************************************************************************)
(* Activation of a release and its database as one pair                    *)
(* (scripts/delivery/productionReleaseActivation.ts) over the durable      *)
(* files it is made of: the transition journal, the activation record, the *)
(* live database, immutable snapshots, the private workspace, the process  *)
(* pointers and the artifact directories.                                  *)
(*                                                                         *)
(* The deployer works under an exclusive lease, one step at a time.  Every *)
(* step may throw, and the deployer or the whole host may stop between any *)
(* two steps; a step that takes effect and then reports an error equals    *)
(* one that succeeds and is followed by a throw.  After a reboot systemd   *)
(* starts the units from the process pointers.                             *)
(***************************************************************************)
EXTENDS Naturals

CONSTANTS
    Releases,           \* published releases (with their runtimes)
    None,               \* nothing: no file, no record, no process
    MaximumTransitions  \* bound on transition ids (UUIDs in the code)

VARIABLES
    journal,    \* activation-transition.json
    activation, \* activation.json: the authoritative pair
    live,       \* the live database file
    snapshots,  \* [Transitions -> release whose schema the snapshot has, or None]
    workspace,  \* .database-transition-<id>: the file in its candidate directory
    artifacts,  \* releases present in the artifact directories
    pointer,    \* release the process pointers name
    services,   \* release whose web and worker processes run
    deployer,   \* the process that holds the deployment lease
    transitions \* transition ids drawn so far

durable == <<journal, activation, live, snapshots, workspace, artifacts, pointer>>
vars == <<durable, services, deployer, transitions>>

Transitions == 1 .. MaximumTransitions

\* Identity and content of the database: its schema, whether it still is the
\* very file (inode, times, size) the journal recorded, whether the running
\* release has written to it since then.
Database == [schema: Releases, recorded: BOOLEAN, written: BOOLEAN]

\* previous names the release to go back to and the snapshot of its database.
Pair == [current: Releases, transition: Transitions,
         previous: [release: Releases, snapshot: Transitions] \cup {None}]

Journal == [phase: {"service-stop-requested", "prepared",
                    "database-promoted", "rollback-required"},
            candidate: Releases, transition: Transitions,
            previousActivation: Pair \cup {None}]

\* What the constants are taken to be: None is no value of another kind.
ActivationAssumption ==
    /\ None \notin Releases /\ None \notin Transitions /\ None \notin Database
    /\ None \notin Pair /\ None \notin Journal
    /\ MaximumTransitions \in Nat

\* The points of the code between two steps: those of a session, of the
\* transition it makes and of the recovery of one
Points == {"idle", "retainAdmitted", "recovered", "admitted", "reapplied",
           "catch", "restart", "throw",
           "journal", "stop", "snapshot", "record", "workspace", "migrate",
           "promote", "markPromoted", "start", "verify", "markRollback",
           "commit", "settle", "discard", "clear", "retain",
           "recover", "resumed", "resumeMarkRollback", "resumeSettle",
           "resumeDiscard", "resumeClear", "rollback", "inspect", "remove",
           "copySnapshot", "restore", "rollbackRecord", "rollbackDiscard",
           "rollbackStart", "rollbackReady", "rollbackClear"}

\* caller: what continues, or fails, after a recovery.
\* target: the retained snapshot a paired rollback starts from.
Deployer == [at: Points, caller: {"admission", "activation", "failure"},
             candidate: Releases \cup {None}, target: Transitions \cup {None},
             id: Transitions \cup {None}, base: Pair \cup {None},
             resumes: BOOLEAN, settlementFailed: BOOLEAN]

Idle == [at |-> "idle", caller |-> "admission", candidate |-> None,
         target |-> None, id |-> None, base |-> None,
         resumes |-> FALSE, settlementFailed |-> FALSE]

Init ==
    /\ journal = None /\ activation = None /\ live = None
    /\ snapshots = [t \in Transitions |-> None]
    /\ workspace = [present |-> FALSE, file |-> None]
    /\ artifacts = {} /\ pointer = None /\ services = None
    /\ deployer = Idle /\ transitions = 0

-----------------------------------------------------------------------------
NoWorkspace == [present |-> FALSE, file |-> None]
EmptyWorkspace == [present |-> TRUE, file |-> None]

At(point) == deployer.at = point
Goto(point) == deployer' = [deployer EXCEPT !.at = point]

SetPhase(phase) == journal' = [journal EXCEPT !.phase = phase]

\* activationMatchesCandidate
Committed ==
    /\ journal # None /\ activation # None
    /\ activation.transition = journal.transition
    /\ activation.current = journal.candidate

\* nextActivationRecord of the transition the deployer prepares
Expected ==
    [current |-> deployer.candidate, transition |-> deployer.id,
     previous |-> IF deployer.base = None THEN None
                  ELSE [release |-> deployer.base.current,
                        snapshot |-> deployer.id]]

ReleasesOf(pair) ==
    IF pair = None THEN {}
    ELSE {pair.current} \cup
         IF pair.previous = None THEN {} ELSE {pair.previous.release}

SnapshotsOf(pair) ==
    IF pair = None THEN {}
    ELSE {pair.transition} \cup
         IF pair.previous = None THEN {} ELSE {pair.previous.snapshot}

\* retainCommittedDatabaseSnapshots: age and number decide which of the
\* unprotected snapshots go.
RetainSnapshots ==
    \E reaped \in SUBSET (Transitions \ SnapshotsOf(activation)) :
        snapshots' = [t \in Transitions |-> IF t \in reaped THEN None ELSE snapshots[t]]

\* retainCommittedProductionArtifacts
RetainArtifacts(alsoKept) ==
    artifacts' = artifacts \cap (ReleasesOf(activation) \cup alsoKept)

\* A process of release r runs only on a database of its own schema: it
\* starts in validate-only mode.
Started(r) == IF live # None /\ live.schema = r THEN r ELSE None

\* The pointers move, then the units are restarted; the restart may fail.
Start(r) ==
    /\ pointer' = r
    /\ services' \in {services, Started(r)}

Ready(r) == services = r

-----------------------------------------------------------------------------
(* Sessions under the lease *)

\* prepareProductionArtifactAdmission: recovery, then artifact retention
Admit ==
    /\ At("idle")
    /\ deployer' = [Idle EXCEPT !.at = "recover"]
    /\ UNCHANGED <<durable, services, transitions>>

RetainAdmitted ==
    /\ At("retainAdmitted")
    /\ RetainArtifacts({})
    /\ deployer' = Idle
    /\ UNCHANGED <<journal, activation, live, snapshots, workspace, pointer,
                   services, transitions>>

\* The candidate has been published; a paired rollback names the retained
\* snapshot of the release it goes back to.
Activate(candidate, target) ==
    /\ At("idle")
    /\ \/ target = None
       \/ /\ activation # None /\ activation.previous # None
          /\ activation.previous = [release |-> candidate, snapshot |-> target]
    /\ artifacts' = artifacts \cup {candidate}
    /\ deployer' = [Idle EXCEPT
         !.at = "recover", !.caller = "activation",
         !.candidate = candidate, !.target = target,
         !.resumes = /\ Committed /\ journal.phase = "database-promoted"
                     /\ journal.candidate = candidate]
    /\ UNCHANGED <<journal, activation, live, snapshots, workspace, pointer,
                   services, transitions>>

RetainResumed ==
    /\ At("recovered") /\ deployer.resumes
    /\ RetainSnapshots /\ RetainArtifacts({})
    /\ deployer' = Idle
    /\ UNCHANGED <<journal, activation, live, workspace, pointer, services,
                   transitions>>

RetainForCandidate ==
    /\ At("recovered") /\ ~deployer.resumes
    /\ deployer.candidate \in artifacts
    /\ RetainSnapshots /\ RetainArtifacts({deployer.candidate})
    /\ Goto("admitted")
    /\ UNCHANGED <<journal, activation, live, workspace, pointer, services,
                   transitions>>

\* The candidate is authoritative already: its processes are started again.
Reapply ==
    /\ At("admitted")
    /\ activation # None /\ activation.current = deployer.candidate
    /\ Start(deployer.candidate)
    /\ Goto("reapplied")
    /\ UNCHANGED <<journal, activation, live, snapshots, workspace, artifacts,
                   transitions>>

Reapplied ==
    /\ At("reapplied") /\ Ready(deployer.candidate)
    /\ deployer' = Idle
    /\ UNCHANGED <<durable, services, transitions>>

BeginTransition ==
    /\ At("admitted")
    /\ activation # None => /\ activation.current # deployer.candidate
                            /\ activation.current \in artifacts
    /\ deployer.target # None => snapshots[deployer.target] = deployer.candidate
    /\ transitions < MaximumTransitions /\ transitions' = transitions + 1
    /\ deployer' = [deployer EXCEPT !.at = "journal", !.id = transitions + 1,
                                    !.base = activation]
    /\ UNCHANGED <<durable, services>>

-----------------------------------------------------------------------------
(* The transition *)

CreateJournal ==
    /\ At("journal") /\ journal = None
    /\ journal' = [phase |-> "service-stop-requested",
                   candidate |-> deployer.candidate, transition |-> deployer.id,
                   previousActivation |-> deployer.base]
    /\ Goto("stop")
    /\ UNCHANGED <<activation, live, snapshots, workspace, artifacts, pointer,
                   services, transitions>>

StopServices ==
    /\ At("stop")
    /\ services' = None
    /\ Goto("snapshot")
    /\ UNCHANGED <<durable, transitions>>

(* Mutant: a paired rollback takes no snapshot of the release it leaves. *)
SnapshotUnlessTarget ==
    /\ At("snapshot")
    /\ \/ /\ deployer.base = None /\ live = None
          /\ UNCHANGED <<snapshots, live>>
       \/ /\ deployer.base # None /\ live # None
          /\ live.schema = deployer.base.current
          /\ snapshots' = IF deployer.target # None THEN snapshots
                          ELSE [snapshots EXCEPT ![deployer.id] = live.schema]
          /\ live' = [live EXCEPT !.recorded = TRUE, !.written = FALSE]
    /\ Goto("record")
    /\ UNCHANGED <<journal, activation, workspace, artifacts, pointer,
                   services, transitions>>

\* The release that owns the schema takes the snapshot, or the candidate
\* proves that there is no database.
Snapshot ==
    /\ At("snapshot")
    /\ \/ /\ deployer.base = None /\ live = None
          /\ UNCHANGED <<snapshots, live>>
       \/ /\ deployer.base # None /\ live # None
          /\ live.schema = deployer.base.current
          /\ snapshots' = [snapshots EXCEPT ![deployer.id] = live.schema]
          /\ live' = [live EXCEPT !.recorded = TRUE, !.written = FALSE]
    /\ Goto("record")
    /\ UNCHANGED <<journal, activation, workspace, artifacts, pointer,
                   services, transitions>>

RecordSnapshot ==
    /\ At("record") /\ SetPhase("prepared")
    /\ Goto("workspace")
    /\ UNCHANGED <<activation, live, snapshots, workspace, artifacts, pointer,
                   services, transitions>>

\* A copy of the snapshot, or of the target snapshot of a paired rollback
PrepareWorkspace ==
    /\ At("workspace") /\ ~workspace.present
    /\ workspace' = [present |-> TRUE,
                     file |-> IF deployer.target # None THEN snapshots[deployer.target]
                              ELSE snapshots[deployer.id]]
    /\ Goto("migrate")
    /\ UNCHANGED <<journal, activation, live, snapshots, artifacts, pointer,
                   services, transitions>>

Migrate ==
    /\ At("migrate")
    /\ workspace' = [workspace EXCEPT !.file = deployer.candidate]
    /\ Goto("promote")
    /\ UNCHANGED <<journal, activation, live, snapshots, artifacts, pointer,
                   services, transitions>>

\* The rename that replaces the live file by the verified file of the workspace
Install ==
    /\ live' = [schema |-> workspace.file, recorded |-> FALSE, written |-> FALSE]
    /\ workspace' = EmptyWorkspace

StillPrevious(previous) ==
    IF previous = None THEN live = None ELSE live # None /\ live.recorded

Promote ==
    /\ At("promote") /\ StillPrevious(deployer.base)
    /\ Install
    /\ Goto("markPromoted")
    /\ UNCHANGED <<journal, activation, snapshots, artifacts, pointer,
                   services, transitions>>

MarkPromoted ==
    /\ At("markPromoted") /\ SetPhase("database-promoted")
    /\ Goto("start")
    /\ UNCHANGED <<activation, live, snapshots, workspace, artifacts, pointer,
                   services, transitions>>

StartCandidate ==
    /\ At("start") /\ Start(deployer.candidate)
    /\ Goto("verify")
    /\ UNCHANGED <<journal, activation, live, snapshots, workspace, artifacts,
                   transitions>>

\* Readiness and the smoke test
VerifyCandidate ==
    /\ At("verify") /\ Ready(deployer.candidate)
    /\ Goto("commit")
    /\ UNCHANGED <<durable, services, transitions>>

MarkRollback ==
    /\ At("markRollback") /\ SetPhase("rollback-required")
    /\ Goto("catch")
    /\ UNCHANGED <<activation, live, snapshots, workspace, artifacts, pointer,
                   services, transitions>>

Commit ==
    /\ At("commit") /\ activation = deployer.base
    /\ activation' = Expected
    /\ Goto("settle")
    /\ UNCHANGED <<journal, live, snapshots, workspace, artifacts, pointer,
                   services, transitions>>

Settle ==
    /\ At("settle")
    /\ Goto("discard")
    /\ UNCHANGED <<durable, services, transitions>>

\* Workspaces are removed as a whole; one that is missing is no error.
Discard(point, next) ==
    /\ At(point)
    /\ workspace' = NoWorkspace
    /\ Goto(next)
    /\ UNCHANGED <<journal, activation, live, snapshots, artifacts, pointer,
                   services, transitions>>

ClearJournal(point, next) ==
    /\ At(point)
    /\ journal' = None
    /\ Goto(next)
    /\ UNCHANGED <<activation, live, snapshots, workspace, artifacts, pointer,
                   services, transitions>>

RetainCommitted ==
    /\ At("retain")
    /\ RetainSnapshots /\ RetainArtifacts({})
    /\ deployer' = Idle
    /\ UNCHANGED <<journal, activation, live, workspace, pointer, services,
                   transitions>>

-----------------------------------------------------------------------------
(* Recovery of a transition that a durable journal names *)

\* Where a recovery that has nothing left to do continues
AfterRecovery ==
    CASE deployer.caller = "admission" -> "retainAdmitted"
      [] deployer.caller = "activation" -> "recovered"
      [] deployer.caller = "failure" ->
           IF activation = Expected THEN "retain" ELSE "throw"

NothingToRecover ==
    /\ At("recover") /\ journal = None
    /\ Goto(AfterRecovery)
    /\ UNCHANGED <<durable, services, transitions>>

\* A committed candidate whose database was promoted stays.
Resume ==
    /\ At("recover") /\ Committed
    /\ journal.phase = "database-promoted"
    /\ activation.current \in artifacts
    /\ Start(activation.current)
    /\ Goto("resumed")
    /\ UNCHANGED <<journal, activation, live, snapshots, workspace, artifacts,
                   transitions>>

Resumed ==
    /\ At("resumed") /\ Ready(activation.current)
    /\ Goto("resumeSettle")
    /\ UNCHANGED <<durable, services, transitions>>

ResumeSettle ==
    /\ At("resumeSettle")
    /\ Goto("resumeDiscard")
    /\ UNCHANGED <<durable, services, transitions>>

ResumeMarkRollback ==
    /\ At("resumeMarkRollback") /\ SetPhase("rollback-required")
    /\ Goto("rollback")
    /\ UNCHANGED <<activation, live, snapshots, workspace, artifacts, pointer,
                   services, transitions>>

RollBack ==
    /\ At("recover") /\ journal # None
    /\ Committed => journal.phase = "rollback-required"
    /\ Goto("rollback")
    /\ UNCHANGED <<durable, services, transitions>>

(* Mutant: the processes are left running while the pair is taken back. *)
RollbackRunning ==
    /\ At("rollback")
    /\ \/ Committed /\ journal.phase # "service-stop-requested"
       \/ activation = journal.previousActivation
    /\ Goto(IF journal.phase = "service-stop-requested"
            THEN "rollbackDiscard" ELSE "inspect")
    /\ UNCHANGED <<durable, services, transitions>>

\* Either the candidate is committed, after its database was promoted, or the
\* previous pair is still authoritative.
RollbackStop ==
    /\ At("rollback")
    /\ \/ Committed /\ journal.phase # "service-stop-requested"
       \/ activation = journal.previousActivation
    /\ journal.previousActivation # None =>
         journal.previousActivation.current \in artifacts
    /\ services' = None
    /\ Goto(IF journal.phase = "service-stop-requested"
            THEN "rollbackDiscard" ELSE "inspect")
    /\ UNCHANGED <<durable, transitions>>

\* inspectDatabaseTransitionRecovery: neither the recorded file nor a
\* workspace is an error.
Promoted ==
    /\ ~StillPrevious(journal.previousActivation)
    /\ workspace.present /\ live # None

Inspect ==
    /\ At("inspect")
    /\ StillPrevious(journal.previousActivation) \/ Promoted
    /\ Goto(CASE ~Promoted -> "rollbackRecord"
              [] Promoted /\ journal.previousActivation = None -> "remove"
              [] OTHER -> "copySnapshot")
    /\ UNCHANGED <<durable, services, transitions>>

RemovePromoted ==
    /\ At("remove")
    /\ live' = None
    /\ Goto("rollbackRecord")
    /\ UNCHANGED <<journal, activation, snapshots, workspace, artifacts,
                   pointer, services, transitions>>

\* The previous release validates its own snapshot in the workspace.
CopySnapshot ==
    /\ At("copySnapshot")
    /\ snapshots[journal.transition] = journal.previousActivation.current
    /\ workspace' = [workspace EXCEPT !.file = snapshots[journal.transition]]
    /\ Goto("restore")
    /\ UNCHANGED <<journal, activation, live, snapshots, artifacts, pointer,
                   services, transitions>>

Restore ==
    /\ At("restore")
    /\ Install
    /\ Goto("rollbackRecord")
    /\ UNCHANGED <<journal, activation, snapshots, artifacts, pointer,
                   services, transitions>>

RollbackRecord ==
    /\ At("rollbackRecord")
    /\ activation' = IF Committed THEN journal.previousActivation ELSE activation
    /\ Goto("rollbackDiscard")
    /\ UNCHANGED <<journal, live, snapshots, workspace, artifacts, pointer,
                   services, transitions>>

(* Mutant: without a previous release the pointers are left as they are. *)
RollbackPointersKept ==
    /\ At("rollbackStart")
    /\ IF journal.previousActivation = None
       THEN UNCHANGED <<pointer, services>>
       ELSE Start(journal.previousActivation.current)
    /\ Goto("rollbackReady")
    /\ UNCHANGED <<journal, activation, live, snapshots, workspace, artifacts,
                   transitions>>

\* restorePreviousProcessState
RollbackStart ==
    /\ At("rollbackStart")
    /\ IF journal.previousActivation = None
       THEN pointer' = None /\ UNCHANGED services
       ELSE Start(journal.previousActivation.current)
    /\ Goto("rollbackReady")
    /\ UNCHANGED <<journal, activation, live, snapshots, workspace, artifacts,
                   transitions>>

RollbackReady ==
    /\ At("rollbackReady")
    /\ journal.previousActivation # None => Ready(journal.previousActivation.current)
    /\ Goto("rollbackClear")
    /\ UNCHANGED <<durable, services, transitions>>

-----------------------------------------------------------------------------
(* The failure of an activation *)

\* A committed candidate whose settlement failed keeps its journal; any
\* other journal is recovered at once.
CatchWithJournal ==
    /\ At("catch") /\ journal # None
    /\ deployer' =
         IF /\ deployer.settlementFailed /\ Committed
            /\ journal.phase = "database-promoted"
         THEN Idle
         ELSE [deployer EXCEPT !.at = "recover", !.caller = "failure"]
    /\ UNCHANGED <<durable, services, transitions>>

CatchCommitted ==
    /\ At("catch") /\ journal = None /\ activation = Expected
    /\ workspace' = NoWorkspace
    /\ deployer' = [deployer EXCEPT !.at = "retain", !.caller = "failure"]
    /\ UNCHANGED <<journal, activation, live, snapshots, artifacts, pointer,
                   services, transitions>>

\* The journal was never created: nothing has been stopped for good.
CatchUnstarted ==
    /\ At("catch") /\ journal = None /\ activation # Expected
    /\ services' = None
    /\ workspace' = NoWorkspace
    /\ Goto("restart")
    /\ UNCHANGED <<journal, activation, live, snapshots, artifacts, pointer,
                   transitions>>

RestartPrevious ==
    /\ At("restart")
    /\ IF deployer.base = None THEN UNCHANGED <<pointer, services>>
       ELSE Start(deployer.base.current)
    /\ deployer' = Idle
    /\ UNCHANGED <<journal, activation, live, snapshots, workspace, artifacts,
                   transitions>>

\* The points of activateRelease after the journal has been asked for
TryPoints == {"journal", "stop", "snapshot", "record", "workspace", "migrate",
              "promote", "markPromoted", "commit", "discard", "clear", "retain"}

Throw ==
    /\ ~At("idle") /\ ~At("catch")
    /\ deployer' =
         CASE At("start") \/ At("verify") -> [deployer EXCEPT !.at = "markRollback"]
           [] At("resumed") -> [deployer EXCEPT !.at = "resumeMarkRollback"]
           [] At("settle") -> [deployer EXCEPT !.at = "catch", !.settlementFailed = TRUE]
           [] deployer.at \in TryPoints \cup {"markRollback"}
              /\ deployer.caller # "failure" -> [deployer EXCEPT !.at = "catch"]
           [] OTHER -> Idle
    /\ UNCHANGED <<durable, services, transitions>>

-----------------------------------------------------------------------------
(* The host *)

Crash ==
    /\ ~At("idle")
    /\ deployer' = Idle
    /\ UNCHANGED <<durable, services, transitions>>

\* The units are enabled: systemd starts what the pointers name.
Reboot ==
    /\ deployer' = Idle
    /\ services' = IF pointer = None THEN None ELSE Started(pointer)
    /\ UNCHANGED <<durable, transitions>>

\* The write reaches the database file now or stays in the write-ahead log.
Write ==
    /\ services # None /\ live # None
    /\ \E recorded \in {live.recorded, FALSE} :
         live' = [live EXCEPT !.recorded = recorded, !.written = TRUE]
    /\ UNCHANGED <<journal, activation, snapshots, workspace, artifacts,
                   pointer, services, deployer, transitions>>

-----------------------------------------------------------------------------
Transition ==
    \/ CreateJournal \/ StopServices \/ Snapshot \/ RecordSnapshot
    \/ PrepareWorkspace \/ Migrate \/ Promote \/ MarkPromoted
    \/ StartCandidate \/ VerifyCandidate \/ MarkRollback \/ Commit \/ Settle
    \/ Discard("discard", "clear") \/ ClearJournal("clear", "retain")
    \/ RetainCommitted

Recovery ==
    \/ NothingToRecover
    \/ Resume \/ Resumed \/ ResumeSettle \/ ResumeMarkRollback
    \/ Discard("resumeDiscard", "resumeClear")
    \/ ClearJournal("resumeClear", AfterRecovery)
    \/ RollBack \/ RollbackStop \/ Inspect \/ RemovePromoted \/ CopySnapshot
    \/ Restore \/ RollbackRecord \/ Discard("rollbackDiscard", "rollbackStart")
    \/ RollbackStart \/ RollbackReady
    \/ ClearJournal("rollbackClear", AfterRecovery)

Session ==
    \/ Admit \/ RetainAdmitted
    \/ \E candidate \in Releases, target \in Transitions \cup {None} :
         Activate(candidate, target)
    \/ RetainResumed \/ RetainForCandidate \/ Reapply \/ Reapplied
    \/ BeginTransition
    \/ CatchWithJournal \/ CatchCommitted \/ CatchUnstarted \/ RestartPrevious

Next == Session \/ Transition \/ Recovery \/ Throw \/ Crash \/ Reboot \/ Write

Spec == Init /\ [][Next]_vars

-----------------------------------------------------------------------------
TypeOK ==
    /\ journal \in Journal \cup {None}
    /\ activation \in Pair \cup {None}
    /\ live \in Database \cup {None}
    /\ snapshots \in [Transitions -> Releases \cup {None}]
    /\ workspace \in [present : BOOLEAN, file : Releases \cup {None}]
    /\ artifacts \subseteq Releases
    /\ pointer \in Releases \cup {None} /\ services \in Releases \cup {None}
    /\ deployer \in Deployer
    /\ transitions \in 0 .. MaximumTransitions

\* The pair a recovery ends with: the previous one while the candidate is not
\* committed or has to be rolled back.
Authoritative ==
    IF journal # None /\ (journal.phase = "rollback-required" \/ ~Committed)
    THEN journal.previousActivation ELSE activation

\* The database of the authoritative release is never out of reach: it is
\* the live file or the snapshot the journal names.
AuthoritativeDatabaseSurvives ==
    Authoritative # None =>
      \/ live # None /\ live.schema = Authoritative.current
      \/ journal # None /\ snapshots[journal.transition] = Authoritative.current

\* What a paired rollback needs is retained as long as the record offers it:
\* both releases and the snapshot the previous one goes back to.
RollbackPairRetained ==
    activation # None =>
      /\ activation.current \in artifacts
      /\ activation.previous # None =>
           /\ activation.previous.release \in artifacts
           /\ snapshots[activation.previous.snapshot] = activation.previous.release

\* Neither retention nor a crash between two steps loses a database that the
\* record or the journal relies on.
DatabasesRetained == AuthoritativeDatabaseSurvives /\ RollbackPairRetained

\* The live file is replaced or removed only while no process uses it.
ReplacedWhileStopped ==
    [][(deployer.at \in {"promote", "restore", "remove"} /\ live' # live)
         => services = None]_vars

\* No candidate runs, or starts after a reboot, on its own account: without
\* a journal it is the authoritative release or nothing.
WithoutJournalAuthoritativeRuns ==
    journal = None =>
      /\ services # None => activation # None /\ services = activation.current
      /\ pointer # None => activation # None /\ pointer = activation.current

\* The next recovery can always finish what the journal names: it finds the
\* recorded file or the workspace (activatePublishedProductionRelease: "as a
\* crash-recoverable pair").
JournalIsRecoverable ==
    (journal # None /\ journal.phase # "service-stop-requested"
      /\ (Committed => journal.phase = "rollback-required"))
    => StillPrevious(journal.previousActivation) \/ Promoted
=============================================================================
