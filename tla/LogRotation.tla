----------------------------- MODULE LogRotation -----------------------------
(***************************************************************************)
(* Rotation of one log by copy and truncation in the worker                *)
(* (src/worker/logs/managedLogRotation.ts), and its readers in the web     *)
(* process (safeLogReader.ts, logRotationEpochProbe.ts).  They meet in the *)
(* file system: the log, its archives and the projection of the rotation   *)
(* epochs.  Another process writes the log and never waits.                *)
(*                                                                         *)
(* A line is its number in the order of writing; the log holds the lines   *)
(* after logFile.start.  All lines read the same, so that neither their    *)
(* text nor the reader's checkpoint of it tells two of them apart.         *)
(***************************************************************************)
EXTENDS Integers, Sequences

CONSTANTS
    RetentionCount,     \* archives that retention keeps
    MaximumSourceLines, \* lines of a log that the engine still opens
    MaximumLines,       \* bound: lines ever written
    MaximumFiles,       \* bound: files that bear the name of the log
    MaximumFailures,    \* bound: stops of the worker, failed operations, losses of trust
    Unread              \* a reader that has seen nothing since its process began

\* What the constants are taken to be.
RotationAssumption ==
    /\ {RetentionCount, MaximumFiles} \subseteq Nat \ {0}
    /\ {MaximumSourceLines, MaximumLines, MaximumFailures} \subseteq Nat

VARIABLES
    written,     \* lines written so far
    logFile,     \* the file under the log's name; trusted: its owner and mode are
    archives,    \* its archives, oldest first
    projection,  \* its entry in rotation-epochs.json
    engine,      \* the run of the rotation engine
    reader,      \* a read of the log
    tracker,     \* createSourceGenerationTracker: what was read last
    failures

disk == <<written, logFile, archives, projection>>
readerVars == <<reader, tracker>>
vars == <<disk, engine, readerVars, failures>>

Lines == 0 .. MaximumLines
View == [file : 1 .. MaximumFiles, start : Lines, end : Lines]
Archive == [first : 1 .. MaximumLines, last : Lines, links : 1 .. 2]
EngineSteps == {"opened", "linked", "archived", "marked", "verified", "emptied"}

Idle == [pc |-> "idle"]

Init ==
    /\ written = 0
    /\ logFile = [number |-> 1, start |-> 0, present |-> TRUE, trusted |-> TRUE]
    /\ archives = <<>>
    /\ projection = [epoch |-> 0, state |-> "none"]
    /\ engine = Idle
    /\ reader = Idle
    /\ tracker = Unread
    /\ failures = 0

Current == [file |-> logFile.number, start |-> logFile.start, end |-> written]
-----------------------------------------------------------------------------
(* Others: the process that writes the log, and whoever moves it away or      *)
(* changes its owner or mode.                                                *)

WriteLine ==
    /\ written < MaximumLines
    /\ written' = written + 1
    /\ IF logFile.present THEN UNCHANGED logFile
       ELSE logFile' = [number |-> logFile.number + 1, start |-> written,
                        present |-> TRUE, trusted |-> TRUE]
    /\ UNCHANGED <<archives, projection, engine, readerVars, failures>>

RemoveLog ==
    /\ logFile.present
    /\ logFile.number < MaximumFiles
    /\ logFile' = [logFile EXCEPT !.present = FALSE]
    /\ UNCHANGED <<written, archives, projection, engine, readerVars, failures>>

ChangeAccess ==
    /\ logFile.present
    /\ logFile' = [logFile EXCEPT !.trusted = ~@]
    /\ IF logFile.trusted THEN failures < MaximumFailures /\ failures' = failures + 1
       ELSE UNCHANGED failures
    /\ UNCHANGED <<written, archives, projection, engine, readerVars>>
-----------------------------------------------------------------------------
(* The engine: one run after another, under its lock.                        *)

\* The engine opens no log that it does not trust or that is too large: the run of
\* this log throws before it changes anything, also when it was to be recovered.
Openable == logFile.trusted /\ written - logFile.start <= MaximumSourceLines

\* verifyIdentity: the file opened is still the log and has not grown.
Verified == logFile.present /\ logFile.trusted /\ Current = engine.view

Proceed(pc) == engine' = [engine EXCEPT !.pc = pc]

Retaining == [pc |-> "retaining"]

(* Mutant: a log that is gone is reported missing, and nothing more.          *)
RunWithoutLogUnsettled ==
    /\ engine = Idle
    /\ ~logFile.present
    /\ projection.state = "rotating"
    /\ UNCHANGED vars

\* A log that is gone has nothing to truncate: its pending epoch is settled.
RunWithoutLog ==
    /\ engine = Idle
    /\ ~logFile.present
    /\ projection.state = "rotating"
    /\ projection' = [projection EXCEPT !.state = "committed"]
    /\ UNCHANGED <<written, logFile, archives, engine, readerVars, failures>>

(* Mutant: what an earlier run has marked is taken to be archived.            *)
RunTrustingMark(due) ==
    LET recovering == projection.state = "rotating"
        empty == written = logFile.start
    IN /\ engine = Idle
       /\ logFile.present /\ Openable
       /\ engine' = IF recovering \/ (due /\ ~empty)
                    THEN [view |-> Current,
                          pc |-> IF empty THEN "emptied"
                                 ELSE IF recovering THEN "marked" ELSE "opened"]
                    ELSE Retaining
       /\ UNCHANGED <<disk, readerVars, failures>>

\* openFileTarget and the decision: a log is rotated when it is large or old enough,
\* or its rotation was begun before.
Run(due) ==
    LET recovering == projection.state = "rotating"
        empty == written = logFile.start
    IN /\ engine = Idle
       /\ logFile.present /\ Openable
       /\ engine' = IF recovering \/ (due /\ ~empty)
                    THEN [view |-> Current, pc |-> IF empty THEN "emptied" ELSE "opened"]
                    ELSE Retaining
       /\ UNCHANGED <<disk, readerVars, failures>>

\* createStage and the link of commitStage: for a moment the archive has two names.
LinkArchive ==
    /\ engine.pc = "opened" /\ Verified
    /\ archives' = Append(archives, [first |-> engine.view.start + 1,
                                     last |-> engine.view.end, links |-> 2])
    /\ Proceed("linked")
    /\ UNCHANGED <<written, logFile, projection, readerVars, failures>>

UnlinkStage ==
    /\ engine.pc = "linked"
    /\ archives' = [archives EXCEPT ![Len(archives)].links = 1]
    /\ Proceed("archived")
    /\ UNCHANGED <<written, logFile, projection, readerVars, failures>>

\* publishEpochState("rotating"): a recovery keeps the epoch it finds.
MarkRotating ==
    /\ engine.pc = "archived" /\ Verified
    /\ projection' = IF projection.state = "rotating" THEN projection
                     ELSE [epoch |-> projection.epoch + 1, state |-> "rotating"]
    /\ Proceed("marked")
    /\ UNCHANGED <<written, logFile, archives, readerVars, failures>>

Verify ==
    /\ engine.pc = "marked" /\ Verified
    /\ Proceed("verified")
    /\ UNCHANGED <<disk, readerVars, failures>>

\* Lines written since the last look at the file are lost with it.
Truncate ==
    /\ engine.pc = "verified"
    /\ IF logFile.present /\ logFile.number = engine.view.file
       THEN logFile' = [logFile EXCEPT !.start = written]
       ELSE UNCHANGED logFile
    /\ engine' = [pc |-> "truncated"]
    /\ UNCHANGED <<written, archives, projection, readerVars, failures>>

\* publishEpochState("committed"), also of a rotation that stopped after truncating.
Commit ==
    /\ \/ engine.pc = "truncated"
       \/ engine.pc = "emptied" /\ Verified
    /\ projection' = [projection EXCEPT !.state = "committed"]
    /\ engine' = Retaining
    /\ UNCHANGED <<written, logFile, archives, readerVars, failures>>

\* applyRetention, by number.  An archive with a second name is not trusted, and the
\* whole pass throws.
Retain ==
    /\ engine.pc = "retaining"
    /\ \A i \in DOMAIN archives : archives[i].links = 1
    /\ archives' = IF Len(archives) <= RetentionCount THEN archives
                   ELSE SubSeq(archives, Len(archives) - RetentionCount + 1, Len(archives))
    /\ engine' = Idle
    /\ UNCHANGED <<written, logFile, projection, readerVars, failures>>

RetentionThrows ==
    /\ engine.pc = "retaining"
    /\ \E i \in DOMAIN archives : archives[i].links = 2
    /\ engine' = Idle
    /\ UNCHANGED <<disk, readerVars, failures>>

VerificationFails ==
    /\ engine.pc \in {"opened", "archived", "marked", "emptied"} /\ ~Verified
    /\ engine' = Idle
    /\ UNCHANGED <<disk, readerVars, failures>>

\* The worker stops, or an operation fails: the run ends where it is.
Stop ==
    /\ engine # Idle
    /\ failures < MaximumFailures
    /\ failures' = failures + 1
    /\ engine' = Idle
    /\ UNCHANGED <<disk, readerVars>>
-----------------------------------------------------------------------------
(* Readers: one at a time for a log (createSourceReadCoordinator).           *)

\* A log that is being truncated is not read.
ProbeBefore ==
    /\ reader = Idle
    /\ projection.state # "rotating"
    /\ reader' = [pc |-> "probed", epoch |-> projection.epoch]
    /\ UNCHANGED <<disk, engine, tracker, failures>>

\* A read that the log changes under fails: for the tracker it was never begun.  So
\* does one of a log that is not trusted.
ReadWindow ==
    /\ reader.pc = "probed"
    /\ reader' = IF logFile.present /\ logFile.trusted
                 THEN [pc |-> "read", epoch |-> reader.epoch, view |-> Current]
                 ELSE Idle
    /\ UNCHANGED <<disk, engine, tracker, failures>>

Size(view) == view.end - view.start

\* record: the lines keep their generation while the log seems to have grown only.
Recorded(view, epoch) ==
    LET same == /\ tracker # Unread
                /\ tracker.view.file = view.file /\ tracker.epoch = epoch
                /\ Size(view) >= Size(tracker.view)
                /\ Size(view) = Size(tracker.view) => view = tracker.view
    IN [view |-> view, epoch |-> epoch,
        began |-> IF same THEN tracker.began ELSE view.start]

(* Mutant: the epoch is looked at after the read only.                        *)
ProbeOnce ==
    /\ reader.pc = "read"
    /\ tracker' = IF projection.state # "rotating"
                  THEN Recorded(reader.view, projection.epoch)
                  ELSE tracker
    /\ reader' = Idle
    /\ UNCHANGED <<disk, engine, failures>>

ProbeAfter ==
    /\ reader.pc = "read"
    /\ tracker' = IF projection = [epoch |-> reader.epoch, state |-> projection.state]
                     /\ projection.state # "rotating"
                  THEN Recorded(reader.view, reader.epoch)
                  ELSE tracker
    /\ reader' = Idle
    /\ UNCHANGED <<disk, engine, failures>>

RestartWeb ==
    /\ reader' = Idle
    /\ tracker' = Unread
    /\ UNCHANGED <<disk, engine, failures>>
-----------------------------------------------------------------------------
EngineStep ==
    \/ RunWithoutLog \/ \E due \in BOOLEAN : Run(due)
    \/ LinkArchive \/ UnlinkStage \/ MarkRotating \/ Verify \/ Truncate \/ Commit
    \/ Retain \/ RetentionThrows \/ VerificationFails

Next ==
    \/ WriteLine \/ RemoveLog \/ ChangeAccess
    \/ EngineStep \/ Stop
    \/ ProbeBefore \/ ReadWindow \/ ProbeAfter \/ RestartWeb

Spec == Init /\ [][Next]_vars

\* The schedule runs the engine again and again, and a run goes on.
Fairness == WF_vars(EngineStep)

FairSpec == Spec /\ Fairness
-----------------------------------------------------------------------------
(* Properties.                                                               *)

TypeOK ==
    /\ written \in Lines
    /\ logFile \in [number : 1 .. MaximumFiles, start : Lines,
                   present : BOOLEAN, trusted : BOOLEAN]
    /\ archives \in Seq(Archive)
    /\ projection \in [epoch : Nat, state : {"none", "rotating", "committed"}]
    /\ engine \in {Idle} \cup [pc : {"truncated", "retaining"}]
                         \cup [pc : EngineSteps, view : View]
    /\ reader \in {Idle} \cup [pc : {"probed"}, epoch : Nat]
                         \cup [pc : {"read"}, epoch : Nat, view : View]
    /\ tracker \in {Unread} \cup [view : View, epoch : Nat, began : Lines]
    /\ failures \in 0 .. MaximumFailures

\* A line identity is its generation, its offset and its text (projectLine): it
\* never names two lines, since no generation goes over a truncation, however the
\* rotation, its recovery and the reads overlap.
GenerationNamesOneFile == tracker # Unread => tracker.began = tracker.view.start

\* A truncation takes no line that its run has seen and not archived, over stops
\* and recoveries; what is lost was written after the last verification.
TruncatedIsArchived ==
    [][logFile'.number = logFile.number =>
         \A line \in (logFile.start + 1) .. logFile'.start :
            \/ line > engine.view.end
            \/ \E i \in DOMAIN archives :
                 line \in archives[i].first .. archives[i].last]_vars

\* A rotation that stopped closes a log to its readers until a later run ends it.
\* That a run gets to it takes others to leave the log alone: from some time on it is
\* gone or can be opened, and nothing is written, since a run ends where it finds the
\* log grown.  A log that went beyond MaximumSourceLines while it was closed stays so.
LeftAlone == <>[](logFile.present => Openable) /\ <>[][written' = written]_written

ReadersAreServed ==
    LeftAlone => (projection.state = "rotating" ~> projection.state # "rotating")

\* Not so in the code: an archive that a stop left with two names is trusted by
\* no later run, which then reports an error and deletes nothing.
RetentionApplies ==
    [][engine.pc = "retaining" /\ engine' = Idle /\ failures' = failures
         => Len(archives') <= RetentionCount]_vars
=============================================================================
