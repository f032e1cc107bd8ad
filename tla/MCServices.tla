----------------------------- MODULE MCServices -----------------------------
(***************************************************************************)
(* The authentication gate, the sender of task notifications, the          *)
(* activation of releases, the admission of database writes and the        *)
(* rotation of logs.  They share no state: a behaviour chooses one of them *)
(* and runs it alone, as in MCStreams.                                     *)
(***************************************************************************)
EXTENDS AuthenticationWork, TLC

CONSTANTS
    Chosen,                              \* the components a run checks
    Notifications, Workers, MaximumStops, \* of TaskNotifications
    Releases, None, MaximumTransitions,  \* of ReleaseActivation
    Writers,                             \* of WriteAdmission
    RetentionCount, MaximumSourceLines, MaximumLines, MaximumFiles,
    MaximumFailures                      \* of LogRotation

VARIABLES
    chosen,
    rows, accepted, sentRows, sender, stops,
    journal, activation, live, snapshots, workspace, artifacts, pointer,
    services, deployer, transitions,
    lock, write, begun, applied,
    written, logFile, archives, projection, engine, reader, tracker, failures

Tasks == INSTANCE TaskNotifications WITH
    Nobody <- "nobody", Gone <- "gone", sent <- sentRows, worker <- sender

Release == INSTANCE ReleaseActivation

Writes == INSTANCE WriteAdmission WITH
    Calls <- Writers, Free <- "free", call <- write

Logs == INSTANCE LogRotation WITH Unread <- None

ASSUME ConstantsMeetAssumptions ==
    /\ Tasks!NotificationsAssumption /\ Release!ActivationAssumption
    /\ Writes!AdmissionAssumption /\ Logs!RotationAssumption

-----------------------------------------------------------------------------
tasksVars == <<rows, accepted, sentRows, sender, stops>>
releaseVars == <<journal, activation, live, snapshots, workspace, artifacts, pointer,
                 services, deployer, transitions>>
writesVars == <<lock, write, begun, applied>>
logsVars == <<written, logFile, archives, projection, engine, reader, tracker, failures>>
serviceVars == <<chosen, vars, tasksVars, releaseVars, writesVars, logsVars>>

ServicesInit ==
    /\ chosen \in Chosen
    /\ Init /\ Tasks!Init /\ Release!Init /\ Writes!Init /\ Logs!Init

AuthenticationStep ==
    /\ chosen = "authentication" /\ Next
    /\ UNCHANGED <<chosen, tasksVars, releaseVars, writesVars, logsVars>>

TasksStep ==
    /\ chosen = "tasks" /\ Tasks!Next
    /\ UNCHANGED <<chosen, vars, releaseVars, writesVars, logsVars>>

ReleaseStep ==
    /\ chosen = "release" /\ Release!Next
    /\ UNCHANGED <<chosen, vars, tasksVars, writesVars, logsVars>>

WritesStep ==
    /\ chosen = "writes" /\ Writes!Next
    /\ UNCHANGED <<chosen, vars, tasksVars, releaseVars, logsVars>>

LogsStep ==
    /\ chosen = "logs" /\ Logs!Next
    /\ UNCHANGED <<chosen, vars, tasksVars, releaseVars, writesVars>>

ServicesNext == AuthenticationStep \/ TasksStep \/ ReleaseStep \/ WritesStep \/ LogsStep

ServicesSpec == ServicesInit /\ [][ServicesNext]_serviceVars

\* The calls of the gate are interchangeable.
Symmetry == Permutations(Calls)

-----------------------------------------------------------------------------
(* The properties of the components, under their own names *)

\* Types, permits and the constraints of the tables and files of the
\* components.
ServicesConsistent ==
    /\ chosen = "authentication" => TypeOK
    /\ chosen = "tasks" => Tasks!TypeOK
    /\ chosen = "release" => Release!TypeOK
    /\ chosen = "writes" => Writes!TypeOK
    /\ chosen = "logs" => Logs!TypeOK

\* See TaskNotifications: no notification is lost.
DeliveredWasAccepted == chosen = "tasks" => Tasks!DeliveredWasAccepted

\* See ReleaseActivation: the authoritative release and its database belong
\* together, no database that is still needed is lost, and without a journal only
\* that release runs.
AuthoritativePairKept ==
    chosen = "release" => Release!DatabasesRetained /\ Release!WithoutJournalAuthoritativeRuns

\* See ReleaseActivation: the file is replaced under no running process.
ReplacedWhileStopped == Release!ReplacedWhileStopped

\* See ReleaseActivation: what a recovery needs is there.
JournalIsRecoverable == chosen = "release" => Release!JournalIsRecoverable

\* See LogRotation: a truncation takes no line its run has seen and not archived.
TruncatedIsArchived == Logs!TruncatedIsArchived

\* An answer tells what happened: that of the gate the outcome that was settled
\* (AuthenticationWork), that of a write whether it is in the database
\* (WriteAdmission), and a line of a log keeps its identity to itself (LogRotation).
AnswersAreTrue ==
    /\ chosen = "authentication" => AnswerMatchesSettlement
    /\ chosen = "writes" => Writes!AnswerMatchesDatabase
    /\ chosen = "logs" => Logs!GenerationNamesOneFile
=============================================================================
