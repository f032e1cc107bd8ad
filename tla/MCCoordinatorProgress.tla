----------------------- MODULE MCCoordinatorProgress -----------------------
(* One worker that lives and one that may crash, stall or be drained.  A   *)
(* behaviour has one run, chosen when it starts: firm may be executed      *)
(* again, and is left to crashes and stalls; soft can be cancelled while   *)
(* it runs, and has one attempt, for a run whose cancellation is requested *)
(* is never requeued; once must not be executed again, and meets drains    *)
(* too.                                                                    *)
EXTENDS JobCoordinator

CONSTANTS lasting, mortal, firm, soft, once, host

MCSupported == [w \in Workers |-> Runs]
MCResourceKeys == [r \in Runs |-> {host}]
MCPriority == [r \in Runs |-> 0]
MCInitialAttemptLimit == [r \in Runs |-> IF r = soft THEN 1 ELSE 2]
MCRetrySafe == [r \in Runs |-> r # once]
MCCancellationPolicy == [r \in Runs |-> IF r = soft THEN "cooperative" ELSE "never"]
MCRetryDelay == [n \in 1..2 |-> 1]

VARIABLE only  (* the run that may be enqueued *)

progressVars == <<coordinatorVars, only>>

OnlyRun ==
  /\ \A r \in Runs \ {only} : jobRuns'[r] = jobRuns[r]
  /\ only # once => process'[mortal].drain = "no"

ProgressInit == CoordinatorInit /\ only \in Runs

ProgressSpec ==
  /\ ProgressInit
  /\ [][CoordinatorNext /\ OnlyRun /\ UNCHANGED only]_progressVars
  /\ CoordinatorFairness

(* See JobCoordinator (DrainEnds): the one worker that may be drained ends. *)
DrainOfMortalEnds == process[mortal].drain # "no" ~> process[mortal].pc = "exited"

(* See JobCoordinator (RunsFinish): the one run that is enqueued finishes. *)
RunFinishes == Queued(only) ~> jobRuns[only].state \in TerminalStates
=============================================================================
