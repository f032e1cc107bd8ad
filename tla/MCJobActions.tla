---------------------------- MODULE MCJobActions ----------------------------
(* The two actions with rules of their own.  A behaviour has a cast of     *)
(* runs; the others are never enqueued.  The operator does not pause the   *)
(* queue.                                                                  *)
(*                                                                         *)
(* restart and other: the host restart action and an ordinary one that     *)
(* shares no resource with it, so that nothing but the fence keeps them    *)
(* apart, over one instant less.                                           *)
(*                                                                         *)
(* delivery: the run that release startups may put back in the queue, up   *)
(* to the last attempt a row can have.  The host stays up.                 *)
EXTENDS JobQueue, TLC

CONSTANTS w1, w2, restart, other, delivery, host

MCSupported == [w \in Workers |-> Runs]
MCResourceKeys == [r \in Runs |-> IF r = other THEN {} ELSE {host}]
MCPriority == [r \in Runs |-> 0]
MCInitialAttemptLimit == [r \in Runs |-> IF r = delivery THEN 2 ELSE 1]
MCRetrySafe == [r \in Runs |-> r # restart]
MCCancellationPolicy == [r \in Runs |-> IF r = other THEN "queued-only" ELSE "never"]
MCRetryDelay == [n \in 1..AttemptMaximum |-> IF n = 1 THEN 0 ELSE 1]
Symmetry == Permutations({w1, w2})

VARIABLE cast  (* the runs that may be enqueued *)

OnlyCast ==
  /\ \A r \in Runs \ cast : jobRuns'[r] = jobRuns[r]
  /\ IF restart \in cast THEN now' < MaxTime ELSE UNCHANGED bootIdentity
  /\ UNCHANGED <<claimingPaused, cast>>

ActionsInit == Init /\ cast \in {{restart, other}, {delivery}}

ActionsSpec == ActionsInit /\ [][Next /\ OnlyCast]_<<vars, cast>>
=============================================================================
