----------------------------- MODULE MCJobQueue -----------------------------
(* Two workers and two runs that need the same resource: a retry-safe one  *)
(* that can be cancelled while it runs, and a scheduled one that is        *)
(* neither retry-safe nor cancellable.  Time runs long enough for a lease  *)
(* to be granted, renewed, outlived and granted again.                     *)
EXTENDS JobQueue, TLC

CONSTANTS w1, w2, safe, once, host

MCSupported == [w \in {w1, w2} |-> {safe, once}]
MCResourceKeys == [r \in {safe, once} |-> {host}]
MCPriority == [r \in {safe, once} |-> IF r = once THEN 1 ELSE 0]
MCInitialAttemptLimit == [r \in {safe, once} |-> 2]
MCRetrySafe == [r \in {safe, once} |-> r = safe]
MCCancellationPolicy == [r \in {safe, once} |-> IF r = safe THEN "cooperative" ELSE "never"]
MCRetryDelay == [n \in 1..2 |-> 1]
Symmetry == Permutations({w1, w2})
=============================================================================
