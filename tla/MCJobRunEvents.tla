--------------------------- MODULE MCJobRunEvents ---------------------------
(* A delivery run with the attempt limit its action is registered with and *)
(* the structural reserve of the code; the payload share is cut from 967   *)
(* to 4 events, as in MCStreams.                                           *)
EXTENDS JobRunEvents

MCDeliveryDefinitions ==
  {[attemptLimit |-> 3, retrySafe |-> TRUE, cancellationPolicy |-> "never",
    scheduled |-> FALSE, delivery |-> TRUE]}
=============================================================================
