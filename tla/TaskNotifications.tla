------------------------- MODULE TaskNotifications -------------------------
(***************************************************************************)
(* The outbox of task notifications (taskNotificationQueue.ts) and the     *)
(* loop of the worker process that sends them to the gateway               *)
(* (worker/taskNotifications.ts).  A row is claimed under a lease, its     *)
(* message is sent, and the answer is settled under the same lease.        *)
(*                                                                         *)
(* Instants are kept as what they are compared with: whether the backoff   *)
(* of a row is over, whether its lease is past its deadline, and, for a    *)
(* process that has read the clock and waits for write admission, what     *)
(* its reading can still claim or settle.                                  *)
(***************************************************************************)
EXTENDS Naturals

CONSTANTS
    Notifications, \* rows of task_notification_outbox
    Workers,       \* worker processes; each start draws a new worker id
    Nobody,        \* lease_owner IS NULL, and "holds no claim"
    Gone,          \* an owner id whose process has ended
    MaximumStops   \* bound on crashes, shutdowns and database errors

\* What the constants are taken to be
NotificationsAssumption ==
    /\ Nobody \notin Workers /\ Gone \notin Workers /\ Nobody # Gone
    /\ Nobody \notin Notifications
    /\ MaximumStops \in Nat

VARIABLES
    rows,     \* [Notifications -> Row]
    accepted, \* notifications the gateway has taken (idempotent per key)
    sent,     \* requests that may still reach the gateway
    worker,   \* [Workers -> Process]
    stops     \* crashes, shutdowns and database errors so far

vars == <<rows, accepted, sent, worker, stops>>

Row == [inserted: BOOLEAN, delivered: BOOLEAN, waiting: BOOLEAN,
        owner: Workers \cup {Nobody, Gone}, lapsed: BOOLEAN]

\* A process between two of its steps.  "releasing" is the settlement of an
\* interrupted send, after which the loop ends.
Phases == {"idle", "claiming", "sending", "delivering", "retrying",
           "releasing", "down"}

Process == [phase: Phases, seen: SUBSET Notifications,
            claim: Notifications \cup {Nobody}, live: BOOLEAN]

Idle == [phase |-> "idle", seen |-> {}, claim |-> Nobody, live |-> FALSE]
Down == [Idle EXCEPT !.phase = "down"]

Init ==
    /\ rows = [e \in Notifications |->
                 [inserted |-> FALSE, delivered |-> FALSE, waiting |-> FALSE,
                  owner |-> Nobody, lapsed |-> FALSE]]
    /\ accepted = {} /\ sent = {}
    /\ worker = [w \in Workers |-> Idle]
    /\ stops = 0

-----------------------------------------------------------------------------
(* The task board and the clock *)

\* The transaction of a board operation appends its notification.
Insert(e) ==
    /\ ~rows[e].inserted
    /\ rows' = [rows EXCEPT ![e].inserted = TRUE]
    /\ UNCHANGED <<accepted, sent, worker, stops>>

BackoffOver(e) ==
    /\ rows[e].waiting
    /\ rows' = [rows EXCEPT ![e].waiting = FALSE]
    /\ UNCHANGED <<accepted, sent, worker, stops>>

LeaseLapses(e) ==
    /\ rows[e].owner # Nobody /\ ~rows[e].lapsed
    /\ rows' = [rows EXCEPT ![e].lapsed = TRUE]
    /\ UNCHANGED <<accepted, sent, worker, stops>>

-----------------------------------------------------------------------------
(* The claim: the instant is read first, the transaction runs later *)

(* Mutant: only rows without an owner are claimed. *)
ClaimableUnowned(e) ==
    /\ rows[e].inserted /\ ~rows[e].delivered /\ ~rows[e].waiting
    /\ rows[e].owner = Nobody

Claimable(e) ==
    /\ rows[e].inserted /\ ~rows[e].delivered /\ ~rows[e].waiting
    /\ rows[e].owner = Nobody \/ rows[e].lapsed

ReadClaimInstant(w) ==
    /\ worker[w].phase = "idle"
    /\ worker' = [worker EXCEPT ![w].phase = "claiming",
                                ![w].seen = {e \in Notifications : Claimable(e)}]
    /\ UNCHANGED <<rows, accepted, sent, stops>>

\* Process w goes on as p after it has written row e.  The row now carries
\* instants later than what the others have read: they cannot claim it.
Written(w, e, p) ==
    [v \in Workers |->
       IF v = w THEN p ELSE [worker[v] EXCEPT !.seen = @ \ {e}]]

Claim(w, e) ==
    /\ worker[w].phase = "claiming" /\ e \in worker[w].seen /\ Claimable(e)
    /\ rows' = [rows EXCEPT ![e].owner = w, ![e].lapsed = FALSE]
    /\ sent' = sent \cup {e}
    /\ worker' = Written(w, e, [Idle EXCEPT !.phase = "sending", !.claim = e])
    /\ UNCHANGED <<accepted, stops>>

ClaimNothing(w) ==
    /\ worker[w].phase = "claiming" /\ worker[w].seen = {}
    /\ worker' = [worker EXCEPT ![w] = Idle]
    /\ UNCHANGED <<rows, accepted, sent, stops>>

-----------------------------------------------------------------------------
(* The send *)

GatewayAccepts(e) ==
    /\ e \in sent
    /\ accepted' = accepted \cup {e}
    /\ sent' = sent \ {e}
    /\ UNCHANGED <<rows, worker, stops>>

RequestLost(e) ==
    /\ e \in sent
    /\ sent' = sent \ {e}
    /\ UNCHANGED <<rows, accepted, worker, stops>>

\* The settlement reads its instant before it waits for write admission.
Settle(w, phase) ==
    worker' = [worker EXCEPT ![w].phase = phase,
                             ![w].live = ~rows[worker[w].claim].lapsed]

\* The acknowledgement names the idempotency key that was sent.
SendSucceeds(w) ==
    /\ worker[w].phase = "sending" /\ worker[w].claim \in accepted
    /\ Settle(w, "delivering")
    /\ UNCHANGED <<rows, accepted, sent, stops>>

(* Mutant: a send that timed out is settled as if it had been answered. *)
TimeoutDelivers(w) ==
    /\ worker[w].phase = "sending"
    /\ Settle(w, "delivering")
    /\ UNCHANGED <<rows, accepted, sent, stops>>

\* Refused, unanswered within the deadline, or answered with another key:
\* the gateway may have taken the message all the same.
SendFails(w) ==
    /\ worker[w].phase = "sending"
    /\ Settle(w, "retrying")
    /\ UNCHANGED <<rows, accepted, sent, stops>>

\* The shutdown of the runtime interrupts the loop in the send.
Interrupt(w) ==
    /\ stops < MaximumStops /\ stops' = stops + 1
    /\ worker[w].phase = "sending"
    /\ Settle(w, "releasing")
    /\ UNCHANGED <<rows, accepted, sent>>

-----------------------------------------------------------------------------
(* The settlement *)

Settles(w) ==
    /\ rows[worker[w].claim].owner = w
    /\ ~rows[worker[w].claim].delivered
    /\ worker[w].live

\* The rows of a process whose id no later process will use again.
Orphaned(w, table) ==
    [e \in Notifications |->
       IF table[e].owner = w THEN [table[e] EXCEPT !.owner = Gone] ELSE table[e]]

(* Mutant: the delivered row keeps its lease. *)
MarkDeliveredLeased(w) ==
    /\ worker[w].phase = "delivering" /\ Settles(w)
    /\ rows' = [rows EXCEPT ![worker[w].claim].delivered = TRUE]
    /\ worker' = Written(w, worker[w].claim, Idle)
    /\ UNCHANGED <<accepted, sent, stops>>

MarkDelivered(w) ==
    /\ worker[w].phase = "delivering" /\ Settles(w)
    /\ rows' = [rows EXCEPT ![worker[w].claim].delivered = TRUE,
                            ![worker[w].claim].owner = Nobody,
                            ![worker[w].claim].lapsed = FALSE]
    /\ worker' = Written(w, worker[w].claim, Idle)
    /\ UNCHANGED <<accepted, sent, stops>>

RetryLater(w) ==
    /\ worker[w].phase \in {"retrying", "releasing"} /\ Settles(w)
    /\ rows' = [rows EXCEPT ![worker[w].claim].waiting = TRUE,
                            ![worker[w].claim].owner = Nobody,
                            ![worker[w].claim].lapsed = FALSE]
    /\ worker' = Written(w, worker[w].claim,
                         IF worker[w].phase = "retrying" THEN Idle ELSE Down)
    /\ UNCHANGED <<accepted, sent, stops>>

\* TaskNotificationLeaseLostError ends the loop, and with it the process.
LeaseLost(w) ==
    /\ worker[w].phase \in {"delivering", "retrying", "releasing"}
    /\ ~Settles(w)
    /\ rows' = Orphaned(w, rows)
    /\ worker' = [worker EXCEPT ![w] = Down]
    /\ UNCHANGED <<accepted, sent, stops>>

\* A crash at any point, a shutdown outside a send, or a transaction that
\* fails, which ends the loop as well.
Stop(w) ==
    /\ stops < MaximumStops /\ stops' = stops + 1
    /\ worker[w].phase # "down"
    /\ rows' = Orphaned(w, rows)
    /\ worker' = [worker EXCEPT ![w] = Down]
    /\ UNCHANGED <<accepted, sent>>

Start(w) ==
    /\ worker[w].phase = "down"
    /\ worker' = [worker EXCEPT ![w] = Idle]
    /\ UNCHANGED <<rows, accepted, sent, stops>>

-----------------------------------------------------------------------------
Step(w) ==
    \/ ReadClaimInstant(w) \/ ClaimNothing(w) \/ \E e \in Notifications : Claim(w, e)
    \/ SendSucceeds(w) \/ SendFails(w) \/ Interrupt(w)
    \/ MarkDelivered(w) \/ RetryLater(w) \/ LeaseLost(w)
    \/ Stop(w) \/ Start(w)

Next ==
    \/ \E w \in Workers : Step(w)
    \/ \E e \in Notifications :
         \/ Insert(e) \/ BackoffOver(e) \/ LeaseLapses(e)
         \/ GatewayAccepts(e) \/ RequestLost(e)

Spec == Init /\ [][Next]_vars

-----------------------------------------------------------------------------
\* The types, and the CHECK constraints of the table: a delivered row has no
\* lease, a deadline belongs to an owner.
TypeOK ==
    /\ rows \in [Notifications -> Row]
    /\ accepted \subseteq Notifications /\ sent \subseteq Notifications
    /\ worker \in [Workers -> Process]
    /\ stops \in 0 .. MaximumStops
    /\ \A e \in Notifications :
         /\ rows[e].delivered => rows[e].owner = Nobody
         /\ rows[e].lapsed => rows[e].owner # Nobody

\* No notification is lost: what the outbox records as delivered has reached
\* the gateway, whatever crashed, timed out or lapsed on the way.
DeliveredWasAccepted ==
    \A e \in Notifications : rows[e].delivered => e \in accepted

\* Every notification is delivered in the end, although processes stop,
\* requests get lost and leases lapse: a stranded row is claimed again.
EventuallyDelivered ==
    \A e \in Notifications : rows[e].inserted ~> rows[e].delivered

\* Processes and timers are scheduled.  A row that can be claimed is claimed
\* in the end (the claim takes the row that became available first), a
\* gateway that is asked again and again answers in time, and an answer
\* within the lease (a send has 10 s of its 30 s) is settled within it.
AnswersInTime(w) ==
    SendSucceeds(w) /\ Settles(w)' /\ UNCHANGED rows

Fairness ==
    /\ \A e \in Notifications :
         /\ WF_vars(BackoffOver(e)) /\ WF_vars(LeaseLapses(e))
         /\ SF_vars(GatewayAccepts(e))
         /\ SF_vars(\E w \in Workers : Claim(w, e))
         /\ SF_vars(\E w \in Workers : worker[w].claim = e /\ AnswersInTime(w))
         /\ SF_vars(\E w \in Workers : worker[w].claim = e /\ MarkDelivered(w))
    /\ \A w \in Workers :
         /\ WF_vars(ReadClaimInstant(w)) /\ WF_vars(ClaimNothing(w))
         /\ WF_vars(SendFails(w)) /\ WF_vars(RetryLater(w))
         /\ WF_vars(LeaseLost(w)) /\ WF_vars(Start(w))

FairSpec == Spec /\ Fairness
=============================================================================
