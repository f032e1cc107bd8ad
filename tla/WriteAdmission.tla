--------------------------- MODULE WriteAdmission ---------------------------
(***************************************************************************)
(* Admission of write transactions                                         *)
(* (src/server/database/runtime/databasePolicy.ts).  SQLite never waits    *)
(* for its write lock here: an attempt that meets a holder gives up, and   *)
(* the call is repeated after a delay until one deadline for the whole     *)
(* call has passed.  Once the transaction has begun nothing is repeated.   *)
(*                                                                         *)
(* Attempt and callback are synchronous: the timers of a call run only     *)
(* while it is between two attempts.  The calls modelled are of different  *)
(* processes, those of one process do not even overlap.                    *)
(***************************************************************************)
EXTENDS Naturals

CONSTANTS
    Calls,  \* processes that write, each with one call after the other
    Free    \* nobody holds the lock

\* What the constants are taken to be
AdmissionAssumption == Free \notin Calls

VARIABLES
    lock,    \* call whose transaction is open, or Free
    call,    \* [Calls -> where the process's call is, or its answer]
    begun,   \* [Calls -> transactions of the call that began]
    applied  \* [Calls -> the transaction was committed]

vars == <<lock, call, begun, applied>>

Answers == {"ok", "failed", "contention", "timeout"}

Init ==
    /\ lock = Free
    /\ call = [c \in Calls |-> "new"]
    /\ begun = [c \in Calls |-> 0]
    /\ applied = [c \in Calls |-> FALSE]

-----------------------------------------------------------------------------
\* The process has its answer and writes something else.
NewCall(c) ==
    /\ call[c] \in Answers
    /\ call' = [call EXCEPT ![c] = "new"]
    /\ begun' = [begun EXCEPT ![c] = 0]
    /\ applied' = [applied EXCEPT ![c] = FALSE]
    /\ UNCHANGED lock

\* The first attempt, and each one a delay later
Attempts(c) == call[c] \in {"new", "delayed"}

\* BEGIN IMMEDIATE succeeds and the callback runs from its start marker on.
Begin(c) ==
    /\ Attempts(c) /\ lock = Free
    /\ lock' = c
    /\ call' = [call EXCEPT ![c] = "inside"]
    /\ begun' = [begun EXCEPT ![c] = @ + 1]
    /\ UNCHANGED applied

\* busy or locked before the start marker: repeated after a delay
Busy(c) ==
    /\ Attempts(c) /\ lock # Free
    /\ call' = [call EXCEPT ![c] = "delayed"]
    /\ UNCHANGED <<lock, begun, applied>>

\* The driver fails before the transaction begins.
Refuse(c) ==
    /\ Attempts(c)
    /\ call' = [call EXCEPT ![c] = "failed"]
    /\ UNCHANGED <<lock, begun, applied>>

Commit(c) ==
    /\ call[c] = "inside"
    /\ lock' = Free
    /\ applied' = [applied EXCEPT ![c] = TRUE]
    /\ call' = [call EXCEPT ![c] = "ok"]
    /\ UNCHANGED begun

\* The callback throws: the transaction is rolled back.
RollBack(c) ==
    /\ call[c] = "inside"
    /\ lock' = Free
    /\ call' = [call EXCEPT ![c] = "failed"]
    /\ UNCHANGED <<begun, applied>>

(* Mutant: contention is repeated wherever it shows. *)
ContendAgain(c) ==
    /\ call[c] = "inside" /\ begun[c] < 2
    /\ lock' = Free
    /\ call' = [call EXCEPT ![c] = "delayed"]
    /\ UNCHANGED <<begun, applied>>

\* busy or locked after the start marker: surfaced once
Contend(c) ==
    /\ call[c] = "inside"
    /\ lock' = Free
    /\ call' = [call EXCEPT ![c] = "contention"]
    /\ UNCHANGED <<begun, applied>>

TimeOut(c) ==
    /\ call[c] = "delayed"
    /\ call' = [call EXCEPT ![c] = "timeout"]
    /\ UNCHANGED <<lock, begun, applied>>

-----------------------------------------------------------------------------
Next == \E c \in Calls :
    NewCall(c) \/ Begin(c) \/ Busy(c) \/ Refuse(c) \/ Commit(c) \/ RollBack(c)
    \/ Contend(c) \/ TimeOut(c)

Spec == Init /\ [][Next]_vars

\* The timer of the deadline stays due over the attempts in between.
Fairness == \A c \in Calls :
    /\ WF_vars(Begin(c) \/ Busy(c)) /\ WF_vars(Commit(c)) /\ WF_vars(TimeOut(c))

FairSpec == Spec /\ Fairness

-----------------------------------------------------------------------------
TypeOK ==
    /\ lock \in Calls \cup {Free}
    /\ call \in [Calls -> Answers \cup {"new", "delayed", "inside"}]
    /\ begun \in [Calls -> 0 .. 2] /\ applied \in [Calls -> BOOLEAN]

\* The callback of one call is never begun twice, and the answer tells
\* whether its transaction is in the database: what every repository
\* transaction relies on.
AnswerMatchesDatabase ==
    \A c \in Calls : /\ begun[c] <= 1
                     /\ call[c] \in Answers => (applied[c] <=> call[c] = "ok")

\* Every call is answered, however long others hold the lock.
CallAnswered(c) == call[c] = "new" ~> call[c] \in Answers
CallsAnswered == \A c \in Calls : CallAnswered(c)
=============================================================================
