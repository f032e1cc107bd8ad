-------------------------- MODULE ChatRuns_proofs --------------------------
(***************************************************************************)
(* Proofs about the runs of a chat session (ChatRuns).  The invariant adds *)
(* to the properties how far the send of a run, its reservation and its    *)
(* gateway agree (CallAgrees), and how many boundaries the transcript can  *)
(* have seen (BoundariesCounted).  Nearly every step only rewrites rows    *)
(* the way Keeps allows; admission, dispatch and the boundaries are apart. *)
(***************************************************************************)
EXTENDS ChatRuns, TLAPS

(* What the send of a run, its reservation, its gateway and its deadline
   know of each other *)
CallAgrees(r) ==
    /\ chatRun[r].attempted <=> provider[r] # "none"
    /\ sending[r] = "none" => chatRun[r].state = "absent"
    /\ sending[r] \in {"none", "admitted", "failing"} =>
           ~chatRun[r].attempted /\ ticket[r] = "none"
    /\ sending[r] \in {"calling", "unknown"} => chatRun[r].attempted
    /\ ticket[r] = "held" => sending[r] \in {"calling", "unknown"}
    /\ ticket[r] \in {"held", "committed", "lost"} => chatRun[r].attempted
    /\ ticket[r] = "released" =>
           sending[r] = "done" /\ provider[r] \in {"none", "refused"}
    /\ overdue[r] => sending[r] = "done"
    /\ reconciling[r] = "settling" => overdue[r]

CallsAgree == \A r \in Runs : CallAgrees(r)

(* Every generation after the first, and every fence that is to end in one,
   is a disturbance of its own. *)
BoundariesCounted ==
    /\ transcript.generation <= 1 + disturbances
    /\ transcript.status \in {"control-pending", "reconciling"} =>
           transcript.generation <= disturbances

RowsOK ==
    /\ chatRun \in [Runs -> ChatRun]
    /\ \A r \in Runs : Storable(chatRun[r])

TranscriptOK ==
    /\ transcript \in [generation : 1 .. Generations,
                       status : {"ready", "absent", "control-pending", "reconciling"},
                       previous : {"ready", "absent"}]
    /\ controlling \in BOOLEAN /\ (controlling => transcript.status = "control-pending")
    /\ disturbances \in 0 .. MaximumDisturbances
    /\ BoundariesCounted

WorldOK ==
    /\ sending \in [Runs -> {"none", "admitted", "failing", "calling", "unknown", "done"}]
    /\ ticket \in [Runs -> {"none", "held", "committed", "released", "lost"}]
    /\ aborting \in [Runs -> {"none", "requested", "calling"}]
    /\ reconciling \in [Runs -> {"idle", "reading", "recording", "timer", "settling"}]
    /\ blocked \subseteq Runs /\ abortAcknowledged \subseteq Runs
    /\ recovery \in [Runs -> {"none", "undispatched", "dispatched"}]
    /\ overdue \in [Runs -> BOOLEAN]
    /\ provider \in [Runs -> {"none", "sent", "refused", "running"} \cup Outcomes]

ChatInv == RowsOK /\ TranscriptOK /\ WorldOK /\ ActiveRunsAreCurrent /\ CallsAgree

(* What the invariant says besides the conjuncts of TypeOK *)
LEMMA ChatInvConsistent ==
    ASSUME ChatInv
    PROVE  RunsConsistent
<1>1. TypeOK
  BY DEF ChatInv, RowsOK, TranscriptOK, WorldOK, TypeOK
<1>2. TicketFollowsDispatch
  <2> SUFFICES ASSUME NEW r \in Runs
               PROVE  /\ ticket[r] = "released" => ~Accepted(r)
                      /\ ticket[r] \in {"committed", "lost"} => chatRun[r].attempted
    BY DEF TicketFollowsDispatch
  <2>1. CallAgrees(r)
    BY DEF ChatInv, CallsAgree
  <2> QED
    BY <2>1 DEF CallAgrees, Accepted, Outcomes
<1> QED
  BY <1>1, <1>2 DEF RunsConsistent, ChatInv

LEMMA ChatInvInitial == ChatInit => ChatInv
<1> SUFFICES ASSUME ChatInit PROVE ChatInv
  OBVIOUS
<1> USE DEF ChatInit
<1>1. Generations \in Nat /\ 1 \in 1 .. Generations /\ 0 \in 0 .. Generations
  BY ChatRunsAssumption DEF Generations
<1>2. Absent \in ChatRun /\ Storable(Absent) /\ Absent.state = "absent" /\ ~Absent.attempted
  BY <1>1 DEF Absent, ChatRun, Storable, Failures
<1>3. RowsOK
  BY <1>2 DEF RowsOK
<1>4. TranscriptOK
  <2>1. 0 \in 0 .. MaximumDisturbances
    BY ChatRunsAssumption
  <2>2. transcript \in [generation : 1 .. Generations,
                        status : {"ready", "absent", "control-pending", "reconciling"},
                        previous : {"ready", "absent"}]
    BY <1>1
  <2>3. BoundariesCounted
    BY DEF BoundariesCounted
  <2> QED
    BY <2>1, <2>2, <2>3 DEF TranscriptOK
<1>5. WorldOK
  BY DEF WorldOK
<1>6. ActiveRunsAreCurrent
  BY <1>2 DEF ActiveRunsAreCurrent, Active
<1>7. CallsAgree
  BY <1>2 DEF CallsAgree, CallAgrees
<1> QED
  BY <1>3, <1>4, <1>5, <1>6, <1>7 DEF ChatInv

-----------------------------------------------------------------------------
(* How a row may be rewritten *)

(* A row stays the row of a run of its generation, dispatched or not, and an
   outcome stays. *)
Final(row, new) ==
    row.state \in Settled =>
        /\ new.state = row.state
        /\ new.failure = row.failure
        /\ new.attempted = row.attempted
        /\ row.reconciled => new.reconciled

Keeps(row, new) ==
    /\ new \in ChatRun /\ Storable(new)
    /\ new.generation = row.generation
    /\ new.attempted = row.attempted
    /\ new.state = "absent" <=> row.state = "absent"
    /\ new.state \in Active => row.state \in Active
    /\ Final(row, new)

LEMMA KeepsItself ==
    ASSUME NEW row \in ChatRun, Storable(row)
    PROVE  Keeps(row, row)
BY DEF Keeps, Final

LEMMA KeepsTransitively ==
    ASSUME NEW row, NEW mid, NEW new, Keeps(row, mid), Keeps(mid, new)
    PROVE  Keeps(row, new)
BY DEF Keeps, Final

LEMMA KeepsAcknowledged ==
    ASSUME NEW row \in ChatRun, Storable(row)
    PROVE  Keeps(row, [row EXCEPT !.acknowledged = TRUE])
<1> DEFINE new == [row EXCEPT !.acknowledged = TRUE]
<1>1. new \in ChatRun
  BY DEF ChatRun
<1>2. /\ new.state = row.state /\ new.failure = row.failure
      /\ new.attempted = row.attempted /\ new.reconciled = row.reconciled
      /\ new.generation = row.generation /\ new.cancelled = row.cancelled
  BY DEF ChatRun
<1> HIDE DEF new
<1> QED
  BY <1>1, <1>2 DEF Keeps, Final, Storable, new

LEMMA KeepsReconciled ==
    ASSUME NEW row \in ChatRun, Storable(row)
    PROVE  Keeps(row, [row EXCEPT !.reconciled = TRUE])
<1> DEFINE new == [row EXCEPT !.reconciled = TRUE]
<1>1. new \in ChatRun
  BY DEF ChatRun
<1>2. /\ new.state = row.state /\ new.failure = row.failure
      /\ new.attempted = row.attempted /\ new.reconciled
      /\ new.generation = row.generation /\ new.cancelled = row.cancelled
  BY DEF ChatRun
<1> HIDE DEF new
<1> QED
  BY <1>1, <1>2 DEF Keeps, Final, Storable, new

LEMMA KeepsUnresolved ==
    ASSUME NEW row \in ChatRun, row.state \in Active
    PROVE  Keeps(row, Unresolved(row))
<1> DEFINE new == Unresolved(row)
<1>1. new \in ChatRun
  BY DEF ChatRun, Unresolved, Settled
<1>2. /\ new.state = "unresolved"
      /\ new.attempted = row.attempted /\ new.generation = row.generation
  BY DEF ChatRun, Unresolved
<1> HIDE DEF new
<1> QED
  BY <1>1, <1>2 DEF Keeps, Final, Storable, Active, Settled, Outcomes, new

LEMMA KeepsFailedBeforeDispatch ==
    ASSUME NEW row \in ChatRun, row.state \in Active
    PROVE  Keeps(row, FailedBeforeDispatch(row))
<1> DEFINE new == FailedBeforeDispatch(row)
<1>1. new \in ChatRun
  BY DEF ChatRun, FailedBeforeDispatch, Settled, Outcomes, Failures
<1>2. /\ new.state = "failed"
      /\ new.attempted = row.attempted /\ new.generation = row.generation
  BY DEF ChatRun, FailedBeforeDispatch
<1> HIDE DEF new
<1> QED
  BY <1>1, <1>2 DEF Keeps, Final, Storable, Active, Settled, Outcomes, new

LEMMA KeepsUnknown ==
    ASSUME NEW row \in ChatRun, Storable(row)
    PROVE  Keeps(row, UnknownRow(row))
<1> DEFINE new == UnknownRow(row)
<1>1. new \in ChatRun
  BY DEF ChatRun, UnknownRow, Active
<1>2. /\ row.state \in Active => new.state = "outcome-unknown"
      /\ row.state \notin Active => new.state = row.state
      /\ new.failure = row.failure /\ new.reconciled = row.reconciled
      /\ new.cancelled = row.cancelled
      /\ new.attempted = row.attempted /\ new.generation = row.generation
  BY DEF ChatRun, UnknownRow
<1> HIDE DEF new
<1> QED
  BY <1>1, <1>2 DEF Keeps, Final, Storable, Active, Settled, Outcomes, new

(* An event that an active run takes, when the table takes its row *)
Events == Outcomes \cup {"cancel", "interrupted", "progress"}

LEMMA KeepsEvent ==
    ASSUME NEW row \in ChatRun, row.state \in Active, NEW event \in Events,
           Storable(After(row, event))
    PROVE  Keeps(row, After(row, event))
<1> DEFINE new == After(row, event)
<1>1. StateAfter(row.state, event) \in Active \cup Outcomes
  BY DEF StateAfter, Events, Outcomes, Active
<1>2. (row.cancelled \/ event \in {"cancel", "cancelled"}) \in BOOLEAN
  BY Zenon
<1>3. new \in ChatRun
  BY <1>1, <1>2 DEF ChatRun, After, Settled, Failures
<1>4. /\ new.state = StateAfter(row.state, event)
      /\ new.attempted = row.attempted /\ new.generation = row.generation
  BY DEF ChatRun, After
<1> HIDE DEF new
<1>5. Storable(new)
  BY DEF new
<1>6. row.state \notin Settled /\ row.state # "absent" /\ new.state # "absent"
  BY <1>1, <1>4 DEF Active, Settled, Outcomes
<1> QED
  BY <1>3, <1>4, <1>5, <1>6 DEF Keeps, Final, new

(* The table takes every terminal event and every first cancellation. *)
LEMMA TerminalIsStorable ==
    ASSUME NEW row \in ChatRun, NEW event \in Outcomes \cup {"cancel"}
    PROVE  Storable(After(row, event))
<1> DEFINE new == After(row, event)
<1>1. /\ new.state = StateAfter(row.state, event)
      /\ event \in {"cancel", "cancelled"} => new.cancelled
  BY DEF ChatRun, After
<1>2. /\ event \in {"completed", "failed", "cancelled"} => new.state = event
      /\ event = "cancel" => new.state = "cancel-requested"
  BY <1>1 DEF StateAfter, Outcomes
<1> HIDE DEF new
<1> QED
  BY <1>1, <1>2 DEF Storable, Outcomes, new

-----------------------------------------------------------------------------
(* What a step does to all rows *)

RowsKept ==
    /\ chatRun' \in [Runs -> ChatRun]
    /\ \A r \in Runs : Keeps(chatRun[r], chatRun'[r])

LEMMA StoredKeeps ==
    ASSUME RowsOK, NEW r \in Runs, NEW row, Store(r, row), Keeps(chatRun[r], row)
    PROVE  RowsKept
<1>1. row \in ChatRun
  BY DEF Keeps
<1>2. chatRun' \in [Runs -> ChatRun] /\ chatRun'[r] = row
      /\ \A q \in Runs : q # r => chatRun'[q] = chatRun[q]
  BY <1>1 DEF RowsOK, Store
<1>3. ASSUME NEW q \in Runs PROVE Keeps(chatRun[q], chatRun'[q])
  <2>1. CASE q = r
    BY <1>2, <2>1
  <2>2. CASE q # r
    BY <1>2, <2>2, KeepsItself DEF RowsOK
  <2> QED
    BY <2>1, <2>2
<1> QED
  BY <1>2, <1>3 DEF RowsKept

LEMMA NothingStored ==
    ASSUME RowsOK, chatRun' = chatRun
    PROVE  RowsKept
BY KeepsItself DEF RowsOK, RowsKept

LEMMA StoredItself ==
    ASSUME RowsOK, NEW r \in Runs, Store(r, chatRun[r])
    PROVE  RowsKept
BY StoredKeeps, KeepsItself DEF RowsOK

(* Rows that are kept stay rows, and no settled run becomes active. *)
LEMMA KeptRowsStay ==
    ASSUME RowsOK, ActiveRunsAreCurrent, RowsKept, transcript' = transcript
    PROVE  RowsOK' /\ ActiveRunsAreCurrent'
BY DEF RowsKept, RowsOK, ActiveRunsAreCurrent, Keeps

-----------------------------------------------------------------------------
(* Steps that leave the transcript where it is *)

RowsFinal == \A r \in Runs : Final(chatRun[r], chatRun'[r])

LEMMA RowStep ==
    ASSUME ChatInv, RowsKept, transcript' = transcript, TranscriptOK', WorldOK',
           CallsAgree'
    PROVE  ChatInv' /\ RowsFinal
<1>1. RowsOK' /\ ActiveRunsAreCurrent'
  BY KeptRowsStay DEF ChatInv
<1>2. RowsFinal
  BY DEF RowsKept, Keeps, RowsFinal
<1> QED
  BY <1>1, <1>2 DEF ChatInv

LEMMA TranscriptUntouched ==
    ASSUME ChatInv, UNCHANGED <<transcript, controlling, disturbances>>
    PROVE  TranscriptOK'
BY DEF ChatInv, TranscriptOK, BoundariesCounted

FollowTypes ==
    /\ aborting \in [Runs -> {"none", "requested", "calling"}]
    /\ reconciling \in [Runs -> {"idle", "reading", "recording", "timer", "settling"}]
    /\ blocked \subseteq Runs /\ abortAcknowledged \subseteq Runs
    /\ recovery \in [Runs -> {"none", "undispatched", "dispatched"}]

(* Only an overdue run comes to be settled. *)
SettlesOverdue ==
    \A r \in Runs : reconciling'[r] = "settling" => reconciling[r] = "settling" \/ overdue[r]

(* The rows and what follows a run change, the calls of the send do not. *)
LEMMA QuietStep ==
    ASSUME ChatInv, RowsKept,
           UNCHANGED <<transcript, controlling, disturbances>>,
           UNCHANGED <<sending, ticket, provider, overdue>>,
           FollowTypes', SettlesOverdue
    PROVE  ChatInv' /\ RowsFinal
<1>1. WorldOK'
  BY DEF ChatInv, WorldOK, FollowTypes
<1>2. ASSUME NEW q \in Runs PROVE CallAgrees(q)'
  BY DEF ChatInv, CallsAgree, CallAgrees, RowsKept, Keeps, SettlesOverdue
<1>3. CallsAgree'
  BY <1>2 DEF CallsAgree
<1> QED
  BY <1>1, <1>3, RowStep, TranscriptUntouched

LEMMA StartingReconciliation ==
    ASSUME ChatInv, NEW r \in Runs, StartReconciliation(r)
    PROVE  /\ reconciling' \in [Runs -> {"idle", "reading", "recording", "timer", "settling"}]
           /\ SettlesOverdue
<1>1. Start(r) \in {"idle", "reading", "settling"} /\ (Start(r) = "settling" => overdue[r])
  BY DEF Start
<1> HIDE DEF Start
<1> QED
  BY <1>1 DEF ChatInv, WorldOK, StartReconciliation, SettlesOverdue

(* An event of an open run, if the table takes it *)
LEMMA EventKeeps ==
    ASSUME ChatInv, NEW r \in Runs, NEW event \in Events,
           Open(r), Storable(After(chatRun[r], event))
    PROVE  Keeps(chatRun[r], After(chatRun[r], event))
<1>1. chatRun[r] \in ChatRun /\ chatRun[r].state \in Active
  BY DEF ChatInv, RowsOK, Open
<1> QED
  BY <1>1, KeepsEvent

LEMMA TerminalKeeps ==
    ASSUME ChatInv, NEW r \in Runs, NEW event \in Outcomes \cup {"cancel"}, Open(r)
    PROVE  Keeps(chatRun[r], After(chatRun[r], event))
<1>1. chatRun[r] \in ChatRun
  BY DEF ChatInv, RowsOK
<1>2. event \in Events
  BY DEF Events
<1> QED
  BY <1>1, <1>2, TerminalIsStorable, EventKeeps

(* The same row, acknowledged as well *)
LEMMA AcknowledgedKeeps ==
    ASSUME NEW row, NEW new, Keeps(row, new)
    PROVE  Keeps(row, [new EXCEPT !.acknowledged = TRUE])
<1>1. new \in ChatRun /\ Storable(new)
  BY DEF Keeps
<1>2. Keeps(new, [new EXCEPT !.acknowledged = TRUE])
  BY <1>1, KeepsAcknowledged
<1> QED
  BY <1>2, KeepsTransitively

LEMMA HandleProgressStep ==
    ASSUME ChatInv, NEW r \in Runs, HandleProgress(r)
    PROVE  ChatInv' /\ RowsFinal
<1>1. Keeps(chatRun[r], After(chatRun[r], "progress"))
  BY EventKeeps DEF HandleProgress, Accepts, Events
<1>2. RowsKept
  BY <1>1, AcknowledgedKeeps, StoredKeeps DEF HandleProgress, ChatInv
<1>3. UNCHANGED <<transcript, controlling, disturbances>>
      /\ UNCHANGED <<sending, ticket, provider, overdue>>
      /\ FollowTypes' /\ SettlesOverdue
  BY DEF HandleProgress, transcriptVars, callVars, followVars, worldVars, ChatInv, WorldOK,
         FollowTypes, SettlesOverdue
<1> QED
  BY <1>2, <1>3, QuietStep

LEMMA HandleTerminalStep ==
    ASSUME ChatInv, NEW r \in Runs, HandleTerminal(r)
    PROVE  ChatInv' /\ RowsFinal
<1>1. Keeps(chatRun[r], After(chatRun[r], provider[r]))
  BY TerminalKeeps DEF HandleTerminal
<1>2. RowsKept
  BY <1>1, AcknowledgedKeeps, StoredKeeps DEF HandleTerminal, ChatInv
<1>3. UNCHANGED <<transcript, controlling, disturbances>>
      /\ UNCHANGED <<sending, ticket, provider, overdue>>
      /\ FollowTypes' /\ SettlesOverdue
  BY StartingReconciliation
     DEF HandleTerminal, transcriptVars, callVars, worldVars, ChatInv, WorldOK, FollowTypes
<1> QED
  BY <1>2, <1>3, QuietStep

LEMMA BlockAndReconcileStep ==
    ASSUME ChatInv, NEW r \in Runs, BlockAndReconcile(r)
    PROVE  ChatInv' /\ RowsFinal
<1>1. \/ Store(r, chatRun[r])
      \/ Accepts(r, "interrupted") /\ Store(r, After(chatRun[r], "interrupted"))
  BY DEF BlockAndReconcile, StoreIf
<1>2. RowsKept
  <2>1. CASE Store(r, chatRun[r])
    BY <2>1, StoredItself DEF ChatInv
  <2>2. CASE Accepts(r, "interrupted") /\ Store(r, After(chatRun[r], "interrupted"))
    BY <2>2, EventKeeps, StoredKeeps DEF Accepts, Events, ChatInv
  <2> QED
    BY <1>1, <2>1, <2>2
<1>3. UNCHANGED <<transcript, controlling, disturbances>>
      /\ UNCHANGED <<sending, ticket, provider, overdue>>
      /\ FollowTypes' /\ SettlesOverdue
  BY StartingReconciliation
     DEF BlockAndReconcile, transcriptVars, callVars, worldVars, ChatInv, WorldOK, FollowTypes
<1> QED
  BY <1>2, <1>3, QuietStep

LEMMA SessionReconciliationStep ==
    ASSUME ChatInv, SessionReconciliation
    PROVE  ChatInv' /\ RowsFinal
<1>1. RowsKept
  BY NothingStored DEF SessionReconciliation, ChatInv
<1>2. ASSUME NEW q \in Runs
      PROVE  /\ Start(q) \in {"idle", "reading", "settling"}
             /\ Start(q) = "settling" => overdue[q]
  BY DEF Start
<1>3. UNCHANGED <<transcript, controlling, disturbances>>
      /\ UNCHANGED <<sending, ticket, provider, overdue>>
      /\ FollowTypes' /\ SettlesOverdue
  BY <1>2 DEF SessionReconciliation, transcriptVars, callVars, worldVars, ChatInv, WorldOK,
              FollowTypes, SettlesOverdue
<1> QED
  BY <1>1, <1>3, QuietStep

LEMMA ReadNoFinalStep ==
    ASSUME ChatInv, NEW r \in Runs, ReadNoFinal(r)
    PROVE  ChatInv' /\ RowsFinal
<1>1. \/ Store(r, chatRun[r])
      \/ Store(r, [chatRun[r] EXCEPT !.acknowledged = TRUE])
  BY DEF ReadNoFinal, StoreIf
<1>2. RowsKept
  BY <1>1, StoredItself, StoredKeeps, KeepsAcknowledged DEF ChatInv, RowsOK
<1>3. Again(r) \in {"idle", "timer", "settling"} /\ (Again(r) = "settling" => overdue[r])
  BY DEF Again
<1>4. UNCHANGED <<transcript, controlling, disturbances>>
      /\ UNCHANGED <<sending, ticket, provider, overdue>>
      /\ FollowTypes' /\ SettlesOverdue
  BY <1>3 DEF ReadNoFinal, transcriptVars, callVars, worldVars, ChatInv, WorldOK, FollowTypes,
              SettlesOverdue
<1> QED
  BY <1>2, <1>4, QuietStep

LEMMA ReadFinalStep ==
    ASSUME ChatInv, NEW r \in Runs, ReadFinal(r)
    PROVE  ChatInv' /\ RowsFinal
<1> DEFINE final == IF Open(r) THEN After(chatRun[r], "completed") ELSE chatRun[r]
<1>1. Keeps(chatRun[r], final)
  <2>1. CASE Open(r)
    BY <2>1, TerminalKeeps DEF Outcomes
  <2>2. CASE ~Open(r)
    BY <2>2, KeepsItself DEF ChatInv, RowsOK
  <2> QED
    BY <2>1, <2>2
<1>2. chatRun' = chatRun \/ Store(r, [final EXCEPT !.acknowledged = TRUE])
  BY DEF ReadFinal
<1> HIDE DEF final
<1>3. RowsKept
  BY <1>1, <1>2, AcknowledgedKeeps, StoredKeeps, NothingStored DEF ChatInv
<1>4. UNCHANGED <<transcript, controlling, disturbances>>
      /\ UNCHANGED <<sending, ticket, provider, overdue>>
      /\ FollowTypes' /\ SettlesOverdue
  BY DEF ReadFinal, transcriptVars, callVars, worldVars, ChatInv, WorldOK, FollowTypes,
         SettlesOverdue
<1> QED
  BY <1>3, <1>4, QuietStep

LEMMA TimerFiresStep ==
    ASSUME ChatInv, NEW r \in Runs, TimerFires(r)
    PROVE  ChatInv' /\ RowsFinal
<1>1. RowsKept
  BY NothingStored DEF TimerFires, ChatInv
<1>2. Start(r) \in {"idle", "reading", "settling"} /\ (Start(r) = "settling" => overdue[r])
  BY DEF Start
<1>3. UNCHANGED <<transcript, controlling, disturbances>>
      /\ UNCHANGED <<sending, ticket, provider, overdue>>
      /\ FollowTypes' /\ SettlesOverdue
  BY <1>2 DEF TimerFires, transcriptVars, callVars, worldVars, ChatInv, WorldOK, FollowTypes,
              SettlesOverdue
<1> QED
  BY <1>1, <1>3, QuietStep

LEMMA RequestCancellationStep ==
    ASSUME ChatInv, NEW r \in Runs, RequestCancellation(r)
    PROVE  ChatInv' /\ RowsFinal
<1>1. Store(r, chatRun[r]) \/ Store(r, After(chatRun[r], "cancel"))
  BY DEF RequestCancellation, StoreIf
<1>2. Keeps(chatRun[r], After(chatRun[r], "cancel"))
  BY TerminalKeeps DEF RequestCancellation
<1>3. RowsKept
  BY <1>1, <1>2, StoredItself, StoredKeeps DEF ChatInv
<1>4. UNCHANGED <<transcript, controlling, disturbances>>
      /\ UNCHANGED <<sending, ticket, provider, overdue>>
      /\ FollowTypes' /\ SettlesOverdue
  BY DEF RequestCancellation, transcriptVars, followVars, worldVars, ChatInv, WorldOK,
         FollowTypes, SettlesOverdue
<1> QED
  BY <1>3, <1>4, QuietStep

LEMMA AbortDecidesStep ==
    ASSUME ChatInv, NEW r \in Runs, AbortDecides(r)
    PROVE  ChatInv' /\ RowsFinal
<1>1. Store(r, chatRun[r]) \/ (Open(r) /\ Store(r, After(chatRun[r], "cancelled")))
  BY DEF AbortDecides, StoreIf
<1>2. Open(r) => Keeps(chatRun[r], After(chatRun[r], "cancelled"))
  BY TerminalKeeps DEF Outcomes
<1>3. RowsKept
  BY <1>1, <1>2, StoredItself, StoredKeeps DEF ChatInv
<1>4. UNCHANGED <<transcript, controlling, disturbances>>
      /\ UNCHANGED <<sending, ticket, provider, overdue>>
      /\ FollowTypes' /\ SettlesOverdue
  BY DEF AbortDecides, transcriptVars, followVars, worldVars, ChatInv, WorldOK, FollowTypes,
         SettlesOverdue
<1> QED
  BY <1>3, <1>4, QuietStep

LEMMA AbortUnknownStep ==
    ASSUME ChatInv, NEW r \in Runs, AbortUnknown(r)
    PROVE  ChatInv' /\ RowsFinal
<1>1. Store(r, chatRun[r]) \/ Store(r, UnknownRow(chatRun[r]))
  BY DEF AbortUnknown, StoreIf
<1>2. RowsKept
  BY <1>1, KeepsUnknown, StoredItself, StoredKeeps DEF ChatInv, RowsOK
<1>3. /\ reconciling' \in [Runs -> {"idle", "reading", "recording", "timer", "settling"}]
      /\ SettlesOverdue
  BY StartingReconciliation DEF AbortUnknown, ChatInv, WorldOK, SettlesOverdue
<1>4. UNCHANGED <<transcript, controlling, disturbances>>
      /\ UNCHANGED <<sending, ticket, provider, overdue>>
      /\ UNCHANGED <<blocked, recovery>>
      /\ aborting' \in [Runs -> {"none", "requested", "calling"}]
  BY DEF AbortUnknown, transcriptVars, worldVars, ChatInv, WorldOK
<1>5. abortAcknowledged' \in {abortAcknowledged, abortAcknowledged \cup {r}}
  BY DEF AbortUnknown
<1>6. FollowTypes'
  BY <1>3, <1>4, <1>5 DEF ChatInv, WorldOK, FollowTypes
<1> QED
  BY <1>2, <1>3, <1>4, <1>6, QuietStep

LEMMA AbortRejectedStep ==
    ASSUME ChatInv, NEW r \in Runs, AbortRejected(r)
    PROVE  ChatInv' /\ RowsFinal
<1>1. RowsKept
  BY NothingStored DEF AbortRejected, ChatInv
<1>2. UNCHANGED <<transcript, controlling, disturbances>>
      /\ UNCHANGED <<sending, ticket, provider, overdue>>
      /\ FollowTypes' /\ SettlesOverdue
  BY StartingReconciliation
     DEF AbortRejected, transcriptVars, worldVars, ChatInv, WorldOK, FollowTypes
<1> QED
  BY <1>1, <1>2, QuietStep

LEMMA ListCandidatesStep ==
    ASSUME ChatInv, ListCandidates
    PROVE  ChatInv' /\ RowsFinal
<1>1. RowsKept
  BY NothingStored DEF ListCandidates, ChatInv
<1>2. UNCHANGED <<transcript, controlling, disturbances>>
      /\ UNCHANGED <<sending, ticket, provider, overdue>>
      /\ FollowTypes' /\ SettlesOverdue
  BY DEF ListCandidates, transcriptVars, callVars, followVars, ChatInv, WorldOK, FollowTypes,
         SettlesOverdue
<1> QED
  BY <1>1, <1>2, QuietStep

LEMMA RecoverUndispatchedStep ==
    ASSUME ChatInv, NEW r \in Runs, RecoverUndispatched(r)
    PROVE  ChatInv' /\ RowsFinal
<1>1. Store(r, chatRun[r]) \/ (Open(r) /\ Store(r, FailedBeforeDispatch(chatRun[r])))
  BY DEF RecoverUndispatched, StoreIf
<1>2. Open(r) => Keeps(chatRun[r], FailedBeforeDispatch(chatRun[r]))
  BY KeepsFailedBeforeDispatch DEF Open, ChatInv, RowsOK
<1>3. RowsKept
  BY <1>1, <1>2, StoredItself, StoredKeeps DEF ChatInv
<1>4. UNCHANGED <<transcript, controlling, disturbances>>
      /\ UNCHANGED <<sending, ticket, provider, overdue>>
      /\ FollowTypes' /\ SettlesOverdue
  BY DEF RecoverUndispatched, transcriptVars, callVars, followVars, ChatInv, WorldOK,
         FollowTypes, SettlesOverdue
<1> QED
  BY <1>3, <1>4, QuietStep

-----------------------------------------------------------------------------
(* Steps of the calls of one run *)

OthersUntouched(r) ==
    \A q \in Runs \ {r} :
        /\ sending'[q] = sending[q] /\ ticket'[q] = ticket[q]
        /\ provider'[q] = provider[q] /\ overdue'[q] = overdue[q]

LEMMA CallStep ==
    ASSUME ChatInv, NEW r \in Runs, RowsKept, transcript' = transcript, TranscriptOK',
           WorldOK', SettlesOverdue, OthersUntouched(r), CallAgrees(r)'
    PROVE  ChatInv' /\ RowsFinal
<1>1. ASSUME NEW q \in Runs, q # r PROVE CallAgrees(q)'
  <2>1. CallAgrees(q) /\ Keeps(chatRun[q], chatRun'[q])
    BY DEF ChatInv, CallsAgree, RowsKept
  <2>2. /\ sending'[q] = sending[q] /\ ticket'[q] = ticket[q]
        /\ provider'[q] = provider[q] /\ overdue'[q] = overdue[q]
    BY <1>1 DEF OthersUntouched
  <2>3. reconciling'[q] = "settling" => overdue[q]
    BY <2>1 DEF SettlesOverdue, CallAgrees
  <2> QED
    BY <2>1, <2>2, <2>3 DEF CallAgrees, Keeps
<1>2. CallsAgree'
  BY <1>1 DEF CallsAgree
<1> QED
  BY <1>2, RowStep

LEMMA PreparationFailsStep ==
    ASSUME ChatInv, NEW r \in Runs, PreparationFails(r)
    PROVE  ChatInv' /\ RowsFinal
<1>1. RowsKept
  BY NothingStored DEF PreparationFails, ChatInv
<1>2. transcript' = transcript /\ TranscriptOK'
  BY TranscriptUntouched DEF PreparationFails, transcriptVars, worldVars
<1>3. WorldOK' /\ SettlesOverdue /\ OthersUntouched(r)
  BY DEF PreparationFails, followVars, worldVars, ChatInv, WorldOK, SettlesOverdue,
         OthersUntouched
<1>4. CallAgrees(r)'
  BY DEF PreparationFails, followVars, worldVars, ChatInv, WorldOK, CallsAgree, CallAgrees
<1> QED
  BY <1>1, <1>2, <1>3, <1>4, CallStep

LEMMA FailRunStep ==
    ASSUME ChatInv, NEW r \in Runs, FailRun(r)
    PROVE  ChatInv' /\ RowsFinal
<1>1. Store(r, chatRun[r]) \/ (Open(r) /\ Store(r, FailedBeforeDispatch(chatRun[r])))
  BY DEF FailRun, StoreIf
<1>2. Open(r) => Keeps(chatRun[r], FailedBeforeDispatch(chatRun[r]))
  BY KeepsFailedBeforeDispatch DEF Open, ChatInv, RowsOK
<1>3. RowsKept
  BY <1>1, <1>2, StoredItself, StoredKeeps DEF ChatInv
<1>4. transcript' = transcript /\ TranscriptOK'
  BY TranscriptUntouched DEF FailRun, transcriptVars, worldVars
<1>5. WorldOK' /\ SettlesOverdue /\ OthersUntouched(r)
  BY DEF FailRun, followVars, worldVars, ChatInv, WorldOK, SettlesOverdue, OthersUntouched
<1>6. chatRun'[r].attempted = chatRun[r].attempted
  BY <1>3 DEF RowsKept, Keeps
<1>7. CallAgrees(r)'
  BY <1>6 DEF FailRun, followVars, worldVars, ChatInv, WorldOK, CallsAgree, CallAgrees
<1> QED
  BY <1>3, <1>4, <1>5, <1>7, CallStep

(* A reservation that is settled is no longer held. *)
LEMMA SettledTicket ==
    ASSUME ChatInv, NEW r \in Runs, NEW settlement \in {"committed", "released"},
           SettleTicket(r, settlement)
    PROVE  /\ ticket' \in [Runs -> {"none", "held", "committed", "released", "lost"}]
           /\ \A q \in Runs \ {r} : ticket'[q] = ticket[q]
           /\ ticket[r] = "held" => ticket'[r] = settlement
           /\ ticket[r] # "held" => ticket'[r] = ticket[r]
BY DEF ChatInv, WorldOK, SettleTicket

LEMMA SendRefusedStep ==
    ASSUME ChatInv, NEW r \in Runs, SendRefused(r)
    PROVE  ChatInv' /\ RowsFinal
<1>1. Store(r, chatRun[r]) \/ (Open(r) /\ Store(r, After(chatRun[r], "failed")))
  BY DEF SendRefused, StoreIf
<1>2. Open(r) => Keeps(chatRun[r], After(chatRun[r], "failed"))
  BY TerminalKeeps DEF Outcomes
<1>3. RowsKept
  BY <1>1, <1>2, StoredItself, StoredKeeps DEF ChatInv
<1>4. transcript' = transcript /\ TranscriptOK'
  BY TranscriptUntouched DEF SendRefused, transcriptVars
<1>5. /\ ticket' \in [Runs -> {"none", "held", "committed", "released", "lost"}]
      /\ \A q \in Runs \ {r} : ticket'[q] = ticket[q]
      /\ ticket[r] = "held" => ticket'[r] = "released"
      /\ ticket[r] # "held" => ticket'[r] = ticket[r]
  BY SettledTicket DEF SendRefused
<1>6. WorldOK' /\ SettlesOverdue /\ OthersUntouched(r)
  BY <1>5 DEF SendRefused, followVars, ChatInv, WorldOK, SettlesOverdue, OthersUntouched
<1>7. chatRun'[r].attempted = chatRun[r].attempted
  BY <1>3 DEF RowsKept, Keeps
<1>8. CallAgrees(r)'
  BY <1>5, <1>7 DEF SendRefused, followVars, ChatInv, WorldOK, CallsAgree, CallAgrees
<1> QED
  BY <1>3, <1>4, <1>6, <1>8, CallStep

LEMMA SendUnknownStep ==
    ASSUME ChatInv, NEW r \in Runs, SendUnknown(r)
    PROVE  ChatInv' /\ RowsFinal
<1>1. RowsKept
  BY NothingStored DEF SendUnknown, ChatInv
<1>2. transcript' = transcript /\ TranscriptOK'
  BY TranscriptUntouched DEF SendUnknown, transcriptVars, worldVars
<1>3. WorldOK' /\ SettlesOverdue /\ OthersUntouched(r)
  BY DEF SendUnknown, followVars, worldVars, ChatInv, WorldOK, SettlesOverdue, OthersUntouched
<1>4. CallAgrees(r)'
  BY DEF SendUnknown, followVars, worldVars, ChatInv, WorldOK, CallsAgree, CallAgrees
<1> QED
  BY <1>1, <1>2, <1>3, <1>4, CallStep

LEMMA SendAnsweredStep ==
    ASSUME ChatInv, NEW r \in Runs, SendAnswered(r)
    PROVE  ChatInv' /\ RowsFinal
<1>1. \/ Store(r, chatRun[r])
      \/ Store(r, [chatRun[r] EXCEPT !.acknowledged = TRUE])
  BY DEF SendAnswered, StoreIf
<1>2. RowsKept
  BY <1>1, StoredItself, StoredKeeps, KeepsAcknowledged DEF ChatInv, RowsOK
<1>3. transcript' = transcript /\ TranscriptOK'
  BY TranscriptUntouched DEF SendAnswered, transcriptVars, worldVars
<1>4. /\ ticket' \in [Runs -> {"none", "held", "committed", "released", "lost"}]
      /\ \A q \in Runs \ {r} : ticket'[q] = ticket[q]
      /\ ticket[r] = "held" => ticket'[r] = "committed"
      /\ ticket[r] # "held" => ticket'[r] = ticket[r]
  BY SettledTicket DEF SendAnswered
<1>5. WorldOK' /\ SettlesOverdue /\ OthersUntouched(r)
  BY <1>4 DEF SendAnswered, followVars, worldVars, ChatInv, WorldOK, SettlesOverdue,
              OthersUntouched
<1>6. chatRun'[r].attempted = chatRun[r].attempted
  BY <1>2 DEF RowsKept, Keeps
<1>7. sending'[r] \in {"done", "unknown"} /\ (sending'[r] = "unknown" => ticket'[r] # "held")
  BY <1>4 DEF SendAnswered, ChatInv, WorldOK
<1>8. CallAgrees(r)'
  BY <1>4, <1>6, <1>7
     DEF SendAnswered, followVars, worldVars, ChatInv, WorldOK, CallsAgree, CallAgrees
<1> QED
  BY <1>2, <1>3, <1>5, <1>8, CallStep

LEMMA MarkOutcomeUnknownStep ==
    ASSUME ChatInv, NEW r \in Runs, MarkOutcomeUnknown(r)
    PROVE  ChatInv' /\ RowsFinal
<1>1. Store(r, chatRun[r]) \/ Store(r, UnknownRow(chatRun[r]))
  BY DEF MarkOutcomeUnknown, StoreIf
<1>2. RowsKept
  BY <1>1, KeepsUnknown, StoredItself, StoredKeeps DEF ChatInv, RowsOK
<1>3. transcript' = transcript /\ TranscriptOK'
  BY TranscriptUntouched DEF MarkOutcomeUnknown, transcriptVars, worldVars
<1>4. /\ ticket' \in [Runs -> {"none", "held", "committed", "released", "lost"}]
      /\ \A q \in Runs \ {r} : ticket'[q] = ticket[q]
      /\ ticket[r] = "held" => ticket'[r] = "committed"
      /\ ticket[r] # "held" => ticket'[r] = ticket[r]
  BY SettledTicket DEF MarkOutcomeUnknown, UnknownTicket
<1>5. /\ reconciling' \in [Runs -> {"idle", "reading", "recording", "timer", "settling"}]
      /\ SettlesOverdue
  BY StartingReconciliation DEF MarkOutcomeUnknown
<1>6. WorldOK' /\ OthersUntouched(r)
  BY <1>4, <1>5 DEF MarkOutcomeUnknown, worldVars, ChatInv, WorldOK, OthersUntouched
<1>7. chatRun'[r].attempted = chatRun[r].attempted
  BY <1>2 DEF RowsKept, Keeps
<1>8. CallAgrees(r)'
  BY <1>4, <1>5, <1>7
     DEF MarkOutcomeUnknown, worldVars, ChatInv, WorldOK, CallsAgree, CallAgrees, SettlesOverdue
<1> QED
  BY <1>2, <1>3, <1>5, <1>6, <1>8, CallStep

LEMMA DeliverStep ==
    ASSUME ChatInv, NEW r \in Runs, Deliver(r)
    PROVE  ChatInv' /\ RowsFinal
<1>1. RowsKept
  BY NothingStored DEF Deliver, ChatInv
<1>2. transcript' = transcript /\ TranscriptOK'
  BY TranscriptUntouched DEF Deliver, transcriptVars
<1>3. WorldOK' /\ SettlesOverdue /\ OthersUntouched(r)
  BY DEF Deliver, callVars, followVars, ChatInv, WorldOK, SettlesOverdue, OthersUntouched
<1>4. CallAgrees(r)'
  BY DEF Deliver, callVars, followVars, ChatInv, WorldOK, CallsAgree, CallAgrees
<1> QED
  BY <1>1, <1>2, <1>3, <1>4, CallStep

LEMMA FinishStep ==
    ASSUME ChatInv, NEW r \in Runs, NEW outcome \in Outcomes, Finish(r, outcome)
    PROVE  ChatInv' /\ RowsFinal
<1>1. RowsKept
  BY NothingStored DEF Finish, ChatInv
<1>2. transcript' = transcript /\ TranscriptOK'
  BY TranscriptUntouched DEF Finish, transcriptVars
<1>3. WorldOK' /\ SettlesOverdue /\ OthersUntouched(r)
  BY DEF Finish, callVars, followVars, ChatInv, WorldOK, SettlesOverdue, OthersUntouched
<1>4. CallAgrees(r)'
  BY DEF Finish, callVars, followVars, ChatInv, WorldOK, CallsAgree, CallAgrees, Outcomes
<1> QED
  BY <1>1, <1>2, <1>3, <1>4, CallStep

LEMMA AbortAnsweredStep ==
    ASSUME ChatInv, NEW r \in Runs, AbortAnswered(r)
    PROVE  ChatInv' /\ RowsFinal
<1>1. RowsKept
  BY NothingStored DEF AbortAnswered, ChatInv
<1>2. transcript' = transcript /\ TranscriptOK'
  BY TranscriptUntouched DEF AbortAnswered, transcriptVars
<1>3. /\ reconciling' \in [Runs -> {"idle", "reading", "recording", "timer", "settling"}]
      /\ SettlesOverdue
  BY StartingReconciliation DEF AbortAnswered
<1>4. /\ provider' \in [Runs -> {"none", "sent", "refused", "running"} \cup Outcomes]
      /\ \A q \in Runs \ {r} : provider'[q] = provider[q]
      /\ provider'[r] = provider[r] \/ (provider[r] = "running" /\ provider'[r] = "cancelled")
  <2>1. CASE provider' = provider
    BY <2>1 DEF ChatInv, WorldOK
  <2>2. CASE provider' = [provider EXCEPT ![r] = IF @ = "running" THEN "cancelled" ELSE @]
    BY <2>2 DEF ChatInv, WorldOK, Outcomes
  <2> QED
    BY <2>1, <2>2 DEF AbortAnswered
<1>5. WorldOK' /\ OthersUntouched(r)
  BY <1>3, <1>4 DEF AbortAnswered, ChatInv, WorldOK, OthersUntouched
<1>6. CallAgrees(r)'
  BY <1>3, <1>4 DEF AbortAnswered, ChatInv, WorldOK, CallsAgree, CallAgrees, SettlesOverdue
<1> QED
  BY <1>1, <1>2, <1>3, <1>5, <1>6, CallStep

LEMMA DeadlinePassesStep ==
    ASSUME ChatInv, NEW r \in Runs, DeadlinePasses(r)
    PROVE  ChatInv' /\ RowsFinal
<1>1. RowsKept
  BY NothingStored DEF DeadlinePasses, ChatInv
<1>2. transcript' = transcript /\ TranscriptOK'
  BY TranscriptUntouched DEF DeadlinePasses, transcriptVars
<1>3. WorldOK' /\ SettlesOverdue /\ OthersUntouched(r)
  BY DEF DeadlinePasses, callVars, followVars, ChatInv, WorldOK, SettlesOverdue,
         OthersUntouched
<1>4. CallAgrees(r)'
  BY DEF DeadlinePasses, callVars, followVars, ChatInv, WorldOK, CallsAgree, CallAgrees
<1> QED
  BY <1>1, <1>2, <1>3, <1>4, CallStep

LEMMA RecordReconciledStep ==
    ASSUME ChatInv, NEW r \in Runs, RecordReconciled(r)
    PROVE  ChatInv' /\ RowsFinal
<1>1. \/ Store(r, chatRun[r])
      \/ Store(r, [chatRun[r] EXCEPT !.reconciled = TRUE])
  BY DEF RecordReconciled, StoreIf
<1>2. RowsKept
  BY <1>1, StoredItself, StoredKeeps, KeepsReconciled DEF ChatInv, RowsOK
<1>3. transcript' = transcript /\ TranscriptOK'
  BY TranscriptUntouched DEF RecordReconciled, transcriptVars, worldVars
<1>4. ticket' = ticket \/ SettleTicket(r, "committed")
  BY DEF RecordReconciled
<1>5. /\ ticket' \in [Runs -> {"none", "held", "committed", "released", "lost"}]
      /\ \A q \in Runs \ {r} : ticket'[q] = ticket[q]
      /\ ticket'[r] = ticket[r] \/ (ticket[r] = "held" /\ ticket'[r] = "committed")
  <2>1. CASE ticket' = ticket
    BY <2>1 DEF ChatInv, WorldOK
  <2>2. CASE SettleTicket(r, "committed")
    BY <2>2, SettledTicket
  <2> QED
    BY <1>4, <2>1, <2>2
<1>6. blocked' \subseteq Runs /\ abortAcknowledged' \subseteq Runs
  BY DEF RecordReconciled, Forget, ChatInv, WorldOK
<1>7. WorldOK' /\ SettlesOverdue /\ OthersUntouched(r)
  BY <1>5, <1>6 DEF RecordReconciled, worldVars, ChatInv, WorldOK, SettlesOverdue,
                    OthersUntouched
<1>8. chatRun'[r].attempted = chatRun[r].attempted
  BY <1>2 DEF RowsKept, Keeps
<1>9. CallAgrees(r)'
  <2>1. CallAgrees(r)
    BY DEF ChatInv, CallsAgree
  <2>2. /\ sending' = sending /\ provider' = provider /\ overdue' = overdue
        /\ reconciling'[r] = "idle"
    BY DEF RecordReconciled, worldVars, ChatInv, WorldOK
  <2>3. CASE ticket'[r] = ticket[r]
    BY <1>2, <1>8, <2>1, <2>2, <2>3 DEF RowsKept, Keeps, CallAgrees
  <2>4. CASE ticket[r] = "held" /\ ticket'[r] = "committed"
    BY <1>2, <1>8, <2>1, <2>2, <2>4 DEF RowsKept, Keeps, CallAgrees
  <2> QED
    BY <1>5, <2>3, <2>4
<1> QED
  BY <1>2, <1>3, <1>7, <1>9, CallStep

(* The reservation of an overdue run is settled long before: the deadline
   gives none back. *)
LEMMA SettlingAtDeadline ==
    ASSUME ChatInv, NEW r \in Runs, overdue[r], SettleAtDeadline(r)
    PROVE  /\ RowsKept /\ ticket' = ticket /\ SettlesOverdue
           /\ reconciling' \in [Runs -> {"idle", "reading", "recording", "timer", "settling"}]
           /\ blocked' \subseteq Runs /\ abortAcknowledged' \subseteq Runs
<1>1. ticket[r] # "held"
  BY DEF ChatInv, CallsAgree, CallAgrees
<1>2. RowsKept
  <2>1. \/ chatRun' = chatRun
        \/ Open(r) /\ Store(r, Unresolved(chatRun[r]))
    BY DEF SettleAtDeadline
  <2>2. Open(r) => Keeps(chatRun[r], Unresolved(chatRun[r]))
    BY KeepsUnresolved DEF Open, ChatInv, RowsOK
  <2> QED
    BY <2>1, <2>2, NothingStored, StoredKeeps DEF ChatInv
<1>3. ticket' = ticket
  BY <1>1 DEF SettleAtDeadline, SettleTicket, ChatInv, WorldOK
<1>4. blocked' \subseteq Runs /\ abortAcknowledged' \subseteq Runs
  BY DEF SettleAtDeadline, Forget, ChatInv, WorldOK
<1>5. /\ reconciling' \in [Runs -> {"idle", "reading", "recording", "timer", "settling"}]
      /\ SettlesOverdue
  BY DEF SettleAtDeadline, ChatInv, WorldOK, SettlesOverdue
<1> QED
  BY <1>2, <1>3, <1>4, <1>5

LEMMA SettleDeadlineStep ==
    ASSUME ChatInv, NEW r \in Runs, SettleDeadline(r)
    PROVE  ChatInv' /\ RowsFinal
<1>1. overdue[r]
  BY DEF SettleDeadline, ChatInv, CallsAgree, CallAgrees
<1>2. /\ RowsKept /\ ticket' = ticket /\ SettlesOverdue
      /\ reconciling' \in [Runs -> {"idle", "reading", "recording", "timer", "settling"}]
      /\ blocked' \subseteq Runs /\ abortAcknowledged' \subseteq Runs
  BY <1>1, SettlingAtDeadline DEF SettleDeadline
<1>3. UNCHANGED <<transcript, controlling, disturbances>>
      /\ UNCHANGED <<sending, ticket, provider, overdue>>
      /\ FollowTypes'
  BY <1>2 DEF SettleDeadline, transcriptVars, worldVars, ChatInv, WorldOK, FollowTypes
<1> QED
  BY <1>2, <1>3, QuietStep

LEMMA RecoverDispatchedStep ==
    ASSUME ChatInv, NEW r \in Runs, RecoverDispatched(r)
    PROVE  ChatInv' /\ RowsFinal
<1>1. /\ RowsKept /\ ticket' = ticket /\ SettlesOverdue
      /\ reconciling' \in [Runs -> {"idle", "reading", "recording", "timer", "settling"}]
      /\ blocked' \subseteq Runs /\ abortAcknowledged' \subseteq Runs
  <2>1. CASE overdue[r]
    BY <2>1, SettlingAtDeadline DEF RecoverDispatched
  <2>2. CASE ~overdue[r]
    BY <2>2, NothingStored, StartingReconciliation DEF RecoverDispatched, ChatInv, WorldOK
  <2> QED
    BY <2>1, <2>2
<1>2. UNCHANGED <<transcript, controlling, disturbances>>
      /\ UNCHANGED <<sending, ticket, provider, overdue>>
      /\ FollowTypes'
  BY <1>1 DEF RecoverDispatched, transcriptVars, ChatInv, WorldOK, FollowTypes
<1> QED
  BY <1>1, <1>2, QuietStep

-----------------------------------------------------------------------------
(* Admission and dispatch: the two steps that do more to a row than Keeps *)

LEMMA SendRunStep ==
    ASSUME ChatInv, NEW r \in Runs, Send(r)
    PROVE  ChatInv' /\ RowsFinal
<1>1. transcript' = transcript /\ TranscriptOK'
  BY TranscriptUntouched DEF Send, transcriptVars, worldVars
<1>2. /\ Admitted \in ChatRun /\ Admitted.state = "admitted" /\ ~Admitted.attempted
      /\ ~Admitted.cancelled /\ Admitted.generation = transcript.generation
  <2>1. transcript.generation \in 0 .. Generations
    BY ChatRunsAssumption DEF ChatInv, TranscriptOK, Generations
  <2> QED
    BY <2>1 DEF Admitted, Absent, ChatRun, Active, Failures
<1> HIDE DEF Admitted
<1>3. /\ chatRun' \in [Runs -> ChatRun] /\ chatRun'[r] = Admitted
      /\ \A q \in Runs : q # r => chatRun'[q] = chatRun[q]
  BY <1>2 DEF Send, Store, ChatInv, RowsOK
<1>4. RowsOK'
  BY <1>2, <1>3 DEF RowsOK, Storable, ChatInv
<1>5. ActiveRunsAreCurrent'
  BY <1>1, <1>2, <1>3 DEF ActiveRunsAreCurrent, ChatInv
<1>6. WorldOK'
  BY DEF Send, followVars, worldVars, ChatInv, WorldOK
<1>7. ASSUME NEW q \in Runs PROVE CallAgrees(q)'
  <2>1. CallAgrees(q)
    BY DEF ChatInv, CallsAgree
  <2>2. /\ ticket' = ticket /\ provider' = provider /\ overdue' = overdue
        /\ reconciling' = reconciling
    BY DEF Send, followVars, worldVars
  <2>3. CASE q = r
    <3>1. sending[r] = "none" /\ sending'[r] = "admitted"
      BY DEF Send, ChatInv, WorldOK
    <3>2. ~chatRun'[r].attempted /\ ~chatRun[r].attempted
      BY <1>2, <1>3, <2>1, <2>3, <3>1 DEF CallAgrees
    <3> QED
      BY <2>1, <2>2, <2>3, <3>1, <3>2 DEF CallAgrees
  <2>4. CASE q # r
    <3>1. chatRun'[q] = chatRun[q] /\ sending'[q] = sending[q]
      BY <1>3, <2>4 DEF Send, ChatInv, WorldOK
    <3> QED
      BY <2>1, <2>2, <3>1 DEF CallAgrees
  <2> QED
    BY <2>3, <2>4
<1>8. RowsFinal
  BY <1>3 DEF RowsFinal, Final, Send, Settled, Outcomes
<1> QED
  BY <1>1, <1>4, <1>5, <1>6, <1>7, <1>8 DEF ChatInv, CallsAgree

LEMMA BeginDispatchStep ==
    ASSUME ChatInv, NEW r \in Runs, BeginDispatch(r)
    PROVE  ChatInv' /\ RowsFinal
<1>1. transcript' = transcript /\ TranscriptOK'
  BY TranscriptUntouched DEF BeginDispatch, transcriptVars
<1>2. sending[r] = "admitted" /\ ~chatRun[r].attempted /\ ticket[r] = "none"
      /\ provider[r] = "none" /\ ~overdue[r] /\ reconciling[r] # "settling"
  BY DEF BeginDispatch, ChatInv, CallsAgree, CallAgrees
<1>3. CASE ~Dispatchable(chatRun[r])
  <2>1. RowsKept
    BY <1>3, StoredItself DEF BeginDispatch, StoreIf, ChatInv
  <2>2. /\ ticket' = [ticket EXCEPT ![r] = "released"]
        /\ sending' = [sending EXCEPT ![r] = "done"]
        /\ provider' = provider /\ overdue' = overdue /\ reconciling' = reconciling
    BY <1>3 DEF BeginDispatch, followVars, ChatInv, WorldOK
  <2>3. WorldOK' /\ SettlesOverdue /\ OthersUntouched(r)
    BY <2>2 DEF BeginDispatch, followVars, ChatInv, WorldOK, SettlesOverdue, OthersUntouched
  <2>4. ~chatRun'[r].attempted
    BY <1>2, <2>1 DEF RowsKept, Keeps
  <2>5. CallAgrees(r)'
    BY <1>2, <2>2, <2>4 DEF CallAgrees, ChatInv, WorldOK
  <2> QED
    BY <1>1, <2>1, <2>3, <2>5, CallStep
<1>4. CASE Dispatchable(chatRun[r])
  <2> DEFINE row == [chatRun[r] EXCEPT !.attempted = TRUE]
  <2>1. row \in ChatRun
    BY DEF ChatInv, RowsOK, ChatRun
  <2>2. /\ row.state = "admitted" /\ row.attempted /\ chatRun[r].state = "admitted"
        /\ row.generation = chatRun[r].generation /\ row.cancelled = chatRun[r].cancelled
    BY <1>4 DEF ChatInv, RowsOK, ChatRun, Dispatchable
  <2>3. chatRun' = [chatRun EXCEPT ![r] = row]
    BY <1>4 DEF BeginDispatch, StoreIf, Store
  <2> HIDE DEF row
  <2>4. /\ chatRun' \in [Runs -> ChatRun] /\ chatRun'[r] = row
        /\ \A q \in Runs : q # r => chatRun'[q] = chatRun[q]
    BY <2>1, <2>3 DEF ChatInv, RowsOK
  <2>5. RowsOK'
    BY <2>2, <2>4 DEF RowsOK, Storable, ChatInv
  <2>6. ActiveRunsAreCurrent'
    BY <1>1, <2>2, <2>4 DEF ActiveRunsAreCurrent, ChatInv, Active
  <2>7. /\ ticket' = [ticket EXCEPT ![r] = "held"]
        /\ sending' = [sending EXCEPT ![r] = "calling"]
        /\ provider' = [provider EXCEPT ![r] = "sent"]
        /\ overdue' = overdue /\ reconciling' = reconciling
    BY <1>4 DEF BeginDispatch, followVars
  <2>8. WorldOK'
    BY <2>7 DEF BeginDispatch, followVars, ChatInv, WorldOK
  <2>9. ASSUME NEW q \in Runs PROVE CallAgrees(q)'
    <3>1. CASE q = r
      BY <1>2, <2>2, <2>4, <2>7, <3>1 DEF CallAgrees, ChatInv, WorldOK
    <3>2. CASE q # r
      <4>1. CallAgrees(q)
        BY DEF ChatInv, CallsAgree
      <4>2. /\ chatRun'[q] = chatRun[q] /\ sending'[q] = sending[q]
            /\ ticket'[q] = ticket[q] /\ provider'[q] = provider[q]
        BY <2>4, <2>7, <3>2 DEF ChatInv, WorldOK
      <4> QED
        BY <2>7, <4>1, <4>2 DEF CallAgrees
    <3> QED
      BY <3>1, <3>2
  <2>10. RowsFinal
    BY <2>2, <2>4 DEF RowsFinal, Final, Settled, Outcomes
  <2> QED
    BY <1>1, <2>5, <2>6, <2>8, <2>9, <2>10 DEF ChatInv, CallsAgree
<1> QED
  BY <1>3, <1>4

-----------------------------------------------------------------------------
(* Boundaries of the transcript *)

(* A step that may move the transcript keeps the rows; where the generation
   changes, no run is active any more. *)
LEMMA BoundaryStep ==
    ASSUME ChatInv, RowsKept, TranscriptOK', WorldOK', CallsAgree',
           \/ transcript'.generation = transcript.generation
           \/ \A r \in Runs : chatRun'[r].state \notin Active
    PROVE  ChatInv' /\ RowsFinal
<1>1. RowsOK'
  BY DEF RowsKept, RowsOK, Keeps
<1>2. ActiveRunsAreCurrent'
  BY DEF ChatInv, RowsKept, ActiveRunsAreCurrent, Keeps
<1>3. RowsFinal
  BY DEF RowsKept, Keeps, RowsFinal
<1> QED
  BY <1>1, <1>2, <1>3 DEF ChatInv

(* Advancing settles every active run, whichever they are. *)
LEMMA AdvancingSettles ==
    ASSUME ChatInv, NEW status, Advance(status)
    PROVE  RowsKept /\ \A r \in Runs : chatRun'[r].state \notin Active
<1> SUFFICES ASSUME NEW r \in Runs
             PROVE  /\ Keeps(chatRun[r], chatRun'[r]) /\ chatRun'[r].state \notin Active
                    /\ chatRun' \in [Runs -> ChatRun]
  BY DEF RowsKept, Advance
<1>1. ASSUME NEW q \in Runs
      PROVE  Keeps(chatRun[q], chatRun'[q]) /\ chatRun'[q].state \notin Active
  <2>1. chatRun[q] \in ChatRun /\ Storable(chatRun[q])
    BY DEF ChatInv, RowsOK
  <2>2. CASE q \in ActiveRuns
    <3>1. chatRun'[q] = Unresolved(chatRun[q])
      BY <2>2 DEF Advance, Retired
    <3>2. Keeps(chatRun[q], chatRun'[q])
      BY <2>1, <2>2, <3>1, KeepsUnresolved DEF ActiveRuns
    <3>3. chatRun'[q].state = "unresolved"
      BY <2>1, <3>1 DEF Unresolved, ChatRun
    <3> QED
      BY <3>2, <3>3 DEF Active
  <2>3. CASE q \notin ActiveRuns
    <3>1. chatRun'[q] = chatRun[q]
      BY <2>3 DEF Advance, Retired
    <3>2. chatRun[q].state \notin Active
      BY <2>3 DEF ActiveRuns, ChatInv, ActiveRunsAreCurrent
    <3> QED
      BY <2>1, <3>1, <3>2, KeepsItself
  <2> QED
    BY <2>2, <2>3
<1>2. chatRun' = [q \in Runs |-> chatRun'[q]]
  BY DEF Advance
<1>3. \A q \in Runs : chatRun'[q] \in ChatRun
  BY <1>1 DEF Keeps
<1>4. chatRun' \in [Runs -> ChatRun]
  BY <1>2, <1>3
<1> QED
  BY <1>1, <1>4

(* What an advance does beside the rows and the transcript *)
LEMMA AdvancingWorld ==
    ASSUME ChatInv, NEW status, Advance(status),
           UNCHANGED <<sending, aborting, recovery, overdue, provider>>
    PROVE  WorldOK' /\ CallsAgree'
<1>1. RowsKept
  BY AdvancingSettles
<1>2. Retired \subseteq Runs
  BY DEF Retired, ActiveRuns
<1>3. /\ \A q \in Runs : \/ ticket'[q] = ticket[q]
                         \/ ticket[q] = "held" /\ ticket'[q] = "committed"
      /\ \A q \in Runs : reconciling'[q] \in {reconciling[q], "idle"}
      /\ ticket' \in [Runs -> {"none", "held", "committed", "released", "lost"}]
      /\ reconciling' \in [Runs -> {"idle", "reading", "recording", "timer", "settling"}]
  BY DEF Advance, ChatInv, WorldOK
<1>4. blocked' \subseteq Runs /\ abortAcknowledged' \subseteq Runs
  BY <1>2 DEF Advance, ChatInv, WorldOK
<1>5. WorldOK'
  BY <1>3, <1>4 DEF ChatInv, WorldOK
<1>6. ASSUME NEW q \in Runs PROVE CallAgrees(q)'
  <2>1. CallAgrees(q) /\ Keeps(chatRun[q], chatRun'[q])
    BY <1>1 DEF ChatInv, CallsAgree, RowsKept
  <2>2. CASE ticket'[q] = ticket[q]
    BY <1>3, <2>1, <2>2 DEF CallAgrees, Keeps
  <2>3. CASE ticket[q] = "held" /\ ticket'[q] = "committed"
    BY <1>3, <2>1, <2>3 DEF CallAgrees, Keeps
  <2> QED
    BY <1>3, <2>2, <2>3
<1> QED
  BY <1>5, <1>6 DEF CallsAgree

(* A boundary that was not announced is a disturbance of its own, one that
   ends a fence was counted when the fence was set up. *)
LEMMA AdvancingTranscript ==
    ASSUME TranscriptOK, NEW status \in {"ready", "absent"},
           transcript' = Advanced(status), controlling' \in BOOLEAN, ~controlling',
           \/ Disturb
           \/ /\ transcript.status \in {"control-pending", "reconciling"}
              /\ disturbances' = disturbances
    PROVE  TranscriptOK'
<1> USE ChatRunsAssumption
<1>1. /\ disturbances \in Nat /\ transcript.generation \in Nat
      /\ transcript.generation <= 1 + disturbances /\ 1 <= transcript.generation
  BY DEF TranscriptOK, BoundariesCounted, Generations
<1>2. disturbances' \in 0 .. MaximumDisturbances
  BY <1>1 DEF Disturb, TranscriptOK
<1>3. transcript.generation + 1 <= 1 + disturbances'
  BY <1>1 DEF Disturb, TranscriptOK, BoundariesCounted
<1>4. transcript.generation + 1 \in 1 .. Generations
  BY <1>1, <1>2, <1>3 DEF Generations
<1>5. /\ transcript' \in [generation : 1 .. Generations,
                          status : {"ready", "absent", "control-pending", "reconciling"},
                          previous : {"ready", "absent"}]
      /\ transcript'.status \in {"ready", "absent"}
      /\ transcript'.generation = transcript.generation + 1
  BY <1>4 DEF Advanced
<1> QED
  BY <1>2, <1>3, <1>5 DEF TranscriptOK, BoundariesCounted

LEMMA ObserveBoundaryStep ==
    ASSUME ChatInv, ObserveBoundary
    PROVE  ChatInv' /\ RowsFinal
<1>1. PICK status \in {"ready", "absent"} : Advance(status)
  BY DEF ObserveBoundary
<1>2. TranscriptOK'
  BY <1>1, AdvancingTranscript DEF ObserveBoundary, Advance, ChatInv
<1>3. WorldOK' /\ CallsAgree'
  BY <1>1, AdvancingWorld DEF ObserveBoundary
<1>4. RowsKept /\ \A r \in Runs : chatRun'[r].state \notin Active
  BY <1>1, AdvancingSettles
<1> QED
  BY <1>2, <1>3, <1>4, BoundaryStep

LEMMA BeginControlStep ==
    ASSUME ChatInv, BeginControl
    PROVE  ChatInv' /\ RowsFinal
<1>1. RowsKept
  BY NothingStored DEF BeginControl, ChatInv
<1>2. WorldOK' /\ CallsAgree'
  BY DEF BeginControl, callVars, followVars, ChatInv, WorldOK, CallsAgree, CallAgrees
<1>3. /\ disturbances' = disturbances + 1 /\ disturbances < MaximumDisturbances
      /\ disturbances \in 0 .. MaximumDisturbances
      /\ transcript.generation \in Nat /\ transcript.generation <= 1 + disturbances
  BY DEF BeginControl, Disturb, ChatInv, TranscriptOK, BoundariesCounted
<1>4. disturbances' \in 0 .. MaximumDisturbances
  BY <1>3, ChatRunsAssumption
<1>5. /\ transcript' \in [generation : 1 .. Generations,
                          status : {"ready", "absent", "control-pending", "reconciling"},
                          previous : {"ready", "absent"}]
      /\ transcript'.status = "control-pending" /\ controlling' = TRUE
      /\ transcript'.generation = transcript.generation
  BY DEF BeginControl, ChatInv, TranscriptOK
<1>6. TranscriptOK'
  <2>1. BoundariesCounted'
    BY <1>3, <1>5, ChatRunsAssumption DEF BoundariesCounted
  <2> QED
    BY <1>4, <1>5, <2>1 DEF TranscriptOK
<1> QED
  BY <1>1, <1>2, <1>5, <1>6, BoundaryStep

LEMMA ReopenTranscriptStep ==
    ASSUME ChatInv, ReopenTranscript
    PROVE  ChatInv' /\ RowsFinal
<1>1. RowsKept
  BY NothingStored DEF ReopenTranscript, ChatInv
<1>2. WorldOK' /\ CallsAgree'
  BY DEF ReopenTranscript, callVars, followVars, worldVars, ChatInv, WorldOK, CallsAgree,
         CallAgrees
<1>3. /\ transcript' \in [generation : 1 .. Generations,
                          status : {"ready", "absent", "control-pending", "reconciling"},
                          previous : {"ready", "absent"}]
      /\ transcript'.status \in {"ready", "absent"} /\ controlling' = FALSE
      /\ transcript'.generation = transcript.generation
      /\ disturbances' = disturbances
  BY DEF ReopenTranscript, worldVars, ChatInv, TranscriptOK
<1>4. TranscriptOK'
  BY <1>3 DEF TranscriptOK, BoundariesCounted, ChatInv
<1> QED
  BY <1>1, <1>2, <1>3, <1>4, BoundaryStep

(* A fence, or an advance of a transcript in which nothing is active *)
LEMMA FencingTranscript ==
    ASSUME ChatInv, Disturb, transcript' = FencedTranscript,
           controlling' = controlling \/ controlling' = FALSE
    PROVE  /\ TranscriptOK'
           /\ \/ transcript'.generation = transcript.generation
              \/ \A r \in Runs : chatRun[r].state \notin Active
<1> USE ChatRunsAssumption
<1>1. /\ disturbances' = disturbances + 1 /\ disturbances < MaximumDisturbances
      /\ disturbances \in 0 .. MaximumDisturbances
      /\ transcript.generation \in Nat /\ transcript.generation <= 1 + disturbances
      /\ controlling \in BOOLEAN /\ TranscriptOK
  BY DEF Disturb, ChatInv, TranscriptOK, BoundariesCounted
<1>2. disturbances' \in 0 .. MaximumDisturbances /\ disturbances' \in Nat
  BY <1>1
<1>3. controlling' \in BOOLEAN /\ (controlling' => controlling)
  <2>1. CASE controlling' = controlling
    BY <1>1, <2>1
  <2>2. CASE controlling' = FALSE
    BY <2>2
  <2> QED
    BY <2>1, <2>2
<1>4. controlling => transcript.status = "control-pending"
  BY <1>1 DEF TranscriptOK
<1>5. CASE transcript.status = "control-pending"
  <2>1. transcript' = transcript
    BY <1>5 DEF FencedTranscript
  <2> QED
    BY <1>1, <1>2, <1>3, <1>5, <2>1 DEF TranscriptOK, BoundariesCounted
<1>6. CASE transcript.status # "control-pending" /\ ActiveRuns # {}
  <2>1. /\ transcript' \in [generation : 1 .. Generations,
                            status : {"ready", "absent", "control-pending", "reconciling"},
                            previous : {"ready", "absent"}]
        /\ transcript'.generation = transcript.generation
    BY <1>1, <1>6 DEF FencedTranscript, TranscriptOK
  <2>2. ~controlling'
    BY <1>3, <1>4, <1>6
  <2>3. BoundariesCounted'
    BY <1>1, <2>1 DEF BoundariesCounted
  <2> QED
    BY <1>2, <1>3, <2>1, <2>2, <2>3 DEF TranscriptOK
<1>7. CASE transcript.status # "control-pending" /\ ActiveRuns = {}
  <2>1. ~controlling' /\ controlling' \in BOOLEAN
    BY <1>3, <1>4, <1>7
  <2>2. transcript' = Advanced("absent") \/ transcript' = Advanced("ready")
    BY <1>7 DEF FencedTranscript
  <2>3. TranscriptOK'
    BY <1>1, <2>1, <2>2, AdvancingTranscript
  <2>4. \A r \in Runs : chatRun[r].state \notin Active
    BY <1>7 DEF ActiveRuns, ChatInv, ActiveRunsAreCurrent
  <2> QED
    BY <2>3, <2>4
<1> QED
  BY <1>5, <1>6, <1>7

LEMMA TransportBoundaryStep ==
    ASSUME ChatInv, TransportBoundary
    PROVE  ChatInv' /\ RowsFinal
<1>1. RowsKept
  BY NothingStored DEF TransportBoundary, ChatInv
<1>2. WorldOK' /\ CallsAgree'
  BY DEF TransportBoundary, callVars, followVars, ChatInv, WorldOK, CallsAgree, CallAgrees
<1>3. /\ TranscriptOK'
      /\ \/ transcript'.generation = transcript.generation
         \/ \A r \in Runs : chatRun[r].state \notin Active
  BY FencingTranscript DEF TransportBoundary
<1>4. chatRun' = chatRun
  BY DEF TransportBoundary
<1> QED
  BY <1>1, <1>2, <1>3, <1>4, BoundaryStep

LEMMA RestartStep ==
    ASSUME ChatInv, Restart
    PROVE  ChatInv' /\ RowsFinal
<1>1. RowsKept /\ chatRun' = chatRun
  BY NothingStored DEF Restart, ChatInv
<1>2. WorldOK'
  BY DEF Restart, ChatInv, WorldOK
<1>3. ASSUME NEW q \in Runs PROVE CallAgrees(q)'
  <2>1. CallAgrees(q)
    BY DEF ChatInv, CallsAgree
  <2>2. /\ sending'[q] = IF sending[q] = "none" THEN "none" ELSE "done"
        /\ ticket'[q] = IF ticket[q] = "held" THEN "lost" ELSE ticket[q]
        /\ reconciling'[q] = "idle"
        /\ overdue' = overdue /\ provider' = provider
    BY DEF Restart
  <2> QED
    BY <1>1, <2>1, <2>2 DEF CallAgrees
<1>4. /\ TranscriptOK'
      /\ \/ transcript'.generation = transcript.generation
         \/ \A r \in Runs : chatRun[r].state \notin Active
  BY FencingTranscript DEF Restart
<1> QED
  BY <1>1, <1>2, <1>3, <1>4, BoundaryStep DEF CallsAgree

LEMMA RecoverTranscriptStep ==
    ASSUME ChatInv, RecoverTranscript
    PROVE  ChatInv' /\ RowsFinal
<1>1. CASE Advance("ready")
  <2>1. TranscriptOK'
    BY <1>1, AdvancingTranscript DEF RecoverTranscript, Advance, ChatInv, worldVars
  <2>2. WorldOK' /\ CallsAgree'
    BY <1>1, AdvancingWorld DEF RecoverTranscript, worldVars
  <2>3. RowsKept /\ \A r \in Runs : chatRun'[r].state \notin Active
    BY <1>1, AdvancingSettles
  <2> QED
    BY <2>1, <2>2, <2>3, BoundaryStep
<1>2. CASE /\ transcript' = [transcript EXCEPT !.status = "ready"]
           /\ UNCHANGED <<chatRun, controlling, ticket, followVars>>
  <2>1. RowsKept
    BY <1>2, NothingStored DEF ChatInv
  <2>2. WorldOK' /\ CallsAgree'
    BY <1>2 DEF RecoverTranscript, followVars, worldVars, ChatInv, WorldOK, CallsAgree,
                CallAgrees
  <2>3. /\ transcript' \in [generation : 1 .. Generations,
                            status : {"ready", "absent", "control-pending", "reconciling"},
                            previous : {"ready", "absent"}]
        /\ transcript'.status = "ready" /\ ~controlling'
        /\ transcript'.generation = transcript.generation
        /\ disturbances' = disturbances /\ controlling' = controlling
    BY <1>2 DEF RecoverTranscript, worldVars, ChatInv, TranscriptOK
  <2>4. TranscriptOK'
    BY <2>3 DEF TranscriptOK, BoundariesCounted, ChatInv
  <2> QED
    BY <2>1, <2>2, <2>3, <2>4, BoundaryStep
<1> QED
  BY <1>1, <1>2 DEF RecoverTranscript

LEMMA RecoveryFailsStep ==
    ASSUME ChatInv, RecoveryFails
    PROVE  ChatInv' /\ RowsFinal
<1>1. RowsKept
  BY NothingStored DEF RecoveryFails, ChatInv
<1>2. WorldOK' /\ CallsAgree'
  BY DEF RecoveryFails, callVars, followVars, ChatInv, WorldOK, CallsAgree, CallAgrees
<1>3. /\ disturbances' = disturbances + 1 /\ disturbances < MaximumDisturbances
      /\ disturbances \in 0 .. MaximumDisturbances
      /\ transcript' = transcript /\ controlling' = controlling
      /\ transcript.generation \in Nat /\ transcript.generation <= 1 + disturbances
  BY DEF RecoveryFails, Disturb, transcriptVars, ChatInv, TranscriptOK, BoundariesCounted
<1>4. BoundariesCounted' /\ disturbances' \in 0 .. MaximumDisturbances
  BY <1>3, ChatRunsAssumption DEF BoundariesCounted, ChatInv, TranscriptOK
<1>5. TranscriptOK'
  BY <1>3, <1>4 DEF TranscriptOK, ChatInv
<1> QED
  BY <1>1, <1>2, <1>3, <1>5, BoundaryStep

-----------------------------------------------------------------------------
(* The theorems *)

LEMMA ChatStutters ==
    ASSUME ChatInv, UNCHANGED vars
    PROVE  ChatInv' /\ RowsFinal
<1>1. RowsKept
  BY NothingStored DEF vars, ChatInv
<1>2. TranscriptOK' /\ WorldOK' /\ CallsAgree' /\ transcript' = transcript
  BY DEF vars, ChatInv, TranscriptOK, BoundariesCounted, WorldOK, CallsAgree, CallAgrees
<1> QED
  BY <1>1, <1>2, RowStep

LEMMA ChatStep ==
    ASSUME ChatInv, [Next]_vars
    PROVE  ChatInv' /\ RowsFinal
<1>1. ASSUME NEW r \in Runs, SendStep(r) PROVE ChatInv' /\ RowsFinal
  BY <1>1, SendRunStep, PreparationFailsStep, FailRunStep, BeginDispatchStep, SendRefusedStep,
     SendUnknownStep, SendAnsweredStep, MarkOutcomeUnknownStep DEF SendStep
<1>2. ASSUME NEW r \in Runs, ProviderStep(r) PROVE ChatInv' /\ RowsFinal
  BY <1>2, DeliverStep, FinishStep, HandleProgressStep, HandleTerminalStep,
     BlockAndReconcileStep DEF ProviderStep
<1>3. ASSUME NEW r \in Runs, ReconciliationStep(r) PROVE ChatInv' /\ RowsFinal
  BY <1>3, ReadNoFinalStep, ReadFinalStep, RecordReconciledStep, TimerFiresStep,
     SettleDeadlineStep, DeadlinePassesStep DEF ReconciliationStep
<1>4. ASSUME NEW r \in Runs, AbortStep(r) PROVE ChatInv' /\ RowsFinal
  BY <1>4, RequestCancellationStep, AbortDecidesStep, AbortAnsweredStep, AbortUnknownStep,
     AbortRejectedStep DEF AbortStep
<1>5. CASE TranscriptStep
  BY <1>5, ObserveBoundaryStep, BeginControlStep, ReopenTranscriptStep, TransportBoundaryStep,
     RestartStep DEF TranscriptStep
<1>6. CASE MaintenanceStep
  BY <1>6, RecoverTranscriptStep, ListCandidatesStep, RecoveryFailsStep,
     RecoverUndispatchedStep, RecoverDispatchedStep DEF MaintenanceStep
<1>7. CASE SessionReconciliation
  BY <1>7, SessionReconciliationStep
<1>8. CASE UNCHANGED vars
  BY <1>8, ChatStutters
<1> QED
  BY <1>1, <1>2, <1>3, <1>4, <1>5, <1>6, <1>7, <1>8 DEF Next

(* The strengthening holds in every state of a chat session, whatever the
   operator, the gateway, the maintenance pass and the transport do and
   whenever the process restarts. *)
THEOREM ChatInvariance == Spec => []ChatInv
<1>1. ChatInit => ChatInv
  BY ChatInvInitial
<1>2. ChatInv /\ [Next]_vars => ChatInv'
  BY ChatStep
<1> QED
  BY <1>1, <1>2, PTL DEF Spec

(* Between any two steps the rows are storable, every active run belongs to
   the current transcript, and a reservation of attachments is given back only
   for a message the gateway did not take and spent only for a dispatched run. *)
THEOREM ChatRunsStayConsistent == Spec => []RunsConsistent
<1>1. ChatInv => RunsConsistent
  BY ChatInvConsistent
<1> QED
  BY <1>1, ChatInvariance, PTL

(* The outcome of a run, once it has one, outlives every late answer, event,
   abort, deadline, maintenance pass, boundary and restart. *)
THEOREM OutcomesAreFinal == Spec => SettledIsFinal
<1>1. ChatInv /\ [Next]_vars =>
        [\A r \in Runs : chatRun[r].state \in Settled =>
            /\ chatRun'[r].state = chatRun[r].state
            /\ chatRun'[r].failure = chatRun[r].failure
            /\ chatRun'[r].attempted = chatRun[r].attempted
            /\ chatRun[r].reconciled => chatRun'[r].reconciled]_vars
  BY ChatStep DEF RowsFinal, Final
<1> QED
  BY <1>1, ChatInvariance, PTL DEF Spec, SettledIsFinal
=============================================================================
