--------------------------- MODULE Services_proofs ---------------------------
(***************************************************************************)
(* Theorems about the services that MCServices puts side by side, for any  *)
(* number of calls, notifications, processes, releases, writers and lines.  *)
(* Every service has its inductive invariant, which its own steps preserve  *)
(* and those of the others leave alone.                                      *)
(***************************************************************************)
EXTENDS MCServices, FiniteSetTheorems, SequenceTheorems, TLAPS

-----------------------------------------------------------------------------
(* WriteAdmission                                                          *)

(* The open transaction is that of the holder of the lock; it began once,  *)
(* and only its commit made anything durable.                              *)
WriteInv ==
  /\ Writes!TypeOK
  /\ \A c \in Writers :
       /\ write[c] = "inside" <=> lock = c
       /\ write[c] \in {"new", "delayed"} => begun[c] = 0 /\ ~applied[c]
       /\ write[c] = "inside" => begun[c] = 1 /\ ~applied[c]
       /\ begun[c] <= 1
       /\ write[c] \in Writes!Answers => (applied[c] <=> write[c] = "ok")

LEMMA WritesBegin == Writes!Init => WriteInv
BY ConstantsMeetAssumptions
   DEF Writes!Init, WriteInv, Writes!TypeOK, Writes!Answers, Writes!AdmissionAssumption

LEMMA WritesGoOn == WriteInv /\ Writes!Next => WriteInv'
<1> SUFFICES ASSUME WriteInv, NEW c \in Writers,
                    \/ Writes!NewCall(c) \/ Writes!Begin(c) \/ Writes!Busy(c)
                    \/ Writes!Refuse(c) \/ Writes!Commit(c) \/ Writes!RollBack(c)
                    \/ Writes!Contend(c) \/ Writes!TimeOut(c)
             PROVE  WriteInv'
  BY DEF Writes!Next
<1> USE DEF WriteInv, Writes!TypeOK, Writes!Answers
<1>0. "free" \notin Writers
  BY ConstantsMeetAssumptions DEF Writes!AdmissionAssumption
<1>1. CASE Writes!NewCall(c)
  BY <1>1 DEF Writes!NewCall
<1>2. CASE Writes!Begin(c)
  BY <1>0, <1>2 DEF Writes!Begin, Writes!Attempts
<1>3. CASE Writes!Busy(c)
  BY <1>3 DEF Writes!Busy, Writes!Attempts
<1>4. CASE Writes!Refuse(c)
  BY <1>4 DEF Writes!Refuse, Writes!Attempts
<1>5. CASE Writes!Commit(c)
  BY <1>0, <1>5 DEF Writes!Commit
<1>6. CASE Writes!RollBack(c)
  BY <1>0, <1>6 DEF Writes!RollBack
<1>7. CASE Writes!Contend(c)
  BY <1>0, <1>7 DEF Writes!Contend
<1>8. CASE Writes!TimeOut(c)
  BY <1>8 DEF Writes!TimeOut
<1> QED
  BY <1>1, <1>2, <1>3, <1>4, <1>5, <1>6, <1>7, <1>8
-----------------------------------------------------------------------------
(* TaskNotifications                                                       *)

(* A process between the claim of a row and its settlement knows the row,  *)
(* and one that settles it as delivered knows that the gateway took it.    *)
TasksInv ==
  /\ Tasks!TypeOK
  /\ \A w \in Workers :
       /\ sender[w].phase \in {"sending", "delivering", "retrying", "releasing"}
            => sender[w].claim \in Notifications
       /\ sender[w].phase = "delivering" => sender[w].claim \in accepted
  /\ Tasks!DeliveredWasAccepted

LEMMA TasksBegin == Tasks!Init => TasksInv
BY ConstantsMeetAssumptions
   DEF Tasks!Init, TasksInv, Tasks!TypeOK, Tasks!Row, Tasks!Process, Tasks!Phases,
       Tasks!Idle, Tasks!NotificationsAssumption, Tasks!DeliveredWasAccepted

(* The steps of the board, of the clock and of the gateway.                *)
LEMMA TasksAround ==
  ASSUME TasksInv, NEW e \in Notifications,
         \/ Tasks!Insert(e) \/ Tasks!BackoffOver(e) \/ Tasks!LeaseLapses(e)
         \/ Tasks!GatewayAccepts(e) \/ Tasks!RequestLost(e)
  PROVE  TasksInv'
<1>t. rows \in [Notifications -> Tasks!Row]
  BY DEF TasksInv, Tasks!TypeOK
<1>r. Tasks!Insert(e) \/ Tasks!BackoffOver(e) \/ Tasks!LeaseLapses(e)
        => rows' \in [Notifications -> Tasks!Row]
  <2>1. Tasks!Insert(e) => rows' \in [Notifications -> Tasks!Row]
    BY <1>t, ZenonT(30) DEF Tasks!Insert, Tasks!Row
  <2>2. Tasks!BackoffOver(e) => rows' \in [Notifications -> Tasks!Row]
    BY <1>t, ZenonT(30) DEF Tasks!BackoffOver, Tasks!Row
  <2>3. Tasks!LeaseLapses(e) => rows' \in [Notifications -> Tasks!Row]
    BY <1>t, ZenonT(30) DEF Tasks!LeaseLapses, Tasks!Row
  <2> QED
    BY <2>1, <2>2, <2>3
<1> USE DEF TasksInv, Tasks!TypeOK, Tasks!Row, Tasks!Process, Tasks!DeliveredWasAccepted
<1>1. CASE Tasks!Insert(e)
  <2>1. rows' \in [Notifications -> Tasks!Row]
    BY <1>r, <1>1
  <2>2. \A n \in Notifications : /\ rows'[n].delivered = rows[n].delivered
                                 /\ rows'[n].owner = rows[n].owner
                                 /\ rows'[n].lapsed = rows[n].lapsed
    BY <1>1 DEF Tasks!Insert
  <2> QED
    BY <1>1, <2>1, <2>2 DEF Tasks!Insert
<1>2. CASE Tasks!BackoffOver(e)
  <2>1. rows' \in [Notifications -> Tasks!Row]
    BY <1>r, <1>2
  <2>2. \A n \in Notifications : rows'[n].delivered = rows[n].delivered
    BY <1>2 DEF Tasks!BackoffOver
  <2> QED
    BY <1>2, <2>1, <2>2 DEF Tasks!BackoffOver
<1>3. CASE Tasks!LeaseLapses(e)
  <2>1. rows' \in [Notifications -> Tasks!Row]
    BY <1>r, <1>3
  <2>2. \A n \in Notifications : /\ rows'[n].delivered = rows[n].delivered
                                 /\ rows'[n].owner = rows[n].owner
                                 /\ rows'[n].lapsed => rows[n].lapsed \/ n = e
    BY <1>3 DEF Tasks!LeaseLapses
  <2> QED
    BY <1>3, <2>1, <2>2 DEF Tasks!LeaseLapses
<1>4. CASE Tasks!GatewayAccepts(e)
  BY <1>4 DEF Tasks!GatewayAccepts
<1>5. CASE Tasks!RequestLost(e)
  BY <1>5 DEF Tasks!RequestLost
<1> QED
  BY <1>1, <1>2, <1>3, <1>4, <1>5

(* The steps of a process.                                                 *)
LEMMA TasksStepped ==
  ASSUME TasksInv, NEW w \in Workers, Tasks!Step(w)
  PROVE  TasksInv'
<1> USE DEF Tasks!Row, Tasks!Process, Tasks!Phases, Tasks!Idle, Tasks!Down
<1>t. /\ rows \in [Notifications -> Tasks!Row]
      /\ sender \in [Workers -> Tasks!Process]
      /\ stops \in 0 .. MaximumStops
  BY DEF TasksInv, Tasks!TypeOK
<1>0. /\ "nobody" \notin Workers /\ "gone" \notin Workers
      /\ "nobody" \notin Notifications /\ MaximumStops \in Nat
  BY ConstantsMeetAssumptions DEF Tasks!NotificationsAssumption
(* A settlement that is about to be attempted is that of the same row. *)
<1>a. ASSUME NEW phase \in {"delivering", "retrying", "releasing"},
             sender[w].phase = "sending", Tasks!Settle(w, phase)
      PROVE  /\ sender' \in [Workers -> Tasks!Process]
             /\ \A v \in Workers : /\ v # w => sender'[v] = sender[v]
                                   /\ sender'[v].claim = sender[v].claim
             /\ sender'[w].phase = phase /\ sender'[w].claim \in Notifications
  <2>1. sender[w].claim \in Notifications
    BY <1>a DEF TasksInv
  <2>2. PICK p \in BOOLEAN : sender' = [sender EXCEPT ![w].phase = phase, ![w].live = p]
    <3>1. (~rows[sender[w].claim].lapsed) \in BOOLEAN
      OBVIOUS
    <3> QED
      BY <1>a, <3>1, Zenon DEF Tasks!Settle
  <2> QED
    BY <1>t, <2>1, <2>2, ZenonT(30)
<1>b. ASSUME rows' = Tasks!Orphaned(w, rows)
      PROVE  /\ rows' \in [Notifications -> Tasks!Row]
             /\ \A n \in Notifications :
                  /\ rows'[n].delivered = rows[n].delivered
                  /\ rows'[n].lapsed = rows[n].lapsed
                  /\ rows'[n].owner = IF rows[n].owner = w THEN "gone"
                                       ELSE rows[n].owner
  BY <1>b, <1>t DEF Tasks!Orphaned
<1>c. ASSUME sender' = [sender EXCEPT ![w] = Tasks!Down]
      PROVE  /\ sender' \in [Workers -> Tasks!Process]
             /\ sender'[w].phase = "down"
             /\ \A v \in Workers : v # w => sender'[v] = sender[v]
  BY <1>c, <1>t
<1>1. CASE Tasks!ReadClaimInstant(w)
  BY <1>1, ZenonT(30) DEF Tasks!ReadClaimInstant, TasksInv, Tasks!TypeOK,
              Tasks!DeliveredWasAccepted
<1>2. ASSUME NEW e \in Notifications, Tasks!Claim(w, e)
      PROVE  TasksInv'
  <2> DEFINE row == [rows[e] EXCEPT !.owner = w, !.lapsed = FALSE]
  <2>a. row \in Tasks!Row /\ row.delivered = rows[e].delivered
        /\ row.owner = w /\ ~row.lapsed
    BY <1>t, ZenonT(30)
  <2>b. rows' = [rows EXCEPT ![e] = row] /\ ~rows[e].delivered
    BY <1>2, <1>t DEF Tasks!Claim, Tasks!Claimable
  <2> HIDE DEF row
  <2>1. rows' \in [Notifications -> Tasks!Row]
    BY <2>a, <2>b, <1>t
  <2>2. \A n \in Notifications : /\ rows'[n].delivered = rows[n].delivered
                                 /\ n # e => rows'[n] = rows[n]
    BY <2>a, <2>b, <1>t
  <2>3. rows'[e].owner = w /\ ~rows'[e].lapsed /\ ~rows'[e].delivered
    BY <2>a, <2>b, <1>t
  <2>4. sender' \in [Workers -> Tasks!Process]
    BY <1>2, <1>t, ZenonT(30) DEF Tasks!Claim, Tasks!Written
  <2>5. /\ \A v \in Workers \ {w} : /\ sender'[v].phase = sender[v].phase
                                    /\ sender'[v].claim = sender[v].claim
        /\ sender'[w].phase = "sending" /\ sender'[w].claim = e
    BY <1>2, <1>t DEF Tasks!Claim, Tasks!Written
  <2>6. UNCHANGED <<accepted, stops>> /\ sentRows' = sentRows \cup {e}
    BY <1>2 DEF Tasks!Claim
  <2> HIDE DEF Tasks!Row, Tasks!Process, Tasks!Phases, Tasks!Idle, Tasks!Down
  <2>7. Tasks!TypeOK'
    <3>1. \A n \in Notifications : /\ rows'[n].delivered => rows'[n].owner = "nobody"
                                   /\ rows'[n].lapsed => rows'[n].owner # "nobody"
      BY <2>2, <2>3 DEF TasksInv, Tasks!TypeOK
    <3> QED
      BY <2>1, <2>4, <2>6, <3>1 DEF TasksInv, Tasks!TypeOK
  <2>8. Tasks!DeliveredWasAccepted'
    BY <2>2, <2>6 DEF TasksInv, Tasks!DeliveredWasAccepted
  <2> QED
    BY <2>5, <2>6, <2>7, <2>8 DEF TasksInv
<1>3. CASE Tasks!ClaimNothing(w)
  BY <1>3 DEF Tasks!ClaimNothing, TasksInv, Tasks!TypeOK, Tasks!DeliveredWasAccepted
<1>4. CASE Tasks!SendSucceeds(w)
  <2>1. /\ sender[w].phase = "sending" /\ sender[w].claim \in accepted
        /\ Tasks!Settle(w, "delivering")
        /\ UNCHANGED <<rows, accepted, sentRows, stops>>
    BY <1>4 DEF Tasks!SendSucceeds
  <2> QED
    BY <1>a, <2>1 DEF TasksInv, Tasks!TypeOK, Tasks!DeliveredWasAccepted
<1>5. CASE Tasks!SendFails(w)
  <2>1. /\ sender[w].phase = "sending" /\ Tasks!Settle(w, "retrying")
        /\ UNCHANGED <<rows, accepted, sentRows, stops>>
    BY <1>5 DEF Tasks!SendFails
  <2> QED
    BY <1>a, <2>1 DEF TasksInv, Tasks!TypeOK, Tasks!DeliveredWasAccepted
<1>6. CASE Tasks!Interrupt(w)
  <2>1. /\ sender[w].phase = "sending" /\ Tasks!Settle(w, "releasing")
        /\ UNCHANGED <<rows, accepted, sentRows>>
        /\ stops < MaximumStops /\ stops' = stops + 1
    BY <1>6 DEF Tasks!Interrupt
  <2>2. stops' \in 0 .. MaximumStops
    BY <1>0, <1>t, <2>1
  <2> QED
    BY <1>a, <2>1, <2>2 DEF TasksInv, Tasks!TypeOK, Tasks!DeliveredWasAccepted
<1>7. CASE Tasks!MarkDelivered(w)
  BY <1>0, <1>7 DEF Tasks!MarkDelivered, Tasks!Settles, Tasks!Written,
                    TasksInv, Tasks!TypeOK, Tasks!DeliveredWasAccepted
<1>8. CASE Tasks!RetryLater(w)
  BY <1>0, <1>8, SMTT(60) DEF Tasks!RetryLater, Tasks!Settles, Tasks!Written,
                    TasksInv, Tasks!TypeOK, Tasks!DeliveredWasAccepted
<1>9. CASE Tasks!LeaseLost(w)
  <2>1. /\ rows' = Tasks!Orphaned(w, rows)
        /\ sender' = [sender EXCEPT ![w] = Tasks!Down]
        /\ UNCHANGED <<accepted, sentRows, stops>>
    BY <1>9 DEF Tasks!LeaseLost
  <2> HIDE DEF Tasks!Row, Tasks!Process, Tasks!Phases, Tasks!Idle, Tasks!Down
  <2> QED
    BY <1>0, <1>b, <1>c, <1>t, <2>1 DEF TasksInv, Tasks!TypeOK, Tasks!DeliveredWasAccepted
<1>10. CASE Tasks!Stop(w)
  <2>1. /\ rows' = Tasks!Orphaned(w, rows)
        /\ sender' = [sender EXCEPT ![w] = Tasks!Down]
        /\ UNCHANGED <<accepted, sentRows>>
        /\ stops < MaximumStops /\ stops' = stops + 1
    BY <1>10 DEF Tasks!Stop
  <2>2. stops' \in 0 .. MaximumStops
    BY <1>0, <1>t, <2>1
  <2> HIDE DEF Tasks!Row, Tasks!Process, Tasks!Phases, Tasks!Idle, Tasks!Down
  <2> QED
    BY <1>0, <1>b, <1>c, <1>t, <2>1, <2>2 DEF TasksInv, Tasks!TypeOK, Tasks!DeliveredWasAccepted
<1>11. CASE Tasks!Start(w)
  BY <1>11 DEF Tasks!Start, TasksInv, Tasks!TypeOK, Tasks!DeliveredWasAccepted
<1> QED
  BY <1>1, <1>2, <1>3, <1>4, <1>5, <1>6, <1>7, <1>8, <1>9, <1>10, <1>11 DEF Tasks!Step

LEMMA TasksGoOn == TasksInv /\ Tasks!Next => TasksInv'
BY TasksAround, TasksStepped DEF Tasks!Next
-----------------------------------------------------------------------------
(* AuthenticationWork                                                      *)

Holders(places) == {c \in Calls : worker[c] \in places}

(* The permits that are not free are those of the workers that hold one.   *)
PermitsCounted ==
  /\ IsFiniteSet(Holders(HoldsAdmission))
  /\ active \in Nat /\ active = MaximumConcurrent - Cardinality(Holders(HoldsActive))
  /\ admitted \in Nat
  /\ admitted = MaximumConcurrent + MaximumQueued
                 - Cardinality(Holders(HoldsAdmission))

CallerPlaces == {"idle", "waiting", "timedOut", "joining", "leaving", "returned"}
Outcomes == {"none", "capacity", "timeout", "settlement", "result", "failure",
             "interrupted"}

FibersTyped ==
  /\ caller \in [Calls -> CallerPlaces]
  /\ outcome \in [Calls -> Outcomes]
  /\ worker \in [Calls -> HoldsAdmission \cup {"none", "done"}]
  /\ started \in [Calls -> BOOLEAN]
  /\ interrupted \in [Calls -> BOOLEAN]
  /\ aborted \in [Calls -> BOOLEAN]
  /\ work \in [Calls -> {"none", "pending", "result", "failure"}]
  /\ claim \in [Calls -> {"none", "result", "failure", "timeout", "cancellation"}]
  /\ settlement \in [Calls -> {"none", "pending", "ok", "rejected"}]

(* What the two fibers of a call can count on about each other: who        *)
(* claimed the settlement can be read off where they are, and work that    *)
(* ran does not come to its end before the settlement does.                *)
CallInv(c) ==
  /\ caller[c] = "idle" => worker[c] = "none"
  /\ worker[c] \in {"none", "queued"} => work[c] = "none"
  /\ work[c] = "pending" => worker[c] = "running"
  /\ outcome[c] # "none" => caller[c] = "returned"
  /\ interrupted[c] => caller[c] \in {"leaving", "returned"}
  /\ claim[c] = "none" <=> settlement[c] = "none"
  /\ claim[c] \in {"result", "failure"} => work[c] = claim[c]
  /\ claim[c] = "timeout" => caller[c] \in {"timedOut", "leaving", "returned"}
  /\ claim[c] = "cancellation" => interrupted[c]
  /\ caller[c] = "timedOut" => claim[c] = "timeout"
  /\ work[c] # "none" /\ worker[c] = "ending" => interrupted[c] \/ Settled(c)
  /\ work[c] # "none" /\ worker[c] \in {"releasing", "done"} => Settled(c)
  /\ outcome[c] \in {"result", "failure", "timeout"} =>
       claim[c] = outcome[c] /\ settlement[c] = "ok"

GateInv == FibersTyped /\ PermitsCounted /\ \A c \in Calls : CallInv(c)

LEMMA GateBegins == Init => GateInv
<1> SUFFICES ASSUME Init PROVE GateInv
  OBVIOUS
<1>1. FibersTyped
  BY DEF Init, FibersTyped, CallerPlaces, Outcomes
<1>2. Holders(HoldsActive) = {} /\ Holders(HoldsAdmission) = {}
  BY DEF Init, Holders, HoldsActive, HoldsAdmission
<1>3. PermitsCounted
  BY <1>2, FS_EmptySet, GateAssumption DEF Init, PermitsCounted
<1>4. \A c \in Calls : CallInv(c)
  BY DEF Init, CallInv, Settled
<1> QED
  BY <1>1, <1>3, <1>4 DEF GateInv

(* What a worker does to the set of the holders of a permit: it enters it, *)
(* leaves it, or does neither.                                             *)
LEMMA HoldersCounted ==
  ASSUME NEW places, NEW w \in Calls, NEW place, FibersTyped,
         IsFiniteSet(Holders(places)), worker' = [worker EXCEPT ![w] = place]
  PROVE  /\ IsFiniteSet(Holders(places))'
         /\ Cardinality(Holders(places)) \in Nat
         /\ (worker[w] \in places <=> place \in places) =>
              Cardinality(Holders(places))' = Cardinality(Holders(places))
         /\ worker[w] \notin places /\ place \in places =>
              Cardinality(Holders(places))' = Cardinality(Holders(places)) + 1
         /\ worker[w] \in places /\ place \notin places =>
              /\ Cardinality(Holders(places)) > 0
              /\ Cardinality(Holders(places))' = Cardinality(Holders(places)) - 1
<1> DEFINE H == Holders(places)
<1>1. Cardinality(H) \in Nat
  BY FS_CardinalityType
<1>2. CASE worker[w] \in places <=> place \in places
  <2>1. H' = H
    BY <1>2 DEF Holders, FibersTyped
  <2> QED
    BY <1>1, <1>2, <2>1
<1>3. CASE worker[w] \notin places /\ place \in places
  <2>1. H' = H \cup {w} /\ w \notin H
    BY <1>3 DEF Holders, FibersTyped
  <2> QED
    BY <1>1, <1>3, <2>1, FS_AddElement
<1>4. CASE worker[w] \in places /\ place \notin places
  <2>1. H' = H \ {w} /\ w \in H
    BY <1>4 DEF Holders, FibersTyped
  <2>2. IsFiniteSet(H') /\ Cardinality(H') = Cardinality(H) - 1
    BY <2>1, FS_RemoveElement
  <2>3. Cardinality(H) # 0
    BY <2>1, FS_EmptySet
  <2> QED
    BY <1>1, <1>4, <2>2, <2>3
<1> QED
  BY <1>2, <1>3, <1>4

(* The permits stay counted when a worker moves and gives or takes what the *)
(* new place asks for.                                                      *)
LEMMA PermitsMove ==
  ASSUME GateInv, NEW w \in Calls, NEW place, worker' = [worker EXCEPT ![w] = place],
         \/ (worker[w] \in HoldsActive <=> place \in HoldsActive) /\ active' = active
         \/ /\ worker[w] \notin HoldsActive /\ place \in HoldsActive
            /\ active > 0 /\ active' = active - 1
         \/ /\ worker[w] \in HoldsActive /\ place \notin HoldsActive
            /\ active' = active + 1,
         \/ /\ worker[w] \in HoldsAdmission <=> place \in HoldsAdmission
            /\ admitted' = admitted
         \/ /\ worker[w] \notin HoldsAdmission /\ place \in HoldsAdmission
            /\ admitted > 0 /\ admitted' = admitted - 1
         \/ /\ worker[w] \in HoldsAdmission /\ place \notin HoldsAdmission
            /\ admitted' = admitted + 1
  PROVE  PermitsCounted'
<1>0. Holders(HoldsActive) \subseteq Holders(HoldsAdmission)
  BY DEF Holders, HoldsAdmission
<1>1. IsFiniteSet(Holders(HoldsActive)) /\ IsFiniteSet(Holders(HoldsAdmission))
  BY <1>0, FS_Subset DEF GateInv, PermitsCounted
<1>2. FibersTyped /\ MaximumConcurrent \in Nat /\ MaximumQueued \in Nat
  BY GateAssumption DEF GateInv
<1> DEFINE a == Cardinality(Holders(HoldsActive))
           h == Cardinality(Holders(HoldsAdmission))
<1>3. /\ a \in Nat
      /\ (worker[w] \in HoldsActive <=> place \in HoldsActive) => a' = a
      /\ worker[w] \notin HoldsActive /\ place \in HoldsActive => a' = a + 1
      /\ worker[w] \in HoldsActive /\ place \notin HoldsActive => a > 0 /\ a' = a - 1
  BY <1>1, <1>2, HoldersCounted DEF HoldsActive
<1>4. /\ IsFiniteSet(Holders(HoldsAdmission))' /\ h \in Nat
      /\ (worker[w] \in HoldsAdmission <=> place \in HoldsAdmission) => h' = h
      /\ worker[w] \notin HoldsAdmission /\ place \in HoldsAdmission => h' = h + 1
      /\ worker[w] \in HoldsAdmission /\ place \notin HoldsAdmission =>
           h > 0 /\ h' = h - 1
  BY <1>1, <1>2, HoldersCounted DEF HoldsActive, HoldsAdmission
<1>5. /\ active \in Nat /\ active = MaximumConcurrent - a
      /\ admitted \in Nat /\ admitted = MaximumConcurrent + MaximumQueued - h
  BY DEF GateInv, PermitsCounted
<1> HIDE DEF a, h
<1>6. active' \in Nat /\ active' = MaximumConcurrent - a'
  BY <1>2, <1>3, <1>5
<1>7. admitted' \in Nat /\ admitted' = MaximumConcurrent + MaximumQueued - h'
  BY <1>2, <1>4, <1>5
<1> QED
  BY <1>4, <1>6, <1>7 DEF PermitsCounted, a, h

LEMMA PermitsStay ==
  ASSUME GateInv, UNCHANGED <<permits, worker>>
  PROVE  PermitsCounted'
BY DEF GateInv, PermitsCounted, permits, Holders

-----------------------------------------------------------------------------
(* The steps that take and return permits.                                 *)

LEMMA PermitStepsKeep ==
  ASSUME GateInv, NEW c \in Calls,
         \/ Admit(c) \/ Start(c) \/ LeaveQueue(c) \/ NotifyWork(c)
         \/ AwaitSettlement(c) \/ EndWork(c) \/ AwaitCancellation(c)
         \/ ReleaseAdmission(c)
  PROVE  GateInv'
<1> USE DEF HoldsActive, HoldsAdmission
<1>0. /\ FibersTyped /\ \A d \in Calls : CallInv(d)
      /\ active \in Nat /\ admitted \in Nat
  BY DEF GateInv, PermitsCounted
<1>1. CASE Admit(c)
  <2>1. PermitsCounted'
    <3>1. /\ worker[c] = "none" /\ worker' = [worker EXCEPT ![c] = "queued"]
          /\ admitted > 0 /\ admitted' = admitted - 1 /\ active' = active
      BY <1>0, <1>1 DEF Admit, CallInv
    <3> QED
      BY <1>0, <3>1, PermitsMove
  <2>2. FibersTyped' /\ \A d \in Calls : CallInv(d)'
    BY <1>0, <1>1 DEF Admit, FibersTyped, CallInv, CallerPlaces, Settled,
                      signals, settlementVars
  <2> QED
    BY <2>1, <2>2 DEF GateInv
<1>2. CASE Start(c)
  <2>1. PermitsCounted'
    <3>1. PICK place \in {"ending", "running"} : worker' = [worker EXCEPT ![c] = place]
      BY <1>2 DEF Start
    <3>2. /\ worker[c] = "queued" /\ active > 0 /\ active' = active - 1
          /\ admitted' = admitted
      BY <1>2 DEF Start
    <3> QED
      BY <1>0, <3>1, <3>2, PermitsMove
  <2>2. FibersTyped' /\ \A d \in Calls : CallInv(d)'
    BY <1>0, <1>2 DEF Start, FibersTyped, CallInv, Settled, callerVars,
                      signals, settlementVars
  <2> QED
    BY <2>1, <2>2 DEF GateInv
<1>3. CASE LeaveQueue(c)
  <2>1. PermitsCounted'
    <3>1. /\ worker[c] = "queued" /\ worker' = [worker EXCEPT ![c] = "releasing"]
          /\ active' = active /\ admitted' = admitted
      BY <1>3 DEF LeaveQueue, permits
    <3> QED
      BY <1>0, <3>1, PermitsMove
  <2>2. FibersTyped' /\ \A d \in Calls : CallInv(d)'
    BY <1>0, <1>3 DEF LeaveQueue, FibersTyped, CallInv, Settled, callerVars,
                      signals, settlementVars
  <2> QED
    BY <2>1, <2>2 DEF GateInv
<1>4. CASE NotifyWork(c)
  <2>1. PermitsCounted'
    <3>1. PICK place \in {"ending", "settling"} : worker' = [worker EXCEPT ![c] = place]
      BY <1>4 DEF NotifyWork
    <3>2. worker[c] = "running" /\ active' = active /\ admitted' = admitted
      BY <1>4 DEF NotifyWork, permits
    <3> QED
      BY <1>0, <3>1, <3>2, PermitsMove
  <2>2. FibersTyped' /\ \A d \in Calls : CallInv(d)'
    BY <1>0, <1>4 DEF NotifyWork, BeginSettlement, FibersTyped, CallInv, Settled,
                      callerVars, signals, settlementVars
  <2> QED
    BY <2>1, <2>2 DEF GateInv
<1>5. CASE AwaitSettlement(c)
  <2>1. PermitsCounted'
    <3>1. /\ worker[c] = "settling" /\ worker' = [worker EXCEPT ![c] = "ending"]
          /\ active' = active /\ admitted' = admitted
      BY <1>5 DEF AwaitSettlement, permits
    <3> QED
      BY <1>0, <3>1, PermitsMove
  <2>2. FibersTyped' /\ \A d \in Calls : CallInv(d)'
    BY <1>0, <1>5 DEF AwaitSettlement, FibersTyped, CallInv, Settled, callerVars,
                      signals, settlementVars
  <2> QED
    BY <2>1, <2>2 DEF GateInv
<1>6. CASE EndWork(c)
  <2>1. PermitsCounted'
    <3>1. worker[c] = "ending" /\ admitted' = admitted
      BY <1>6 DEF EndWork
    <3>2. CASE interrupted[c]
      BY <1>0, <1>6, <3>1, <3>2, PermitsMove DEF EndWork
    <3>3. CASE ~interrupted[c]
      BY <1>0, <1>6, <3>1, <3>3, PermitsMove DEF EndWork, ReleaseActive
    <3> QED
      BY <3>2, <3>3
  <2>2. FibersTyped' /\ \A d \in Calls : CallInv(d)'
    BY <1>0, <1>6 DEF EndWork, ReleaseActive, BeginSettlement, FibersTyped, CallInv,
                      Settled, callerVars, signals, settlementVars
  <2> QED
    BY <2>1, <2>2 DEF GateInv
<1>7. CASE AwaitCancellation(c)
  <2>1. PermitsCounted'
    <3>1. /\ worker[c] = "cancelling" /\ worker' = [worker EXCEPT ![c] = "releasing"]
          /\ active' = active + 1 /\ admitted' = admitted
      BY <1>7 DEF AwaitCancellation, ReleaseActive
    <3> QED
      BY <1>0, <3>1, PermitsMove
  <2>2. FibersTyped' /\ \A d \in Calls : CallInv(d)'
    BY <1>0, <1>7 DEF AwaitCancellation, ReleaseActive, FibersTyped, CallInv, Settled,
                      callerVars, signals, settlementVars
  <2> QED
    BY <2>1, <2>2 DEF GateInv
<1>8. CASE ReleaseAdmission(c)
  <2>1. PermitsCounted'
    <3>1. /\ worker[c] = "releasing" /\ worker' = [worker EXCEPT ![c] = "done"]
          /\ active' = active /\ admitted' = admitted + 1
      BY <1>8 DEF ReleaseAdmission
    <3> QED
      BY <1>0, <3>1, PermitsMove
  <2>2. FibersTyped' /\ \A d \in Calls : CallInv(d)'
    BY <1>0, <1>8 DEF ReleaseAdmission, FibersTyped, CallInv, Settled, callerVars,
                      signals, settlementVars
  <2> QED
    BY <2>1, <2>2 DEF GateInv
<1> QED
  BY <1>1, <1>2, <1>3, <1>4, <1>5, <1>6, <1>7, <1>8

(* The steps of the caller, of the work and of the settlement's callback.  *)
LEMMA OtherStepsKeep ==
  ASSUME GateInv, NEW c \in Calls,
         \/ RejectAtCapacity(c) \/ CallerStep(c) \/ Interrupt(c) \/ SettleStep(c)
         \/ \E result \in {"result", "failure"} : SettleWork(c, result)
  PROVE  GateInv'
<1> USE DEF GateInv
<1>0. FibersTyped /\ \A d \in Calls : CallInv(d)
  OBVIOUS
<1>p. PermitsCounted'
  BY PermitsStay DEF RejectAtCapacity, CallerStep, Interrupt, SettleStep, Settle,
     SettleWork, TimeOut, ReturnTimeout, Join, ReturnJoined, ReturnInterrupted,
     workerVars, permits
<1> USE DEF FibersTyped, CallInv, CallerPlaces, Outcomes, Settled, HoldsAdmission,
            HoldsActive, Answer, workerVars, signals, settlementVars
<1>1. CASE RejectAtCapacity(c)
  BY <1>0, <1>p, <1>1 DEF RejectAtCapacity
<1>2. CASE TimeOut(c)
  BY <1>0, <1>p, <1>2 DEF TimeOut, BeginSettlement
<1>3. CASE ReturnTimeout(c)
  BY <1>0, <1>p, <1>3 DEF ReturnTimeout
<1>4. CASE Join(c)
  BY <1>0, <1>p, <1>4 DEF Join
<1>5. CASE ReturnJoined(c)
  BY <1>0, <1>p, <1>5 DEF ReturnJoined
<1>6. CASE ReturnInterrupted(c)
  BY <1>0, <1>p, <1>6 DEF ReturnInterrupted
<1>7. CASE Interrupt(c)
  BY <1>0, <1>p, <1>7 DEF Interrupt
<1>8. CASE SettleStep(c)
  BY <1>0, <1>p, <1>8 DEF SettleStep, Settle, callerVars
<1>9. ASSUME NEW result \in {"result", "failure"}, SettleWork(c, result)
      PROVE  GateInv'
  BY <1>0, <1>p, <1>9 DEF SettleWork, callerVars
<1> QED
  BY <1>1, <1>2, <1>3, <1>4, <1>5, <1>6, <1>7, <1>8, <1>9 DEF CallerStep

LEMMA GateGoesOn == GateInv /\ Next => GateInv'
BY PermitStepsKeep, OtherStepsKeep DEF Next, WorkerStep
-----------------------------------------------------------------------------
(* LogRotation                                                             *)

(* The engine: the log it has opened is truncated by nobody else, and from *)
(* the link of the archive on what it has seen of it is archived.          *)
RunInv ==
  /\ engine.pc \in Logs!EngineSteps =>
       /\ engine.view.file <= logFile.number
       /\ engine.view.file = logFile.number => engine.view.start = logFile.start
       /\ engine.pc # "emptied" => engine.view.start < engine.view.end
  /\ engine.pc \in {"linked", "archived", "marked", "verified"} =>
       \E i \in DOMAIN archives : /\ archives[i].first = engine.view.start + 1
                                 /\ archives[i].last = engine.view.end
  /\ engine.pc \in {"marked", "verified", "emptied", "truncated"} =>
       projection.state = "rotating"

(* An epoch that a reader or the tracker has seen is over as soon as the   *)
(* log is being truncated again.                                           *)
Seen(epoch) == /\ epoch <= projection.epoch
               /\ projection.state = "rotating" => epoch < projection.epoch

(* A view of the log in its present epoch begins where the log begins.     *)
Fits(view, epoch) ==
  /\ view.file <= logFile.number
  /\ epoch = projection.epoch /\ view.file = logFile.number =>
       view.start = logFile.start

ReadersInv ==
  /\ reader.pc \in {"probed", "read"} => Seen(reader.epoch)
  /\ reader.pc = "read" => Fits(reader.view, reader.epoch)
  /\ tracker # None =>
       /\ Seen(tracker.epoch) /\ Fits(tracker.view, tracker.epoch)
       /\ tracker.began = tracker.view.start
  /\ /\ reader.pc = "read" /\ reader.epoch = projection.epoch
     /\ tracker # None /\ tracker.epoch = projection.epoch
     /\ reader.view.file = tracker.view.file
     => reader.view.start = tracker.view.start

LogsInv ==
  /\ Logs!TypeOK
  /\ logFile.start <= written
  /\ ~logFile.present => logFile.number < MaximumFiles
  /\ RunInv /\ ReadersInv

LEMMA LogsBegin == Logs!Init => LogsInv
<1>1. /\ MaximumLines \in Nat /\ MaximumFiles \in Nat \ {0}
      /\ MaximumFailures \in Nat /\ RetentionCount \in Nat \ {0}
  BY ConstantsMeetAssumptions DEF Logs!RotationAssumption
<1> QED
  BY <1>1 DEF Logs!Init, LogsInv, Logs!TypeOK, Logs!Lines, Logs!Idle, Logs!EngineSteps,
              RunInv, ReadersInv

(* Which records the places of the engine and of the reader stand for.     *)
LEMMA LogsPlaces ==
  ASSUME LogsInv
  PROVE  /\ MaximumLines \in Nat /\ MaximumFiles \in Nat \ {0}
         /\ MaximumFailures \in Nat /\ RetentionCount \in Nat \ {0}
         /\ written \in 0 .. MaximumLines
         /\ logFile \in [number : 1 .. MaximumFiles, start : 0 .. MaximumLines,
                         present : BOOLEAN, trusted : BOOLEAN]
         /\ engine.pc \in Logs!EngineSteps =>
              engine \in [pc : Logs!EngineSteps, view : Logs!View]
         /\ reader.pc = "probed" => reader \in [pc : {"probed"}, epoch : Nat]
         /\ reader.pc = "read" => reader \in [pc : {"read"}, epoch : Nat, view : Logs!View]
         /\ tracker # None =>
              tracker \in [view : Logs!View, epoch : Nat, began : 0 .. MaximumLines]
<1>1. /\ MaximumLines \in Nat /\ MaximumFiles \in Nat \ {0}
      /\ MaximumFailures \in Nat /\ RetentionCount \in Nat \ {0}
  BY ConstantsMeetAssumptions DEF Logs!RotationAssumption
<1> QED
  BY <1>1 DEF LogsInv, Logs!TypeOK, Logs!Lines, Logs!Idle, Logs!EngineSteps

(* Others write the log, move it away, and change its owner or mode.       *)
LEMMA LogsWritten ==
  ASSUME LogsInv, Logs!WriteLine \/ Logs!RemoveLog \/ Logs!ChangeAccess
  PROVE  LogsInv'
<1> USE LogsPlaces DEF Logs!View
<1>1. CASE Logs!WriteLine
  <2>1. Logs!TypeOK'
    <3>1. written' \in 0 .. MaximumLines
      BY <1>1 DEF Logs!WriteLine
    <3>2. logFile' \in [number : 1 .. MaximumFiles, start : 0 .. MaximumLines,
                       present : BOOLEAN, trusted : BOOLEAN]
      <4>1. CASE logFile.present
        BY <1>1, <4>1 DEF Logs!WriteLine
      <4>2. CASE ~logFile.present
        <5>1. logFile.number + 1 \in 1 .. MaximumFiles
          BY <4>2 DEF LogsInv
        <5>2. logFile' = [number |-> logFile.number + 1, start |-> written,
                          present |-> TRUE, trusted |-> TRUE]
          BY <1>1, <4>2 DEF Logs!WriteLine
        <5> QED
          BY <5>1, <5>2
      <4> QED
        BY <4>1, <4>2
    <3> QED
      BY <1>1, <3>1, <3>2
         DEF Logs!WriteLine, LogsInv, Logs!TypeOK, Logs!Lines, Logs!readerVars
  <2>2. RunInv'
    BY <1>1 DEF Logs!WriteLine, LogsInv, RunInv, Logs!EngineSteps
  <2>3. ReadersInv'
    BY <1>1 DEF Logs!WriteLine, LogsInv, ReadersInv, Seen, Fits, Logs!readerVars
  <2> QED
    BY <1>1, <2>1, <2>2, <2>3 DEF Logs!WriteLine, LogsInv
<1>2. CASE Logs!RemoveLog
  <2>1. Logs!TypeOK'
    BY <1>2 DEF Logs!RemoveLog, LogsInv, Logs!TypeOK, Logs!Lines, Logs!readerVars
  <2>2. RunInv' /\ ReadersInv'
    BY <1>2 DEF Logs!RemoveLog, LogsInv, RunInv, ReadersInv, Seen, Fits, Logs!readerVars
  <2> QED
    BY <1>2, <2>1, <2>2 DEF Logs!RemoveLog, LogsInv
<1>3. CASE Logs!ChangeAccess
  <2>1. /\ logFile'.number = logFile.number /\ logFile'.start = logFile.start
        /\ logFile'.present = logFile.present /\ logFile' \in
             [number : 1 .. MaximumFiles, start : 0 .. MaximumLines,
              present : BOOLEAN, trusted : BOOLEAN]
        /\ UNCHANGED <<written, archives, projection, engine, Logs!readerVars>>
    BY <1>3 DEF Logs!ChangeAccess
  <2>2. failures' \in 0 .. MaximumFailures
    BY <1>3 DEF Logs!ChangeAccess, LogsInv, Logs!TypeOK
  <2>3. Logs!TypeOK'
    BY <2>1, <2>2 DEF LogsInv, Logs!TypeOK, Logs!Lines, Logs!readerVars
  <2>4. RunInv' /\ ReadersInv'
    BY <2>1 DEF LogsInv, RunInv, ReadersInv, Seen, Fits, Logs!readerVars
  <2> QED
    BY <2>1, <2>3, <2>4 DEF LogsInv
<1> QED
  BY <1>1, <1>2, <1>3

(* A run that only moves on.                                               *)
LEMMA LogsOpened ==
  ASSUME LogsInv,
         \/ Logs!RunWithoutLog \/ \E due \in BOOLEAN : Logs!Run(due)
         \/ Logs!Verify \/ Logs!RetentionThrows \/ Logs!VerificationFails \/ Logs!Stop
  PROVE  LogsInv'
<1> USE LogsPlaces DEF Logs!View, Logs!Idle, Logs!Retaining, Logs!EngineSteps,
                       Logs!disk, Logs!readerVars, Logs!Lines
<1>1. CASE Logs!RunWithoutLog
  BY <1>1 DEF Logs!RunWithoutLog, LogsInv, Logs!TypeOK, RunInv, ReadersInv, Seen, Fits
<1>2. ASSUME NEW due \in BOOLEAN, Logs!Run(due)
      PROVE  LogsInv'
  <2> DEFINE seen == [file |-> logFile.number, start |-> logFile.start, end |-> written]
  <2>1. /\ logFile.present /\ UNCHANGED <<Logs!disk, Logs!readerVars, failures>>
        /\ \/ engine' = [pc |-> "retaining"]
           \/ engine' = [pc |-> "emptied", view |-> seen] /\ projection.state = "rotating"
           \/ engine' = [pc |-> "opened", view |-> seen] /\ written # logFile.start
    BY <1>2 DEF Logs!Run, Logs!Current
  <2>2. seen \in Logs!View
    OBVIOUS
  <2> QED
    BY <2>1, <2>2, SMTT(30) DEF LogsInv, Logs!TypeOK, RunInv, ReadersInv, Seen, Fits
<1>3. CASE Logs!Verify
  BY <1>3 DEF Logs!Verify, Logs!Proceed, LogsInv, Logs!TypeOK, RunInv, ReadersInv,
              Seen, Fits
<1>4. CASE Logs!RetentionThrows \/ Logs!VerificationFails
  <2>1. engine' = [pc |-> "idle"] /\ UNCHANGED <<Logs!disk, Logs!readerVars, failures>>
    BY <1>4 DEF Logs!RetentionThrows, Logs!VerificationFails
  <2> QED
    BY <2>1 DEF LogsInv, Logs!TypeOK, RunInv, ReadersInv, Seen, Fits
<1>5. CASE Logs!Stop
  BY <1>5 DEF Logs!Stop, LogsInv, Logs!TypeOK, RunInv, ReadersInv, Seen, Fits
<1> QED
  BY <1>1, <1>2, <1>3, <1>4, <1>5

(* The steps that archive, mark and truncate.                              *)
LEMMA LogsRotated ==
  ASSUME LogsInv,
         \/ Logs!LinkArchive \/ Logs!UnlinkStage \/ Logs!MarkRotating
         \/ Logs!Truncate \/ Logs!Commit \/ Logs!Retain
  PROVE  LogsInv'
<1> USE LogsPlaces DEF Logs!View, Logs!Idle, Logs!Retaining, Logs!EngineSteps,
                       Logs!disk, Logs!readerVars, Logs!Lines, Logs!Proceed
<1>0. archives \in Seq(Logs!Archive)
  BY DEF LogsInv, Logs!TypeOK
<1>p. projection \in [epoch : Nat, state : {"none", "rotating", "committed"}]
  BY DEF LogsInv, Logs!TypeOK
<1>1. CASE Logs!LinkArchive
  <2> DEFINE new == [first |-> engine.view.start + 1, last |-> engine.view.end, links |-> 2]
  <2>1. new \in Logs!Archive
    BY <1>1 DEF Logs!LinkArchive, LogsInv, RunInv, Logs!Archive
  <2>2. /\ archives' = Append(archives, new) /\ engine.pc = "opened"
        /\ engine' = [engine EXCEPT !.pc = "linked"]
        /\ UNCHANGED <<written, logFile, projection, Logs!readerVars, failures>>
    BY <1>1 DEF Logs!LinkArchive
  <2>a. new.first = engine.view.start + 1 /\ new.last = engine.view.end
    OBVIOUS
  <2> HIDE DEF new
  <2>3. /\ archives' \in Seq(Logs!Archive) /\ Len(archives) + 1 \in DOMAIN archives'
        /\ archives'[Len(archives) + 1] = new
    BY <1>0, <2>1, <2>2
  <2>4. Logs!TypeOK'
    BY <2>2, <2>3 DEF LogsInv, Logs!TypeOK
  <2>5. RunInv'
    BY <2>2, <2>3, <2>a DEF LogsInv, RunInv
  <2>6. ReadersInv'
    BY <2>2 DEF LogsInv, ReadersInv, Seen, Fits
  <2> QED
    BY <2>2, <2>4, <2>5, <2>6 DEF LogsInv
<1>2. CASE Logs!UnlinkStage
  <2>1. /\ archives' = [archives EXCEPT ![Len(archives)].links = 1]
        /\ engine.pc = "linked" /\ engine' = [engine EXCEPT !.pc = "archived"]
        /\ UNCHANGED <<written, logFile, projection, Logs!readerVars, failures>>
    BY <1>2 DEF Logs!UnlinkStage
  <2> DEFINE n == Len(archives)
             last == [archives[n] EXCEPT !.links = 1]
  <2>a. archives[n] \in Logs!Archive /\ n \in 1 .. Len(archives)
    BY <1>0, <2>1 DEF LogsInv, RunInv
  <2>b. /\ last \in Logs!Archive /\ last.first = archives[n].first
        /\ last.last = archives[n].last
    BY <2>a, SMTT(30) DEF Logs!Archive
  <2>c. archives' = [archives EXCEPT ![n] = last]
    BY <2>1
  <2> HIDE DEF n, last
  <2>2. archives' \in Seq(Logs!Archive)
    BY <1>0, <2>a, <2>b, <2>c, ExceptSeq
  <2>3. /\ DOMAIN archives' = DOMAIN archives
        /\ \A i \in DOMAIN archives : /\ archives'[i].first = archives[i].first
                                     /\ archives'[i].last = archives[i].last
    BY <1>0, <2>b, <2>c
  <2>4. Logs!TypeOK'
    BY <2>1, <2>2 DEF LogsInv, Logs!TypeOK
  <2>5. RunInv'
    BY <2>1, <2>3 DEF LogsInv, RunInv
  <2>6. ReadersInv'
    BY <2>1 DEF LogsInv, ReadersInv, Seen, Fits
  <2> QED
    BY <2>1, <2>4, <2>5, <2>6 DEF LogsInv
<1>3. CASE Logs!MarkRotating
  <2>0. /\ engine.pc = "archived" /\ engine' = [engine EXCEPT !.pc = "marked"]
        /\ UNCHANGED <<written, logFile, archives, Logs!readerVars, failures>>
        /\ projection' = IF projection.state = "rotating" THEN projection
                         ELSE [epoch |-> projection.epoch + 1, state |-> "rotating"]
    BY <1>3 DEF Logs!MarkRotating
  <2>a. projection' \in [epoch : Nat, state : {"none", "rotating", "committed"}]
    BY <2>0, <1>p
  <2>b. engine' \in [pc : Logs!EngineSteps, view : Logs!View]
    BY <2>0
  <2>c. projection'.state = "rotating" /\ \A epoch \in Nat : Seen(epoch) => Seen(epoch)'
                                                        /\ epoch < projection'.epoch
    BY <2>0, <1>p DEF Seen
  <2>1. Logs!TypeOK'
    BY <2>0, <2>a, <2>b DEF LogsInv, Logs!TypeOK
  <2>2. RunInv'
    BY <1>3 DEF Logs!MarkRotating, LogsInv, Logs!TypeOK, RunInv
  <2>3. ReadersInv'
    BY <2>0, <2>a, <2>c DEF LogsInv, ReadersInv, Fits
  <2> QED
    BY <1>3, <2>1, <2>2, <2>3 DEF Logs!MarkRotating, LogsInv
<1>4. CASE Logs!Truncate
  <2>1. Logs!TypeOK'
    BY <1>4, ZenonT(30) DEF Logs!Truncate, LogsInv, Logs!TypeOK
  <2>2. RunInv'
    BY <1>4 DEF Logs!Truncate, LogsInv, Logs!TypeOK, RunInv
  <2>3. ReadersInv'
    <3>1. /\ projection.state = "rotating" /\ logFile'.number = logFile.number
          /\ UNCHANGED <<projection, Logs!readerVars>>
      BY <1>4 DEF Logs!Truncate, LogsInv, RunInv
    <3>2. \A epoch \in Nat : Seen(epoch) => Seen(epoch)' /\ epoch # projection.epoch
      BY <1>p, <3>1 DEF Seen
    <3> QED
      BY <1>p, <3>1, <3>2 DEF LogsInv, ReadersInv, Fits
  <2> QED
    BY <1>4, <2>1, <2>2, <2>3 DEF Logs!Truncate, LogsInv
<1>5. CASE Logs!Commit
  <2>1. Logs!TypeOK'
    BY <1>5 DEF Logs!Commit, LogsInv, Logs!TypeOK
  <2>2. RunInv' /\ ReadersInv'
    BY <1>5 DEF Logs!Commit, LogsInv, Logs!TypeOK, RunInv, ReadersInv, Seen, Fits
  <2> QED
    BY <1>5, <2>1, <2>2 DEF Logs!Commit, LogsInv
<1>6. CASE Logs!Retain
  <2>1. /\ engine' = [pc |-> "idle"]
        /\ UNCHANGED <<written, logFile, projection, Logs!readerVars, failures>>
    BY <1>6 DEF Logs!Retain
  <2>2. archives' \in Seq(Logs!Archive)
    <3>1. CASE Len(archives) <= RetentionCount
      BY <1>0, <1>6, <3>1 DEF Logs!Retain
    <3>2. CASE ~(Len(archives) <= RetentionCount)
      <4> DEFINE m == Len(archives) - RetentionCount + 1
      <4>1. Len(archives) \in Nat /\ m \in 1 .. Len(archives)
        BY <1>0, <3>2
      <4>2. \A i \in m .. Len(archives) : archives[i] \in Logs!Archive
        BY <1>0, <4>1
      <4>3. archives' = SubSeq(archives, m, Len(archives))
        BY <1>6, <3>2 DEF Logs!Retain
      <4> HIDE DEF m
      <4> QED
        BY <4>1, <4>2, <4>3, SubSeqProperties
    <3> QED
      BY <3>1, <3>2
  <2> QED
    BY <2>1, <2>2 DEF LogsInv, Logs!TypeOK, RunInv, ReadersInv, Seen, Fits
<1> QED
  BY <1>1, <1>2, <1>3, <1>4, <1>5, <1>6

(* The reader and its tracker.                                             *)
LEMMA LogsRead ==
  ASSUME LogsInv,
         Logs!ProbeBefore \/ Logs!ReadWindow \/ Logs!ProbeAfter \/ Logs!RestartWeb
  PROVE  LogsInv'
<1> USE LogsPlaces DEF Logs!View, Logs!Idle, Logs!disk, Logs!Lines
<1>0. projection \in [epoch : Nat, state : {"none", "rotating", "committed"}]
  BY DEF LogsInv, Logs!TypeOK
<1>1. CASE Logs!ProbeBefore
  <2>1. Logs!TypeOK'
    BY <1>0, <1>1 DEF Logs!ProbeBefore, LogsInv, Logs!TypeOK
  <2>2. RunInv' /\ ReadersInv'
    BY <1>0, <1>1 DEF Logs!ProbeBefore, LogsInv, RunInv, ReadersInv, Seen, Fits
  <2> QED
    BY <1>1, <2>1, <2>2 DEF Logs!ProbeBefore, LogsInv
<1>2. CASE Logs!ReadWindow
  <2> DEFINE seen == [file |-> logFile.number, start |-> logFile.start, end |-> written]
  <2>1. /\ \/ reader' = [pc |-> "idle"]
           \/ reader' = [pc |-> "read", epoch |-> reader.epoch, view |-> seen]
        /\ reader.pc = "probed" /\ UNCHANGED <<Logs!disk, engine, tracker, failures>>
    BY <1>2 DEF Logs!ReadWindow, Logs!Current
  <2>2. seen \in Logs!View
    OBVIOUS
  <2>3. Logs!TypeOK'
    BY <2>1, <2>2 DEF LogsInv, Logs!TypeOK
  <2>4. RunInv' /\ ReadersInv'
    BY <1>0, <2>1 DEF LogsInv, RunInv, ReadersInv, Seen, Fits
  <2> QED
    BY <2>1, <2>3, <2>4 DEF LogsInv
<1>3. CASE Logs!ProbeAfter
  <2> DEFINE seen == Logs!Recorded(reader.view, reader.epoch)
  <2>1. /\ \/ tracker' = tracker
           \/ tracker' = seen /\ reader.epoch = projection.epoch
        /\ reader.pc = "read" /\ reader' = [pc |-> "idle"]
        /\ UNCHANGED <<Logs!disk, engine, failures>>
    BY <1>3 DEF Logs!ProbeAfter
  <2>2. /\ seen \in [view : Logs!View, epoch : Nat, began : 0 .. MaximumLines]
        /\ seen.view = reader.view /\ seen.epoch = reader.epoch
    BY <2>1 DEF Logs!Recorded
  <2>3. reader.epoch = projection.epoch => seen.began = seen.view.start
    BY <2>1 DEF Logs!Recorded, LogsInv, ReadersInv
  <2> HIDE DEF seen
  <2>4. Logs!TypeOK'
    BY <2>1, <2>2 DEF LogsInv, Logs!TypeOK
  <2>5. RunInv' /\ ReadersInv'
    BY <1>0, <2>1, <2>2, <2>3 DEF LogsInv, RunInv, ReadersInv, Seen, Fits
  <2> QED
    BY <2>1, <2>4, <2>5 DEF LogsInv
<1>4. CASE Logs!RestartWeb
  BY <1>4 DEF Logs!RestartWeb, LogsInv, Logs!TypeOK, RunInv, ReadersInv, Seen, Fits
<1> QED
  BY <1>1, <1>2, <1>3, <1>4

LEMMA LogsGoOn == LogsInv /\ Logs!Next => LogsInv'
BY LogsWritten, LogsOpened, LogsRotated, LogsRead DEF Logs!Next, Logs!EngineStep
-----------------------------------------------------------------------------
(* ReleaseActivation                                                       *)

(* What a record offers is there: both releases, and the snapshot that the *)
(* previous one goes back to.                                              *)
Kept(pair) ==
  pair # None =>
    /\ pair.current \in artifacts
    /\ pair.previous # None =>
         /\ pair.previous.release \in artifacts
         /\ snapshots[pair.previous.snapshot] = pair.previous.release

(* The record is older than transition id.                                 *)
Older(pair, id) ==
  pair # None => /\ pair.transition < id
                 /\ pair.previous # None => pair.previous.snapshot < id

(* The live database is of the release that the record names.              *)
LiveFits(pair) == pair # None => live # None /\ live.schema = pair.current

(* Without a journal the record, the database and the processes agree.     *)
SettledInv ==
  journal = None => LiveFits(activation) /\ Release!WithoutJournalAuthoritativeRuns

(* With a journal the record still is the previous one or, once the        *)
(* candidate's database was promoted, the one the journal announces.  The  *)
(* previous database is the live file until the journal says that it may   *)
(* be replaced, and in the snapshot from then on.                          *)
JournalInv ==
  journal # None =>
    LET previous == journal.previousActivation
    IN /\ Kept(previous) /\ Older(previous, journal.transition)
       /\ journal.transition <= transitions
       /\ \/ activation = previous
          \/ /\ Release!Committed
             /\ journal.phase \in {"database-promoted", "rollback-required"}
       /\ journal.phase = "service-stop-requested" =>
            activation = previous /\ LiveFits(previous)
       /\ journal.phase # "service-stop-requested" /\ previous # None =>
            snapshots[journal.transition] = previous.current
       /\ live # None /\ live.recorded => LiveFits(previous)
       /\ Release!Committed /\ journal.phase = "database-promoted" =>
            live # None /\ live.schema = journal.candidate

(* The points of the deployer at which no journal exists, at which it has  *)
(* written one itself, at which it resumes and at which it rolls back what *)
(* a journal names, and at which it has stopped the processes.             *)
Unjournaled == {"recovered", "admitted", "reapplied", "journal", "retain",
                "retainAdmitted", "restart"}
Replacing == {"stop", "snapshot", "record"}
Preparing == {"workspace", "migrate", "promote", "markPromoted"}
Promoting == {"start", "verify", "markRollback", "commit"}
Committing == {"settle", "discard", "clear"}
Resuming == {"resumed", "resumeMarkRollback", "resumeSettle", "resumeDiscard",
             "resumeClear"}
Restoring == {"inspect", "remove", "copySnapshot", "restore"}
Restored == {"rollbackDiscard", "rollbackStart", "rollbackReady", "rollbackClear"}
Stopped == {"snapshot", "record", "inspect", "remove", "copySnapshot", "restore",
            "rollbackRecord", "rollbackDiscard", "rollbackStart", "start"}
             \cup Preparing

(* The transition under way is that of the journal.                        *)
OwnTransition ==
  /\ deployer.at \in Replacing \cup Preparing \cup Promoting \cup Committing =>
       /\ journal # None
       /\ journal.candidate = deployer.candidate /\ journal.transition = deployer.id
       /\ journal.previousActivation = deployer.base
  /\ deployer.at \in Replacing => journal.phase = "service-stop-requested"
  /\ deployer.at = "record" /\ deployer.base # None =>
       snapshots[deployer.id] = deployer.base.current
  /\ deployer.at \in Preparing => journal.phase = "prepared"
  /\ deployer.at = "promote" => workspace.file = deployer.candidate
  /\ deployer.at \in Promoting \cup Committing => journal.phase = "database-promoted"
  /\ deployer.at \in {"markPromoted", "start", "verify", "commit"} =>
       live # None /\ live.schema = deployer.candidate
  /\ deployer.at \in {"admitted", "journal"} \cup Replacing \cup Preparing \cup Promoting =>
       deployer.candidate \in artifacts
  /\ deployer.at \in {"journal", "restart"} \cup Replacing \cup Preparing \cup Promoting =>
       activation = deployer.base
  /\ deployer.at = "journal" =>
       /\ deployer.id \in Release!Transitions /\ deployer.id <= transitions
       /\ Older(deployer.base, deployer.id)
  /\ deployer.at \in Committing \cup {"retain"} => activation = Release!Expected
  /\ deployer.at \in Committing \cup {"verify", "commit"} => pointer = deployer.candidate
  /\ deployer.at \in Committing \cup {"commit"} => services = deployer.candidate
  /\ deployer.at = "catch" /\ journal = None =>
       activation \in {deployer.base, Release!Expected}

(* A recovery works on the transition of the journal.                      *)
Recovering ==
  LET previous == journal.previousActivation
  IN /\ deployer.at \in Resuming =>
          /\ journal # None /\ Release!Committed
          /\ journal.phase = "database-promoted" /\ pointer = activation.current
     /\ deployer.at \in {"resumeSettle", "resumeDiscard", "resumeClear"} =>
          services = activation.current
     /\ deployer.at \in {"rollback", "rollbackRecord"} \cup Restoring \cup Restored =>
          /\ journal # None
          /\ Release!Committed => journal.phase = "rollback-required"
     /\ deployer.at \in Restoring => journal.phase # "service-stop-requested"
     /\ deployer.at \in {"copySnapshot", "restore"} => previous # None
     /\ deployer.at = "remove" => previous = None
     /\ deployer.at = "restore" => workspace.file = previous.current
     /\ deployer.at \in {"rollbackRecord"} \cup Restored => LiveFits(previous)
     /\ deployer.at \in Restored => activation = previous
     /\ deployer.at \in {"rollbackReady", "rollbackClear"} =>
          pointer = IF previous = None THEN None ELSE previous.current
     /\ deployer.at = "rollbackReady" /\ previous = None => services = None
     /\ deployer.at = "rollbackClear" =>
          services = IF previous = None THEN None ELSE previous.current

PointsInv ==
  /\ deployer.at \in Unjournaled => journal = None
  /\ deployer.at \in Stopped => services = None
  /\ OwnTransition /\ Recovering

RecordInv ==
  /\ Kept(activation) /\ Older(activation, transitions + 1)
  /\ SettledInv /\ JournalInv

ReleaseInv == Release!TypeOK /\ RecordInv /\ PointsInv

LEMMA ReleaseBegins == Release!Init => ReleaseInv
BY ConstantsMeetAssumptions
   DEF Release!Init, Release!ActivationAssumption, ReleaseInv, RecordInv, Kept, Older,
       LiveFits, SettledInv, JournalInv, Release!WithoutJournalAuthoritativeRuns,
       PointsInv, OwnTransition, Recovering, Unjournaled, Replacing, Preparing, Promoting,
       Committing, Resuming, Restoring, Restored, Stopped, Release!TypeOK,
       Release!Idle, Release!Deployer, Release!Points

(* What every step starts from.                                            *)
LEMMA ReleaseTyped ==
  ASSUME ReleaseInv
  PROVE  /\ Release!TypeOK /\ PointsInv /\ RecordInv
         /\ None \notin Releases /\ MaximumTransitions \in Nat
         /\ None \notin Release!Transitions /\ None \notin Release!Database
         /\ None \notin Release!Pair /\ None \notin Release!Journal
BY ConstantsMeetAssumptions DEF ReleaseInv, Release!ActivationAssumption

(* The deployer goes to another point, or its session ends.                *)
LEMMA DeployerMoves ==
  ASSUME Release!TypeOK, NEW point \in Release!Points, Release!Goto(point)
  PROVE  deployer' \in Release!Deployer
BY DEF Release!TypeOK, Release!Goto, Release!Deployer

LEMMA IdleTyped == Release!Idle \in Release!Deployer
BY DEF Release!Idle, Release!Deployer, Release!Points


(* A session, up to the beginning of a transition: types.                  *)
LEMMA SessionTyped ==
  ASSUME ReleaseInv, Release!Session
  PROVE  Release!TypeOK'
<1> USE DEF Release!At, Release!TypeOK, Release!durable, PointsInv, OwnTransition,
            Recovering, Unjournaled, Replacing, Preparing, Promoting, Committing,
            Resuming, Restoring, Restored, Release!Journal, Release!Pair,
            Release!Database, Release!Transitions
<1>0. /\ Release!TypeOK /\ PointsInv /\ RecordInv
      /\ None \notin Releases /\ MaximumTransitions \in Nat
      /\ None \notin Release!Transitions /\ None \notin Release!Database
      /\ None \notin Release!Pair /\ None \notin Release!Journal
  BY ReleaseTyped
<1>1. CASE Release!Admit
  <2>1. deployer' \in Release!Deployer
    BY <1>1, IdleTyped DEF Release!Admit, Release!Deployer, Release!Points
  <2> QED
    BY <1>0, <1>1, <2>1 DEF Release!Admit
<1>2. CASE Release!RetainAdmitted
  BY <1>0, <1>2, IdleTyped
     DEF Release!RetainAdmitted, Release!Idle, Release!ReleasesOf,
         Release!RetainArtifacts
<1>3. ASSUME NEW candidate \in Releases,
             NEW target \in Release!Transitions \cup {None},
             Release!Activate(candidate, target)
      PROVE  Release!TypeOK'
  <2>1. PICK resumes \in BOOLEAN :
          deployer' = [Release!Idle EXCEPT !.at = "recover", !.caller = "activation",
                                           !.candidate = candidate, !.target = target,
                                           !.resumes = resumes]
    <3>1. (/\ Release!Committed /\ journal.phase = "database-promoted"
           /\ journal.candidate = candidate) \in BOOLEAN
      OBVIOUS
    <3> QED
      BY <1>3, <3>1, Zenon DEF Release!Activate
  <2>2. deployer' \in Release!Deployer
    BY <2>1, IdleTyped, ZenonT(30) DEF Release!Deployer, Release!Points
  <2> QED
    BY <1>0, <1>3, <2>2 DEF Release!Activate
<1>4. CASE Release!RetainResumed
  BY <1>0, <1>4, IdleTyped
     DEF Release!RetainResumed, Release!Idle, Release!ReleasesOf,
         Release!RetainArtifacts, Release!RetainSnapshots, Release!SnapshotsOf
<1>5. CASE Release!RetainForCandidate
  <2>1. deployer' \in Release!Deployer
    BY <1>0, <1>5, DeployerMoves
       DEF Release!RetainForCandidate, Release!ReleasesOf, Release!RetainArtifacts,
           Release!RetainSnapshots, Release!SnapshotsOf, Release!Points
  <2> QED
    BY <1>0, <1>5, <2>1
       DEF Release!RetainForCandidate, Release!ReleasesOf, Release!RetainArtifacts,
           Release!RetainSnapshots, Release!SnapshotsOf
<1>6. CASE Release!Reapply
  <2>1. deployer' \in Release!Deployer
    BY <1>0, <1>6, DeployerMoves
       DEF Release!Reapply, Release!Start, Release!Started, Release!Points
  <2> QED
    BY <1>0, <1>6, <2>1
       DEF Release!Reapply, Release!Start, Release!Started
<1>7. CASE Release!Reapplied
  BY <1>0, <1>7, IdleTyped
     DEF Release!Reapplied, Release!Idle, Release!Ready
<1>8. CASE Release!BeginTransition
  <2>1. transitions + 1 \in Release!Transitions /\ transitions' \in 0 .. MaximumTransitions
    BY <1>0, <1>8 DEF Release!BeginTransition
  <2>2. deployer' = [deployer EXCEPT !.at = "journal", !.id = transitions + 1,
                                     !.base = activation]
    BY <1>8 DEF Release!BeginTransition
  <2>3. deployer \in Release!Deployer /\ activation \in Release!Pair \cup {None}
    BY <1>0
  <2> HIDE DEF Release!TypeOK, Release!Journal, Release!Pair, Release!Database,
               PointsInv, OwnTransition, Recovering
  <2> HIDE DEF Release!Transitions
  <2>4. "journal" \in Release!Points
    BY DEF Release!Points
  <2>5. deployer' \in Release!Deployer
    BY <2>1, <2>2, <2>3, <2>4 DEF Release!Deployer
  <2> QED
    BY <1>0, <1>8, <2>1, <2>5 DEF Release!BeginTransition, Release!TypeOK
<1>9. CASE Release!CatchWithJournal
  <2>1. \/ deployer' = Release!Idle
        \/ deployer' = [deployer EXCEPT !.at = "recover", !.caller = "failure"]
    BY <1>9 DEF Release!CatchWithJournal
  <2>2. deployer \in Release!Deployer
    BY <1>0
  <2> HIDE DEF Release!TypeOK, Release!Journal, Release!Pair, Release!Database,
               PointsInv, OwnTransition, Recovering
  <2>3. deployer' \in Release!Deployer
    BY <2>1, <2>2, IdleTyped, ZenonT(30) DEF Release!Deployer, Release!Points
  <2> QED
    BY <1>0, <1>9, <2>3 DEF Release!CatchWithJournal, Release!TypeOK
<1>10. CASE Release!CatchCommitted
  <2>1. deployer' = [deployer EXCEPT !.at = "retain", !.caller = "failure"]
    BY <1>10 DEF Release!CatchCommitted
  <2>2. deployer \in Release!Deployer
    BY <1>0
  <2> HIDE DEF Release!TypeOK, Release!Journal, Release!Pair, Release!Database,
               PointsInv, OwnTransition, Recovering
  <2>3. deployer' \in Release!Deployer
    BY <2>1, <2>2, ZenonT(30) DEF Release!Deployer, Release!Points
  <2> QED
    BY <1>0, <1>10, <2>3 DEF Release!CatchCommitted, Release!NoWorkspace, Release!TypeOK
<1>11. CASE Release!CatchUnstarted
  <2>1. deployer' \in Release!Deployer
    BY <1>0, <1>11, DeployerMoves
       DEF Release!CatchUnstarted, Release!Expected, Release!NoWorkspace,
           Release!Points
  <2> QED
    BY <1>0, <1>11, <2>1
       DEF Release!CatchUnstarted, Release!Expected, Release!NoWorkspace
<1>12. CASE Release!RestartPrevious
  BY <1>0, <1>12, IdleTyped
     DEF Release!RestartPrevious, Release!Idle, Release!Start, Release!Started
<1> QED
  BY <1>1, <1>2, <1>3, <1>4, <1>5, <1>6, <1>7, <1>8,
     <1>9, <1>10, <1>11, <1>12 DEF Release!Session

(* A session: the record, the journal and the points.                      *)
LEMMA SessionKept ==
  ASSUME ReleaseInv, Release!Session
  PROVE  RecordInv' /\ PointsInv'
<1> USE DEF Release!At, Release!Goto, Release!durable, Release!TypeOK,
            Release!Journal, Release!Pair, Release!Database, Release!Deployer,
            Release!Transitions, RecordInv, Kept, Older, LiveFits, SettledInv,
            JournalInv, Release!Committed, Release!WithoutJournalAuthoritativeRuns,
            PointsInv, OwnTransition, Recovering, Unjournaled, Replacing, Preparing,
            Promoting, Committing, Resuming, Restoring, Restored, Stopped,
            Release!Expected
<1>0. /\ Release!TypeOK /\ PointsInv /\ RecordInv
      /\ None \notin Releases /\ MaximumTransitions \in Nat
      /\ None \notin Release!Transitions /\ None \notin Release!Database
      /\ None \notin Release!Pair /\ None \notin Release!Journal
  BY ReleaseTyped
<1>1. CASE Release!Admit
  <2>1. RecordInv'
    BY <1>0, <1>1
       DEF Release!Admit, Release!Idle
  <2>2. PointsInv'
    BY <1>0, <1>1
       DEF Release!Admit, Release!Idle
  <2> QED
    BY <2>1, <2>2
<1>2. CASE Release!RetainAdmitted
  <2>1. RecordInv'
    BY <1>0, <1>2
       DEF Release!RetainAdmitted, Release!Idle, Release!ReleasesOf,
           Release!RetainArtifacts
  <2>2. PointsInv'
    BY <1>0, <1>2
       DEF Release!RetainAdmitted, Release!Idle, Release!ReleasesOf,
           Release!RetainArtifacts
  <2> QED
    BY <2>1, <2>2
<1>3. ASSUME NEW candidate \in Releases,
             NEW target \in Release!Transitions \cup {None},
             Release!Activate(candidate, target)
      PROVE  RecordInv' /\ PointsInv'
  <2>1. RecordInv'
    BY <1>0, <1>3
       DEF Release!Activate, Release!Idle
  <2>2. PointsInv'
    BY <1>0, <1>3
       DEF Release!Activate, Release!Idle
  <2> QED
    BY <2>1, <2>2
<1>4. CASE Release!RetainResumed
  <2>1. RecordInv'
    BY <1>0, <1>4
       DEF Release!RetainResumed, Release!Idle, Release!ReleasesOf,
           Release!RetainArtifacts, Release!RetainSnapshots, Release!SnapshotsOf
  <2>2. PointsInv'
    BY <1>0, <1>4
       DEF Release!RetainResumed, Release!Idle, Release!ReleasesOf,
           Release!RetainArtifacts, Release!RetainSnapshots, Release!SnapshotsOf
  <2> QED
    BY <2>1, <2>2
<1>5. CASE Release!RetainForCandidate
  <2>1. RecordInv'
    BY <1>0, <1>5
       DEF Release!RetainForCandidate, Release!ReleasesOf, Release!RetainArtifacts,
           Release!RetainSnapshots, Release!SnapshotsOf
  <2>2. PointsInv'
    BY <1>0, <1>5
       DEF Release!RetainForCandidate, Release!ReleasesOf, Release!RetainArtifacts,
           Release!RetainSnapshots, Release!SnapshotsOf
  <2> QED
    BY <2>1, <2>2
<1>6. CASE Release!Reapply
  <2>1. RecordInv'
    BY <1>0, <1>6
       DEF Release!Reapply, Release!Start, Release!Started
  <2>2. PointsInv'
    BY <1>0, <1>6
       DEF Release!Reapply, Release!Start, Release!Started
  <2> QED
    BY <2>1, <2>2
<1>7. CASE Release!Reapplied
  <2>1. RecordInv'
    BY <1>0, <1>7
       DEF Release!Reapplied, Release!Idle, Release!Ready
  <2>2. PointsInv'
    BY <1>0, <1>7
       DEF Release!Reapplied, Release!Idle, Release!Ready
  <2> QED
    BY <2>1, <2>2
<1>8. CASE Release!BeginTransition
  <2>1. RecordInv'
    BY <1>0, <1>8
       DEF Release!BeginTransition
  <2>2. PointsInv'
    BY <1>0, <1>8
       DEF Release!BeginTransition
  <2> QED
    BY <2>1, <2>2
<1>9. CASE Release!CatchWithJournal
  <2>1. RecordInv'
    BY <1>0, <1>9
       DEF Release!CatchWithJournal, Release!Idle
  <2>2. PointsInv'
    BY <1>0, <1>9
       DEF Release!CatchWithJournal, Release!Idle
  <2> QED
    BY <2>1, <2>2
<1>10. CASE Release!CatchCommitted
  <2>1. RecordInv'
    BY <1>0, <1>10
       DEF Release!CatchCommitted, Release!NoWorkspace
  <2>2. PointsInv'
    BY <1>0, <1>10
       DEF Release!CatchCommitted, Release!NoWorkspace
  <2> QED
    BY <2>1, <2>2
<1>11. CASE Release!CatchUnstarted
  <2>1. RecordInv'
    BY <1>0, <1>11
       DEF Release!CatchUnstarted, Release!NoWorkspace
  <2>2. PointsInv'
    BY <1>0, <1>11
       DEF Release!CatchUnstarted, Release!NoWorkspace
  <2> QED
    BY <2>1, <2>2
<1>12. CASE Release!RestartPrevious
  <2>1. RecordInv'
    BY <1>0, <1>12
       DEF Release!RestartPrevious, Release!Idle, Release!Start, Release!Started
  <2>2. PointsInv'
    BY <1>0, <1>12
       DEF Release!RestartPrevious, Release!Idle, Release!Start, Release!Started
  <2> QED
    BY <2>1, <2>2
<1> QED
  BY <1>1, <1>2, <1>3, <1>4, <1>5, <1>6, <1>7, <1>8,
     <1>9, <1>10, <1>11, <1>12 DEF Release!Session

(* The transition: types.                                                  *)
LEMMA TransitionTyped ==
  ASSUME ReleaseInv, Release!Transition
  PROVE  Release!TypeOK'
<1> USE DEF Release!At, Release!TypeOK, Release!durable, PointsInv, OwnTransition,
            Recovering, Unjournaled, Replacing, Preparing, Promoting, Committing,
            Resuming, Restoring, Restored, Release!Journal, Release!Pair,
            Release!Database, Release!Transitions
<1>0. /\ Release!TypeOK /\ PointsInv /\ RecordInv
      /\ None \notin Releases /\ MaximumTransitions \in Nat
      /\ None \notin Release!Transitions /\ None \notin Release!Database
      /\ None \notin Release!Pair /\ None \notin Release!Journal
  BY ReleaseTyped
<1>1. CASE Release!CreateJournal
  <2>1. deployer' \in Release!Deployer
    BY <1>0, <1>1, DeployerMoves
       DEF Release!CreateJournal, Release!Points
  <2> QED
    BY <1>0, <1>1, <2>1
       DEF Release!CreateJournal
<1>2. CASE Release!StopServices
  <2>1. deployer' \in Release!Deployer
    BY <1>0, <1>2, DeployerMoves
       DEF Release!StopServices, Release!Points
  <2> QED
    BY <1>0, <1>2, <2>1
       DEF Release!StopServices
<1>3. CASE Release!Snapshot
  <2>1. deployer' \in Release!Deployer
    BY <1>0, <1>3, DeployerMoves
       DEF Release!Snapshot, Release!Points
  <2> QED
    BY <1>0, <1>3, <2>1, ZenonT(30)
       DEF Release!Snapshot
<1>4. CASE Release!RecordSnapshot
  <2>1. deployer' \in Release!Deployer
    BY <1>0, <1>4, DeployerMoves
       DEF Release!RecordSnapshot, Release!SetPhase, Release!Points
  <2> QED
    BY <1>0, <1>4, <2>1
       DEF Release!RecordSnapshot, Release!SetPhase
<1>5. CASE Release!PrepareWorkspace
  <2>1. deployer' \in Release!Deployer
    BY <1>0, <1>5, DeployerMoves DEF Release!PrepareWorkspace, Release!Points
  <2>2. /\ deployer.id \in Release!Transitions
        /\ deployer.target \in Release!Transitions \cup {None}
    BY <1>0, <1>5 DEF Release!PrepareWorkspace, Release!Deployer
  <2>3. workspace' \in [present : BOOLEAN, file : Releases \cup {None}]
    BY <1>0, <1>5, <2>2 DEF Release!PrepareWorkspace
  <2> QED
    BY <1>0, <1>5, <2>1, <2>3 DEF Release!PrepareWorkspace
<1>6. CASE Release!Migrate
  <2>1. deployer' \in Release!Deployer
    BY <1>0, <1>6, DeployerMoves
       DEF Release!Migrate, Release!Points
  <2> QED
    BY <1>0, <1>6, <2>1
       DEF Release!Migrate
<1>7. CASE Release!Promote
  <2>1. deployer' \in Release!Deployer
    BY <1>0, <1>7, DeployerMoves
       DEF Release!Promote, Release!EmptyWorkspace, Release!Install,
           Release!StillPrevious, Release!Points
  <2> QED
    BY <1>0, <1>7, <2>1
       DEF Release!Promote, Release!EmptyWorkspace, Release!Install,
           Release!StillPrevious
<1>8. CASE Release!MarkPromoted
  <2>1. deployer' \in Release!Deployer
    BY <1>0, <1>8, DeployerMoves
       DEF Release!MarkPromoted, Release!SetPhase, Release!Points
  <2> QED
    BY <1>0, <1>8, <2>1
       DEF Release!MarkPromoted, Release!SetPhase
<1>9. CASE Release!StartCandidate
  <2>1. deployer' \in Release!Deployer
    BY <1>0, <1>9, DeployerMoves
       DEF Release!StartCandidate, Release!Start, Release!Started, Release!Points
  <2> QED
    BY <1>0, <1>9, <2>1
       DEF Release!StartCandidate, Release!Start, Release!Started
<1>10. CASE Release!VerifyCandidate
  <2>1. deployer' \in Release!Deployer
    BY <1>0, <1>10, DeployerMoves
       DEF Release!VerifyCandidate, Release!Ready, Release!Points
  <2> QED
    BY <1>0, <1>10, <2>1
       DEF Release!VerifyCandidate, Release!Ready
<1>11. CASE Release!MarkRollback
  <2>1. deployer' \in Release!Deployer
    BY <1>0, <1>11, DeployerMoves
       DEF Release!MarkRollback, Release!SetPhase, Release!Points
  <2> QED
    BY <1>0, <1>11, <2>1
       DEF Release!MarkRollback, Release!SetPhase
<1>12. CASE Release!Commit
  <2>1. deployer' \in Release!Deployer
    BY <1>0, <1>12, DeployerMoves
       DEF Release!Commit, Release!Expected, Release!Points
  <2> QED
    BY <1>0, <1>12, <2>1
       DEF Release!Commit, Release!Expected
<1>13. CASE Release!Settle
  <2>1. deployer' \in Release!Deployer
    BY <1>0, <1>13, DeployerMoves
       DEF Release!Settle, Release!Points
  <2> QED
    BY <1>0, <1>13, <2>1
       DEF Release!Settle
<1>14. CASE Release!Discard("discard", "clear")
  <2>1. deployer' \in Release!Deployer
    BY <1>0, <1>14, DeployerMoves
       DEF Release!Discard, Release!NoWorkspace, Release!Points
  <2> QED
    BY <1>0, <1>14, <2>1
       DEF Release!Discard, Release!NoWorkspace
<1>15. CASE Release!ClearJournal("clear", "retain")
  <2>1. deployer' \in Release!Deployer
    BY <1>0, <1>15, DeployerMoves
       DEF Release!ClearJournal, Release!Points
  <2> QED
    BY <1>0, <1>15, <2>1
       DEF Release!ClearJournal
<1>16. CASE Release!RetainCommitted
  BY <1>0, <1>16, IdleTyped
     DEF Release!RetainCommitted, Release!Idle, Release!ReleasesOf,
         Release!RetainArtifacts, Release!RetainSnapshots, Release!SnapshotsOf
<1> QED
  BY <1>1, <1>2, <1>3, <1>4, <1>5, <1>6, <1>7, <1>8, <1>9, <1>10,
     <1>11, <1>12, <1>13, <1>14, <1>15, <1>16 DEF Release!Transition

(* The transition: the record, the journal and the points.                 *)
LEMMA TransitionKept ==
  ASSUME ReleaseInv, Release!Transition
  PROVE  RecordInv' /\ PointsInv'
<1> USE DEF Release!At, Release!Goto, Release!durable, Release!TypeOK,
            Release!Journal, Release!Pair, Release!Database, Release!Deployer,
            Release!Transitions, RecordInv, Kept, Older, LiveFits, SettledInv,
            JournalInv, Release!Committed, Release!WithoutJournalAuthoritativeRuns,
            PointsInv, OwnTransition, Recovering, Unjournaled, Replacing, Preparing,
            Promoting, Committing, Resuming, Restoring, Restored, Stopped,
            Release!Expected
<1>0. /\ Release!TypeOK /\ PointsInv /\ RecordInv
      /\ None \notin Releases /\ MaximumTransitions \in Nat
      /\ None \notin Release!Transitions /\ None \notin Release!Database
      /\ None \notin Release!Pair /\ None \notin Release!Journal
  BY ReleaseTyped
<1>1. CASE Release!CreateJournal
  <2>1. RecordInv'
    BY <1>0, <1>1
       DEF Release!CreateJournal
  <2>2. PointsInv'
    BY <1>0, <1>1
       DEF Release!CreateJournal
  <2> QED
    BY <2>1, <2>2
<1>2. CASE Release!StopServices
  <2>1. RecordInv'
    BY <1>0, <1>2
       DEF Release!StopServices
  <2>2. PointsInv'
    BY <1>0, <1>2
       DEF Release!StopServices
  <2> QED
    BY <2>1, <2>2
<1>3. CASE Release!Snapshot
  <2> DEFINE id == deployer.id
             base == deployer.base
  <2>1. /\ journal # None /\ journal.phase = "service-stop-requested"
        /\ journal.transition = id /\ journal.previousActivation = base
        /\ activation = base /\ services = None
        /\ journal \in Release!Journal /\ id \in Release!Transitions
        /\ snapshots \in [Release!Transitions -> Releases \cup {None}]
        /\ base \in Release!Pair \cup {None}
    BY <1>0, <1>3 DEF Release!Snapshot
  <2>2. UNCHANGED <<journal, activation, workspace, artifacts, pointer, services,
                    transitions>>
    BY <1>3 DEF Release!Snapshot
  <2>3. deployer.at = "snapshot" /\ deployer' = [deployer EXCEPT !.at = "record"]
    BY <1>3 DEF Release!Snapshot
  <2>4. \/ base = None /\ live = None /\ UNCHANGED <<snapshots, live>>
        \/ /\ base # None /\ live # None /\ live.schema = base.current
           /\ snapshots' = [snapshots EXCEPT ![id] = base.current]
           /\ live' = [live EXCEPT !.recorded = TRUE, !.written = FALSE]
    BY <1>3 DEF Release!Snapshot
  <2>5. /\ \A t \in Release!Transitions \ {id} : snapshots'[t] = snapshots[t]
        /\ base # None => snapshots'[id] = base.current
    BY <2>1, <2>4
  <2>6. /\ live = None => live' = None
        /\ live # None => live' # None /\ live'.schema = live.schema
        /\ base # None => live' # None /\ live'.schema = base.current
    <3>1. live \in Release!Database \cup {None}
      BY <1>0
    <3>2. live # None => [live EXCEPT !.recorded = TRUE, !.written = FALSE] \in Release!Database
      BY <3>1
    <3> QED
      BY <1>0, <2>4, <3>1, <3>2, ZenonT(30)
  <2>7. base # None /\ base.previous # None => base.previous.snapshot \in Release!Transitions
    BY <1>0, <2>1
  <2>8. base # None /\ base.previous # None => base.previous.snapshot # id
    <3>1. Older(base, id)
      BY <1>0, <2>1
    <3> QED
      BY <2>1, <2>7, <3>1
  <2>9. Kept(base)
    BY <1>0, <2>1
  <2>10. Older(base, id) /\ id <= transitions
    BY <1>0, <2>1
  <2>11. Older(activation, transitions + 1)
    BY <1>0
  <2>12. /\ deployer'.at = "record" /\ deployer'.candidate = deployer.candidate
         /\ deployer'.id = id /\ deployer'.base = base
    BY <1>0, <2>3
  <2> HIDE DEF Release!TypeOK, Release!Journal, Release!Pair, Release!Database,
               Release!Deployer, Release!Transitions, RecordInv, PointsInv
  <2>13. Kept(activation)' /\ Kept(journal.previousActivation)'
    BY <2>1, <2>2, <2>5, <2>7, <2>8, <2>9
  <2>14. RecordInv'
    BY <2>1, <2>2, <2>6, <2>10, <2>11, <2>13 DEF RecordInv
  <2>15. PointsInv'
    BY <1>0, <2>1, <2>2, <2>3, <2>5, <2>6, <2>12 DEF PointsInv
  <2> QED
    BY <2>14, <2>15
<1>4. CASE Release!RecordSnapshot
  <2>1. RecordInv'
    BY <1>0, <1>4
       DEF Release!RecordSnapshot, Release!SetPhase
  <2>2. PointsInv'
    BY <1>0, <1>4
       DEF Release!RecordSnapshot, Release!SetPhase
  <2> QED
    BY <2>1, <2>2
<1>5. CASE Release!PrepareWorkspace
  <2>1. RecordInv'
    BY <1>0, <1>5
       DEF Release!PrepareWorkspace
  <2>2. PointsInv'
    BY <1>0, <1>5
       DEF Release!PrepareWorkspace
  <2> QED
    BY <2>1, <2>2
<1>6. CASE Release!Migrate
  <2>1. RecordInv'
    BY <1>0, <1>6
       DEF Release!Migrate
  <2>2. PointsInv'
    BY <1>0, <1>6
       DEF Release!Migrate
  <2> QED
    BY <2>1, <2>2
<1>7. CASE Release!Promote
  <2>1. RecordInv'
    BY <1>0, <1>7 DEF Release!Install, Release!Promote, Release!StillPrevious
  <2>2. live'.schema = deployer.candidate /\ live' \in Release!Database
    BY <1>0, <1>7 DEF Release!Install, Release!Promote
  <2>3. /\ deployer'.at = "markPromoted" /\ deployer'.candidate = deployer.candidate
        /\ deployer'.id = deployer.id /\ deployer'.base = deployer.base
    BY <1>0, <1>7 DEF Release!Promote
  <2>4. /\ deployer.at = "promote"
        /\ UNCHANGED <<journal, activation, snapshots, artifacts, pointer, services,
                       transitions>>
    BY <1>7 DEF Release!Promote
  <2> HIDE DEF Release!Goto, Release!TypeOK, Release!Journal, Release!Pair, Release!Database,
               Release!Deployer
  <2>5. PointsInv'
    BY <1>0, <2>2, <2>3, <2>4
  <2> QED
    BY <2>1, <2>5
<1>8. CASE Release!MarkPromoted
  <2>1. /\ deployer.at = "markPromoted" /\ journal # None /\ journal' # None
        /\ journal'.phase = "database-promoted"
        /\ journal'.candidate = journal.candidate
        /\ journal'.transition = journal.transition
        /\ journal'.previousActivation = journal.previousActivation
        /\ UNCHANGED <<activation, live, snapshots, workspace, artifacts, pointer, services,
                       transitions>>
    BY <1>0, <1>8 DEF Release!MarkPromoted, Release!SetPhase
  <2>2. /\ deployer'.at = "start" /\ deployer'.candidate = deployer.candidate
        /\ deployer'.id = deployer.id /\ deployer'.base = deployer.base
    BY <1>0, <1>8 DEF Release!MarkPromoted
  <2> HIDE DEF Release!Goto, Release!TypeOK, Release!Journal, Release!Pair, Release!Database,
               Release!Deployer
  <2>3. RecordInv'
    BY <1>0, <2>1
  <2>4. PointsInv'
    BY <1>0, <2>1, <2>2
  <2> QED
    BY <2>3, <2>4
<1>9. CASE Release!StartCandidate
  <2>1. RecordInv'
    BY <1>0, <1>9
       DEF Release!StartCandidate, Release!Start, Release!Started
  <2>2. PointsInv'
    BY <1>0, <1>9
       DEF Release!StartCandidate, Release!Start, Release!Started
  <2> QED
    BY <2>1, <2>2
<1>10. CASE Release!VerifyCandidate
  <2>1. RecordInv'
    BY <1>0, <1>10
       DEF Release!VerifyCandidate, Release!Ready
  <2>2. PointsInv'
    BY <1>0, <1>10
       DEF Release!VerifyCandidate, Release!Ready
  <2> QED
    BY <2>1, <2>2
<1>11. CASE Release!MarkRollback
  <2>1. RecordInv'
    BY <1>0, <1>11
       DEF Release!MarkRollback, Release!SetPhase
  <2>2. PointsInv'
    BY <1>0, <1>11
       DEF Release!MarkRollback, Release!SetPhase
  <2> QED
    BY <2>1, <2>2
<1>12. CASE Release!Commit
  <2>1. RecordInv'
    BY <1>0, <1>12
       DEF Release!Commit
  <2>2. PointsInv'
    BY <1>0, <1>12
       DEF Release!Commit
  <2> QED
    BY <2>1, <2>2
<1>13. CASE Release!Settle
  <2>1. RecordInv'
    BY <1>0, <1>13
       DEF Release!Settle
  <2>2. PointsInv'
    BY <1>0, <1>13
       DEF Release!Settle
  <2> QED
    BY <2>1, <2>2
<1>14. CASE Release!Discard("discard", "clear")
  <2>1. RecordInv'
    BY <1>0, <1>14
       DEF Release!Discard, Release!NoWorkspace
  <2>2. PointsInv'
    BY <1>0, <1>14
       DEF Release!Discard, Release!NoWorkspace
  <2> QED
    BY <2>1, <2>2
<1>15. CASE Release!ClearJournal("clear", "retain")
  <2>1. RecordInv'
    BY <1>0, <1>15
       DEF Release!ClearJournal
  <2>2. PointsInv'
    BY <1>0, <1>15
       DEF Release!ClearJournal
  <2> QED
    BY <2>1, <2>2
<1>16. CASE Release!RetainCommitted
  <2>1. RecordInv'
    BY <1>0, <1>16
       DEF Release!RetainCommitted, Release!Idle, Release!ReleasesOf,
           Release!RetainArtifacts, Release!RetainSnapshots, Release!SnapshotsOf
  <2>2. PointsInv'
    BY <1>0, <1>16
       DEF Release!RetainCommitted, Release!Idle, Release!ReleasesOf,
           Release!RetainArtifacts, Release!RetainSnapshots, Release!SnapshotsOf
  <2> QED
    BY <2>1, <2>2
<1> QED
  BY <1>1, <1>2, <1>3, <1>4, <1>5, <1>6, <1>7, <1>8, <1>9, <1>10,
     <1>11, <1>12, <1>13, <1>14, <1>15, <1>16 DEF Release!Transition

(* The recovery of a transition that a journal names: types.               *)
LEMMA RecoveryTyped ==
  ASSUME ReleaseInv, Release!Recovery
  PROVE  Release!TypeOK'
<1> USE DEF Release!At, Release!TypeOK, Release!durable, PointsInv, OwnTransition,
            Recovering, Unjournaled, Replacing, Preparing, Promoting, Committing,
            Resuming, Restoring, Restored, Release!Journal, Release!Pair,
            Release!Database, Release!Transitions
<1>0. /\ Release!TypeOK /\ PointsInv /\ RecordInv
      /\ None \notin Releases /\ MaximumTransitions \in Nat
      /\ None \notin Release!Transitions /\ None \notin Release!Database
      /\ None \notin Release!Pair /\ None \notin Release!Journal
  BY ReleaseTyped
<1>a. Release!AfterRecovery \in Release!Points
  BY <1>0 DEF Release!AfterRecovery, Release!Deployer, Release!Points
<1>1. CASE Release!NothingToRecover
  <2>1. deployer' \in Release!Deployer
    BY <1>0, <1>1, <1>a, DeployerMoves DEF Release!NothingToRecover
  <2> QED
    BY <1>0, <1>1, <2>1 DEF Release!NothingToRecover
<1>2. CASE Release!Resume
  <2>1. deployer' \in Release!Deployer
    BY <1>0, <1>2, DeployerMoves
       DEF Release!Resume, Release!Committed, Release!Start, Release!Started,
           Release!Points
  <2> QED
    BY <1>0, <1>2, <2>1
       DEF Release!Resume, Release!Committed, Release!Start, Release!Started
<1>3. CASE Release!Resumed
  <2>1. deployer' \in Release!Deployer
    BY <1>0, <1>3, DeployerMoves
       DEF Release!Resumed, Release!Ready, Release!Points
  <2> QED
    BY <1>0, <1>3, <2>1
       DEF Release!Resumed, Release!Ready
<1>4. CASE Release!ResumeSettle
  <2>1. deployer' \in Release!Deployer
    BY <1>0, <1>4, DeployerMoves
       DEF Release!ResumeSettle, Release!Points
  <2> QED
    BY <1>0, <1>4, <2>1
       DEF Release!ResumeSettle
<1>5. CASE Release!ResumeMarkRollback
  <2>1. deployer' \in Release!Deployer
    BY <1>0, <1>5, DeployerMoves
       DEF Release!ResumeMarkRollback, Release!SetPhase, Release!Points
  <2> QED
    BY <1>0, <1>5, <2>1
       DEF Release!ResumeMarkRollback, Release!SetPhase
<1>6. CASE Release!Discard("resumeDiscard", "resumeClear")
  <2>1. deployer' \in Release!Deployer
    BY <1>0, <1>6, DeployerMoves
       DEF Release!Discard, Release!NoWorkspace, Release!Points
  <2> QED
    BY <1>0, <1>6, <2>1
       DEF Release!Discard, Release!NoWorkspace
<1>7. CASE Release!ClearJournal("resumeClear", Release!AfterRecovery)
  <2>1. deployer' \in Release!Deployer
    BY <1>0, <1>7, <1>a, DeployerMoves DEF Release!ClearJournal
  <2> QED
    BY <1>0, <1>7, <2>1 DEF Release!ClearJournal
<1>8. CASE Release!RollBack
  <2>1. deployer' \in Release!Deployer
    BY <1>0, <1>8, DeployerMoves
       DEF Release!RollBack, Release!Committed, Release!Points
  <2> QED
    BY <1>0, <1>8, <2>1
       DEF Release!RollBack, Release!Committed
<1>9. CASE Release!RollbackStop
  <2>1. deployer' \in Release!Deployer
    BY <1>0, <1>9, DeployerMoves
       DEF Release!RollbackStop, Release!Committed, Release!Points
  <2> QED
    BY <1>0, <1>9, <2>1
       DEF Release!RollbackStop, Release!Committed
<1>10. CASE Release!Inspect
  <2>1. deployer' \in Release!Deployer
    BY <1>0, <1>10, DeployerMoves
       DEF Release!Inspect, Release!Promoted, Release!StillPrevious, Release!Points
  <2> QED
    BY <1>0, <1>10, <2>1
       DEF Release!Inspect, Release!Promoted, Release!StillPrevious
<1>11. CASE Release!RemovePromoted
  <2>1. deployer' \in Release!Deployer
    BY <1>0, <1>11, DeployerMoves
       DEF Release!RemovePromoted, Release!Points
  <2> QED
    BY <1>0, <1>11, <2>1
       DEF Release!RemovePromoted
<1>12. CASE Release!CopySnapshot
  <2>1. deployer' \in Release!Deployer
    BY <1>0, <1>12, DeployerMoves
       DEF Release!CopySnapshot, Release!Points
  <2> QED
    BY <1>0, <1>12, <2>1
       DEF Release!CopySnapshot
<1>13. CASE Release!Restore
  <2>1. deployer' \in Release!Deployer
    BY <1>0, <1>13, DeployerMoves
       DEF Release!Restore, Release!EmptyWorkspace, Release!Install, Release!Points
  <2> QED
    BY <1>0, <1>13, <2>1
       DEF Release!Restore, Release!EmptyWorkspace, Release!Install
<1>14. CASE Release!RollbackRecord
  <2>1. deployer' \in Release!Deployer
    BY <1>0, <1>14, DeployerMoves
       DEF Release!RollbackRecord, Release!Committed, Release!Points
  <2> QED
    BY <1>0, <1>14, <2>1
       DEF Release!RollbackRecord, Release!Committed
<1>15. CASE Release!Discard("rollbackDiscard", "rollbackStart")
  <2>1. deployer' \in Release!Deployer
    BY <1>0, <1>15, DeployerMoves
       DEF Release!Discard, Release!NoWorkspace, Release!Points
  <2> QED
    BY <1>0, <1>15, <2>1
       DEF Release!Discard, Release!NoWorkspace
<1>16. CASE Release!RollbackStart
  <2>1. deployer' \in Release!Deployer
    BY <1>0, <1>16, DeployerMoves
       DEF Release!RollbackStart, Release!Start, Release!Started, Release!Points
  <2> QED
    BY <1>0, <1>16, <2>1
       DEF Release!RollbackStart, Release!Start, Release!Started
<1>17. CASE Release!RollbackReady
  <2>1. deployer' \in Release!Deployer
    BY <1>0, <1>17, DeployerMoves
       DEF Release!RollbackReady, Release!Ready, Release!Points
  <2> QED
    BY <1>0, <1>17, <2>1
       DEF Release!RollbackReady, Release!Ready
<1>18. CASE Release!ClearJournal("rollbackClear", Release!AfterRecovery)
  <2>1. deployer' \in Release!Deployer
    BY <1>0, <1>18, <1>a, DeployerMoves DEF Release!ClearJournal
  <2> QED
    BY <1>0, <1>18, <2>1 DEF Release!ClearJournal
<1> QED
  BY <1>1, <1>2, <1>3, <1>4, <1>5, <1>6, <1>7, <1>8, <1>9, <1>10, <1>11,
     <1>12, <1>13, <1>14, <1>15, <1>16, <1>17, <1>18 DEF Release!Recovery

(* A recovery: the record, the journal and the points.                     *)
LEMMA RecoveryKept ==
  ASSUME ReleaseInv, Release!Recovery
  PROVE  RecordInv' /\ PointsInv'
<1> USE DEF Release!At, Release!Goto, Release!durable, Release!TypeOK,
            Release!Journal, Release!Pair, Release!Database, Release!Deployer,
            Release!Transitions, RecordInv, Kept, Older, LiveFits, SettledInv,
            JournalInv, Release!Committed, Release!WithoutJournalAuthoritativeRuns,
            PointsInv, OwnTransition, Recovering, Unjournaled, Replacing, Preparing,
            Promoting, Committing, Resuming, Restoring, Restored, Stopped,
            Release!Expected
<1>0. /\ Release!TypeOK /\ PointsInv /\ RecordInv
      /\ None \notin Releases /\ MaximumTransitions \in Nat
      /\ None \notin Release!Transitions /\ None \notin Release!Database
      /\ None \notin Release!Pair /\ None \notin Release!Journal
  BY ReleaseTyped
<1>1. CASE Release!NothingToRecover
  <2>1. RecordInv'
    BY <1>0, <1>1
       DEF Release!NothingToRecover, Release!AfterRecovery
  <2>2. PointsInv'
    BY <1>0, <1>1
       DEF Release!NothingToRecover, Release!AfterRecovery
  <2> QED
    BY <2>1, <2>2
<1>2. CASE Release!Resume
  <2>1. RecordInv'
    BY <1>0, <1>2
       DEF Release!Resume, Release!Start, Release!Started
  <2>2. PointsInv'
    BY <1>0, <1>2
       DEF Release!Resume, Release!Start, Release!Started
  <2> QED
    BY <2>1, <2>2
<1>3. CASE Release!Resumed
  <2>1. RecordInv'
    BY <1>0, <1>3
       DEF Release!Resumed, Release!Ready
  <2>2. PointsInv'
    BY <1>0, <1>3
       DEF Release!Resumed, Release!Ready
  <2> QED
    BY <2>1, <2>2
<1>4. CASE Release!ResumeSettle
  <2>1. RecordInv'
    BY <1>0, <1>4
       DEF Release!ResumeSettle
  <2>2. PointsInv'
    BY <1>0, <1>4
       DEF Release!ResumeSettle
  <2> QED
    BY <2>1, <2>2
<1>5. CASE Release!ResumeMarkRollback
  <2>1. RecordInv'
    BY <1>0, <1>5
       DEF Release!ResumeMarkRollback, Release!SetPhase
  <2>2. PointsInv'
    BY <1>0, <1>5
       DEF Release!ResumeMarkRollback, Release!SetPhase
  <2> QED
    BY <2>1, <2>2
<1>6. CASE Release!Discard("resumeDiscard", "resumeClear")
  <2>1. RecordInv'
    BY <1>0, <1>6
       DEF Release!Discard, Release!NoWorkspace
  <2>2. PointsInv'
    BY <1>0, <1>6
       DEF Release!Discard, Release!NoWorkspace
  <2> QED
    BY <2>1, <2>2
<1>7. CASE Release!ClearJournal("resumeClear", Release!AfterRecovery)
  <2>1. RecordInv'
    BY <1>0, <1>7
       DEF Release!ClearJournal, Release!AfterRecovery
  <2>2. PointsInv'
    BY <1>0, <1>7
       DEF Release!ClearJournal, Release!AfterRecovery
  <2> QED
    BY <2>1, <2>2
<1>8. CASE Release!RollBack
  <2>1. RecordInv'
    BY <1>0, <1>8
       DEF Release!RollBack
  <2>2. PointsInv'
    BY <1>0, <1>8
       DEF Release!RollBack
  <2> QED
    BY <2>1, <2>2
<1>9. CASE Release!RollbackStop
  <2>1. RecordInv'
    BY <1>0, <1>9
       DEF Release!RollbackStop
  <2>2. PointsInv'
    BY <1>0, <1>9
       DEF Release!RollbackStop
  <2> QED
    BY <2>1, <2>2
<1>10. CASE Release!Inspect
  <2>1. RecordInv'
    BY <1>0, <1>10
       DEF Release!Inspect, Release!Promoted, Release!StillPrevious
  <2>2. PointsInv'
    BY <1>0, <1>10
       DEF Release!Inspect, Release!Promoted, Release!StillPrevious
  <2> QED
    BY <2>1, <2>2
<1>11. CASE Release!RemovePromoted
  <2>1. RecordInv'
    BY <1>0, <1>11
       DEF Release!RemovePromoted
  <2>2. PointsInv'
    BY <1>0, <1>11
       DEF Release!RemovePromoted
  <2> QED
    BY <2>1, <2>2
<1>12. CASE Release!CopySnapshot
  <2>1. RecordInv'
    BY <1>0, <1>12
       DEF Release!CopySnapshot
  <2>2. PointsInv'
    BY <1>0, <1>12
       DEF Release!CopySnapshot
  <2> QED
    BY <2>1, <2>2
<1>13. CASE Release!Restore
  <2>1. RecordInv'
    BY <1>0, <1>13 DEF Release!Install, Release!Restore
  <2>2. /\ live'.schema = journal.previousActivation.current
        /\ live' \in Release!Database
    BY <1>0, <1>13 DEF Release!Install, Release!Restore
  <2>3. /\ deployer.at = "restore" /\ deployer'.at = "rollbackRecord"
        /\ UNCHANGED <<journal, activation, snapshots, artifacts, pointer, services,
                       transitions>>
    BY <1>0, <1>13 DEF Release!Restore
  <2> HIDE DEF Release!Goto, Release!TypeOK, Release!Journal, Release!Pair, Release!Database,
               Release!Deployer
  <2>4. PointsInv'
    BY <1>0, <2>2, <2>3
  <2> QED
    BY <2>1, <2>4
<1>14. CASE Release!RollbackRecord
  <2>1. RecordInv'
    BY <1>0, <1>14
       DEF Release!RollbackRecord
  <2>2. PointsInv'
    BY <1>0, <1>14
       DEF Release!RollbackRecord
  <2> QED
    BY <2>1, <2>2
<1>15. CASE Release!Discard("rollbackDiscard", "rollbackStart")
  <2>1. RecordInv'
    BY <1>0, <1>15
       DEF Release!Discard, Release!NoWorkspace
  <2>2. PointsInv'
    BY <1>0, <1>15
       DEF Release!Discard, Release!NoWorkspace
  <2> QED
    BY <2>1, <2>2
<1>16. CASE Release!RollbackStart
  <2>1. RecordInv'
    BY <1>0, <1>16
       DEF Release!RollbackStart, Release!Start, Release!Started
  <2>2. PointsInv'
    BY <1>0, <1>16
       DEF Release!RollbackStart, Release!Start, Release!Started
  <2> QED
    BY <2>1, <2>2
<1>17. CASE Release!RollbackReady
  <2>1. RecordInv'
    BY <1>0, <1>17
       DEF Release!RollbackReady, Release!Ready
  <2>2. PointsInv'
    BY <1>0, <1>17
       DEF Release!RollbackReady, Release!Ready
  <2> QED
    BY <2>1, <2>2
<1>18. CASE Release!ClearJournal("rollbackClear", Release!AfterRecovery)
  <2>1. RecordInv'
    BY <1>0, <1>18
       DEF Release!ClearJournal, Release!AfterRecovery
  <2>2. PointsInv'
    BY <1>0, <1>18
       DEF Release!ClearJournal, Release!AfterRecovery
  <2> QED
    BY <2>1, <2>2
<1> QED
  BY <1>1, <1>2, <1>3, <1>4, <1>5, <1>6, <1>7, <1>8, <1>9, <1>10, <1>11,
     <1>12, <1>13, <1>14, <1>15, <1>16, <1>17, <1>18 DEF Release!Recovery

(* Failures, the host and the running processes: types.                    *)
LEMMA HostTyped ==
  ASSUME ReleaseInv,
         Release!Throw \/ Release!Crash \/ Release!Reboot \/ Release!Write
  PROVE  Release!TypeOK'
<1> USE DEF Release!At, Release!TypeOK, Release!durable, PointsInv, OwnTransition,
            Recovering, Unjournaled, Replacing, Preparing, Promoting, Committing,
            Resuming, Restoring, Restored, Release!Journal, Release!Pair,
            Release!Database, Release!Transitions
<1>0. /\ Release!TypeOK /\ PointsInv /\ RecordInv
      /\ None \notin Releases /\ MaximumTransitions \in Nat
      /\ None \notin Release!Transitions /\ None \notin Release!Database
      /\ None \notin Release!Pair /\ None \notin Release!Journal
  BY ReleaseTyped
<1>1. CASE Release!Throw
  <2>1. \/ deployer' = Release!Idle
        \/ \E point \in {"markRollback", "resumeMarkRollback", "catch"} :
             deployer' = [deployer EXCEPT !.at = point]
        \/ deployer' = [deployer EXCEPT !.at = "catch", !.settlementFailed = TRUE]
    BY <1>1 DEF Release!Throw
  <2>2. deployer \in Release!Deployer
    BY <1>0
  <2> HIDE DEF Release!TypeOK, Release!Journal, Release!Pair, Release!Database,
               PointsInv, OwnTransition, Recovering
  <2>3. {"markRollback", "resumeMarkRollback", "catch"} \subseteq Release!Points
    BY DEF Release!Points
  <2> HIDE DEF Release!Points
  <2>4. deployer' \in Release!Deployer
    <3>1. CASE deployer' = Release!Idle
      BY <3>1, IdleTyped
    <3>2. ASSUME NEW point \in {"markRollback", "resumeMarkRollback", "catch"},
                 deployer' = [deployer EXCEPT !.at = point]
          PROVE  deployer' \in Release!Deployer
      BY <2>2, <2>3, <3>2 DEF Release!Deployer
    <3>3. CASE deployer' = [deployer EXCEPT !.at = "catch", !.settlementFailed = TRUE]
      BY <2>2, <2>3, <3>3 DEF Release!Deployer
    <3> QED
      BY <2>1, <3>1, <3>2, <3>3
  <2> QED
    BY <1>0, <1>1, <2>4 DEF Release!Throw, Release!TypeOK
<1>2. CASE Release!Crash
  BY <1>0, <1>2, IdleTyped
     DEF Release!Crash, Release!Idle
<1>3. CASE Release!Reboot
  BY <1>0, <1>3, IdleTyped
     DEF Release!Reboot, Release!Idle, Release!Started
<1>4. CASE Release!Write
  <2>1. PICK recorded \in {live.recorded, FALSE} :
          live' = [live EXCEPT !.recorded = recorded, !.written = TRUE]
    BY <1>4 DEF Release!Write
  <2>2. live \in Release!Database
    BY <1>0, <1>4 DEF Release!Write
  <2> HIDE DEF Release!TypeOK, Release!Journal, Release!Pair, Release!Database,
               PointsInv, OwnTransition, Recovering
  <2>3. live' \in Release!Database
    BY <2>1, <2>2 DEF Release!Database
  <2> QED
    BY <1>0, <1>4, <2>3 DEF Release!Write, Release!TypeOK
<1> QED
  BY <1>1, <1>2, <1>3, <1>4

(* Failures and the host: the record, the journal and the points.          *)
LEMMA HostKept ==
  ASSUME ReleaseInv,
         Release!Throw \/ Release!Crash \/ Release!Reboot \/ Release!Write
  PROVE  RecordInv' /\ PointsInv'
<1> USE DEF Release!At, Release!Goto, Release!durable, Release!TypeOK,
            Release!Journal, Release!Pair, Release!Database, Release!Deployer,
            Release!Transitions, RecordInv, Kept, Older, LiveFits, SettledInv,
            JournalInv, Release!Committed, Release!WithoutJournalAuthoritativeRuns,
            PointsInv, OwnTransition, Recovering, Unjournaled, Replacing, Preparing,
            Promoting, Committing, Resuming, Restoring, Restored, Stopped,
            Release!Expected
<1>0. /\ Release!TypeOK /\ PointsInv /\ RecordInv
      /\ None \notin Releases /\ MaximumTransitions \in Nat
      /\ None \notin Release!Transitions /\ None \notin Release!Database
      /\ None \notin Release!Pair /\ None \notin Release!Journal
  BY ReleaseTyped
<1>1. CASE Release!Throw
  <2>1. RecordInv'
    BY <1>0, <1>1
       DEF Release!Throw, Release!Idle, Release!TryPoints
  <2>2. PointsInv'
    BY <1>0, <1>1
       DEF Release!Throw, Release!Idle, Release!TryPoints
  <2> QED
    BY <2>1, <2>2
<1>2. CASE Release!Crash
  <2>1. RecordInv'
    BY <1>0, <1>2
       DEF Release!Crash, Release!Idle
  <2>2. PointsInv'
    BY <1>0, <1>2
       DEF Release!Crash, Release!Idle
  <2> QED
    BY <2>1, <2>2
<1>3. CASE Release!Reboot
  <2>1. RecordInv'
    BY <1>0, <1>3
       DEF Release!Reboot, Release!Idle, Release!Started
  <2>2. PointsInv'
    BY <1>0, <1>3
       DEF Release!Reboot, Release!Idle, Release!Started
  <2> QED
    BY <2>1, <2>2
<1>4. CASE Release!Write
  <2>1. PICK recorded \in {live.recorded, FALSE} :
          live' = [live EXCEPT !.recorded = recorded, !.written = TRUE]
    BY <1>4 DEF Release!Write
  <2>2. live \in Release!Database
    BY <1>0, <1>4 DEF Release!Write
  <2>3. services # None /\ UNCHANGED <<journal, activation, snapshots, workspace, artifacts,
                                       pointer, services, deployer, transitions>>
    BY <1>4 DEF Release!Write
  <2> HIDE DEF Release!TypeOK, Release!Journal, Release!Pair, Release!Deployer,
               PointsInv, RecordInv
  <2>4. /\ live' \in Release!Database /\ live'.schema = live.schema
        /\ live'.recorded => live.recorded
    BY <2>1, <2>2 DEF Release!Database
  <2> HIDE DEF Release!Database
  <2>5. live # None /\ live' # None
    BY <1>0, <2>2, <2>4
  <2>6. RecordInv'
    BY <1>0, <2>3, <2>4, <2>5 DEF RecordInv
  <2>7. PointsInv'
    BY <1>0, <2>3, <2>4, <2>5 DEF PointsInv
  <2> QED
    BY <2>6, <2>7
<1> QED
  BY <1>1, <1>2, <1>3, <1>4

LEMMA ReleaseGoesOn == ReleaseInv /\ Release!Next => ReleaseInv'
BY SessionTyped, SessionKept, TransitionTyped, TransitionKept, RecoveryTyped, RecoveryKept,
   HostTyped, HostKept
   DEF ReleaseInv, Release!Next

(* What the invariant says of the pair the system can count on.            *)
LEMMA ReleaseKeepsPair ==
  ASSUME ReleaseInv
  PROVE  Release!DatabasesRetained /\ Release!WithoutJournalAuthoritativeRuns
<1>0. /\ Release!TypeOK /\ PointsInv /\ RecordInv
      /\ None \notin Releases /\ MaximumTransitions \in Nat
      /\ None \notin Release!Transitions /\ None \notin Release!Database
      /\ None \notin Release!Pair /\ None \notin Release!Journal
  BY ReleaseTyped
<1>1. Kept(activation) /\ SettledInv /\ JournalInv
  BY <1>0 DEF RecordInv
<1>2. Release!RollbackPairRetained
  BY <1>1 DEF Kept, Release!RollbackPairRetained
<1>3. Release!WithoutJournalAuthoritativeRuns
  BY <1>1 DEF SettledInv, Release!WithoutJournalAuthoritativeRuns
<1>4. Release!AuthoritativeDatabaseSurvives
  <2>1. CASE journal = None
    BY <1>1, <2>1 DEF SettledInv, LiveFits, Release!AuthoritativeDatabaseSurvives,
       Release!Authoritative
  <2>2. CASE journal # None
    <3>1. journal \in Release!Journal
      BY <1>0, <2>2 DEF Release!TypeOK
    <3> QED
      BY <1>1, <2>2, <3>1
         DEF JournalInv, LiveFits, Release!AuthoritativeDatabaseSurvives,
             Release!Authoritative, Release!Committed, Release!Journal
  <2> QED
    BY <2>1, <2>2
<1> QED
  BY <1>2, <1>3, <1>4 DEF Release!DatabasesRetained

-----------------------------------------------------------------------------
(* The services side by side                                               *)

ServicesInv == GateInv /\ TasksInv /\ ReleaseInv /\ WriteInv /\ LogsInv

LEMMA GateStays == GateInv /\ UNCHANGED vars => GateInv'
<1> SUFFICES ASSUME GateInv, UNCHANGED vars PROVE GateInv'
  OBVIOUS
<1> USE DEF vars, permits, callerVars, workerVars, signals, settlementVars
<1>1. FibersTyped'
  BY DEF GateInv, FibersTyped
<1>2. PermitsCounted'
  <2>1. \A places : Holders(places)' = Holders(places)
    BY DEF Holders
  <2> QED
    BY <2>1 DEF GateInv, PermitsCounted
<1>3. \A c \in Calls : CallInv(c)'
  BY DEF GateInv, CallInv, Settled
<1> QED
  BY <1>1, <1>2, <1>3 DEF GateInv

LEMMA TasksStay == TasksInv /\ UNCHANGED tasksVars => TasksInv'
BY DEF TasksInv, tasksVars, Tasks!TypeOK, Tasks!DeliveredWasAccepted

LEMMA ReleaseStays == ReleaseInv /\ UNCHANGED releaseVars => ReleaseInv'
BY DEF ReleaseInv, releaseVars, Release!TypeOK, RecordInv, Kept, Older, LiveFits,
       SettledInv, JournalInv, Release!Committed, Release!WithoutJournalAuthoritativeRuns,
       PointsInv, OwnTransition, Recovering, Release!Expected

LEMMA WritesStay == WriteInv /\ UNCHANGED writesVars => WriteInv'
BY DEF WriteInv, writesVars, Writes!TypeOK

LEMMA LogsStay == LogsInv /\ UNCHANGED logsVars => LogsInv'
BY DEF LogsInv, logsVars, Logs!TypeOK, RunInv, ReadersInv, Seen, Fits

LEMMA ServicesBegin == ServicesInit => ServicesInv
BY GateBegins, TasksBegin, ReleaseBegins, WritesBegin, LogsBegin
   DEF ServicesInit, ServicesInv

LEMMA ServicesGoOn == ServicesInv /\ [ServicesNext]_serviceVars => ServicesInv'
<1> SUFFICES ASSUME ServicesInv, [ServicesNext]_serviceVars
             PROVE  ServicesInv'
  OBVIOUS
<1>1. GateInv'
  BY GateGoesOn, GateStays
     DEF ServicesInv, ServicesNext, serviceVars, AuthenticationStep, TasksStep,
         ReleaseStep, WritesStep, LogsStep
<1>2. TasksInv'
  BY TasksGoOn, TasksStay
     DEF ServicesInv, ServicesNext, serviceVars, AuthenticationStep, TasksStep,
         ReleaseStep, WritesStep, LogsStep
<1>3. ReleaseInv'
  BY ReleaseGoesOn, ReleaseStays
     DEF ServicesInv, ServicesNext, serviceVars, AuthenticationStep, TasksStep,
         ReleaseStep, WritesStep, LogsStep
<1>4. WriteInv'
  BY WritesGoOn, WritesStay
     DEF ServicesInv, ServicesNext, serviceVars, AuthenticationStep, TasksStep,
         ReleaseStep, WritesStep, LogsStep
<1>5. LogsInv'
  BY LogsGoOn, LogsStay
     DEF ServicesInv, ServicesNext, serviceVars, AuthenticationStep, TasksStep,
         ReleaseStep, WritesStep, LogsStep
<1> QED
  BY <1>1, <1>2, <1>3, <1>4, <1>5 DEF ServicesInv

(* Every reachable state of the services satisfies their invariants.       *)
THEOREM ServicesInvariance == ServicesSpec => []ServicesInv
BY ServicesBegin, ServicesGoOn, PTL DEF ServicesSpec

(* The tables, files and records of the services keep their types, and no  *)
(* more permits are out than the gate has.                                 *)
THEOREM ServicesStayConsistent == ServicesSpec => []ServicesConsistent
<1>1. ASSUME GateInv PROVE TypeOK
  <2>1. /\ MaximumConcurrent \in Nat /\ MaximumQueued \in Nat
    BY GateAssumption
  <2>2. Holders(HoldsActive) \subseteq Holders(HoldsAdmission)
    BY DEF Holders, HoldsActive, HoldsAdmission
  <2>3. /\ Cardinality(Holders(HoldsActive)) \in Nat
        /\ Cardinality(Holders(HoldsAdmission)) \in Nat
    BY <1>1, <2>2, FS_Subset, FS_CardinalityType DEF GateInv, PermitsCounted
  <2>4. active \in 0 .. MaximumConcurrent
    BY <1>1, <2>1, <2>3 DEF GateInv, PermitsCounted
  <2>5. admitted \in 0 .. (MaximumConcurrent + MaximumQueued)
    BY <1>1, <2>1, <2>3 DEF GateInv, PermitsCounted
  <2> QED
    BY <1>1, <2>4, <2>5 DEF GateInv, FibersTyped, CallerPlaces, Outcomes, TypeOK
<1>2. ServicesInv => ServicesConsistent
  BY <1>1 DEF ServicesInv, ServicesConsistent, TasksInv, ReleaseInv, WriteInv, LogsInv
<1> QED
  BY <1>2, ServicesInvariance, PTL

(* No more password hashes run at once than the gate allows, and the work  *)
(* of a call that gave back its permits has ended with its settlement.     *)
THEOREM PermitsAreKept == ServicesSpec => []GateKeepsPermits
<1>1. ASSUME GateInv PROVE GateKeepsPermits
  <2> DEFINE pending == {c \in Calls : work[c] = "pending"}
  <2>1. pending \subseteq Holders(HoldsActive)
    BY <1>1 DEF GateInv, CallInv, Holders, HoldsActive
  <2>2. Holders(HoldsActive) \subseteq Holders(HoldsAdmission)
    BY DEF Holders, HoldsActive, HoldsAdmission
  <2>3. IsFiniteSet(Holders(HoldsActive))
    BY <1>1, <2>2, FS_Subset DEF GateInv, PermitsCounted
  <2>4. /\ Cardinality(pending) \in Nat /\ Cardinality(Holders(HoldsActive)) \in Nat
        /\ Cardinality(pending) <= Cardinality(Holders(HoldsActive))
    <3>1. IsFiniteSet(pending) /\ Cardinality(pending) <= Cardinality(Holders(HoldsActive))
      BY <2>1, <2>3, FS_Subset
    <3> QED
      BY <2>3, <3>1, FS_CardinalityType
  <2>5. Cardinality(Holders(HoldsActive)) <= MaximumConcurrent
    BY <1>1, <2>4, GateAssumption DEF GateInv, PermitsCounted
  <2>6. Cardinality(pending) <= MaximumConcurrent
    BY <2>4, <2>5, GateAssumption
  <2> QED
    BY <1>1, <2>6 DEF GateInv, CallInv, GateKeepsPermits
<1> QED
  BY <1>1, ServicesInvariance, PTL DEF ServicesInv

(* What a caller is told is what happened: to the settlement of its        *)
(* authentication, to its write, and to the log that a cursor names.       *)
THEOREM AnswersStayTrue == ServicesSpec => []AnswersAreTrue
<1>1. GateInv => AnswerMatchesSettlement
  BY DEF GateInv, CallInv, AnswerMatchesSettlement
<1>2. WriteInv => Writes!AnswerMatchesDatabase
  BY DEF WriteInv, Writes!AnswerMatchesDatabase
<1>3. LogsInv => Logs!GenerationNamesOneFile
  BY DEF LogsInv, ReadersInv, Logs!GenerationNamesOneFile
<1> QED
  BY <1>1, <1>2, <1>3, ServicesInvariance, PTL DEF ServicesInv, AnswersAreTrue

(* A notification that is marked as delivered was taken by the gateway.    *)
THEOREM NoNotificationIsLost == ServicesSpec => []DeliveredWasAccepted
BY ServicesInvariance, PTL DEF ServicesInv, TasksInv, DeliveredWasAccepted

(* Whatever step of an activation or of its recovery throws, and wherever  *)
(* the deployer or the host stops: the authoritative release keeps its     *)
(* database, the record keeps the pair to roll back to, and without a      *)
(* journal nothing but the authoritative release runs.                     *)
THEOREM PairIsKept == ServicesSpec => []AuthoritativePairKept
<1>1. ServicesInv => AuthoritativePairKept
  BY ReleaseKeepsPair DEF ServicesInv, AuthoritativePairKept
<1> QED
  BY <1>1, ServicesInvariance, PTL

(* The live database file is replaced or removed under no process.         *)
THEOREM LiveIsReplacedWhileStopped == ServicesSpec => ReplacedWhileStopped
<1> DEFINE Replaced == deployer.at \in {"promote", "restore", "remove"} /\ live' # live
<1>1. ServicesInv => (deployer.at \in {"promote", "restore", "remove"} => services = None)
  BY DEF ServicesInv, ReleaseInv, PointsInv, Stopped, Preparing
<1>2. ServicesInv /\ [ServicesNext]_serviceVars => [Replaced => services = None]_(Release!vars)
  BY <1>1
<1> QED
  BY <1>2, ServicesInvariance, PTL
     DEF ServicesSpec, ReplacedWhileStopped, Release!ReplacedWhileStopped

(* A line that the rotation has seen is in an archive before the log is    *)
(* cut, over stops of the engine and the recoveries that go on from them.  *)
THEOREM TruncatedLinesAreArchived == ServicesSpec => TruncatedIsArchived
<1> DEFINE Archived(line) ==
             \/ line > engine.view.end
             \/ \E i \in DOMAIN archives : line \in archives[i].first .. archives[i].last
           Truncation == logFile'.number = logFile.number =>
                           \A line \in (logFile.start + 1) .. logFile'.start : Archived(line)
<1>1. ASSUME LogsInv, Logs!Next PROVE Truncation
  <2>1. /\ logFile \in [number : 1 .. MaximumFiles, start : Logs!Lines,
                         present : BOOLEAN, trusted : BOOLEAN]
        /\ MaximumFiles \in Nat /\ MaximumLines \in Nat
    BY <1>1, ConstantsMeetAssumptions DEF LogsInv, Logs!TypeOK, Logs!RotationAssumption
  <2>2. logFile.number \in Nat /\ logFile.start \in Nat
    BY <2>1 DEF Logs!Lines
  <2>3. CASE Logs!Truncate
    <3>1. CASE logFile.present /\ logFile.number = engine.view.file
      <4>1. logFile'.start = written /\ engine.pc = "verified"
        BY <2>1, <2>3, <3>1 DEF Logs!Truncate
      <4>2. /\ engine.view.start = logFile.start
            /\ \E i \in DOMAIN archives : /\ archives[i].first = engine.view.start + 1
                                          /\ archives[i].last = engine.view.end
        BY <1>1, <3>1, <4>1 DEF LogsInv, RunInv, Logs!EngineSteps
      <4>3. engine.view.end \in Int /\ written \in Int
        BY <1>1, <2>1, <4>1, SMTT(30) DEF LogsInv, Logs!TypeOK, Logs!Idle, Logs!View, Logs!Lines
      <4> QED
        BY <2>2, <4>1, <4>2, <4>3
    <3>2. CASE ~(logFile.present /\ logFile.number = engine.view.file)
      BY <2>2, <2>3, <3>2 DEF Logs!Truncate
    <3> QED
      BY <3>1, <3>2
  <2>4. CASE ~Logs!Truncate
    <3>1. \/ UNCHANGED logFile
          \/ logFile' = [logFile EXCEPT !.present = FALSE]
          \/ logFile' = [logFile EXCEPT !.trusted = ~@]
          \/ logFile' = [number |-> logFile.number + 1, start |-> written,
                         present |-> TRUE, trusted |-> TRUE]
      BY <1>1, <2>4
         DEF Logs!Next, Logs!EngineStep, Logs!WriteLine, Logs!RemoveLog,
             Logs!ChangeAccess, Logs!RunWithoutLog, Logs!Run, Logs!LinkArchive, Logs!UnlinkStage,
             Logs!MarkRotating, Logs!Verify, Logs!Commit, Logs!Retain,
             Logs!RetentionThrows, Logs!VerificationFails, Logs!Stop, Logs!ProbeBefore,
             Logs!ReadWindow, Logs!ProbeAfter, Logs!RestartWeb, Logs!disk,
             Logs!readerVars
    <3>2. logFile'.number = logFile.number => logFile'.start = logFile.start
      BY <2>1, <2>2, <3>1
    <3> QED
      BY <2>2, <3>2
  <2> QED
    BY <2>3, <2>4
<1>2. ServicesInv /\ [ServicesNext]_serviceVars => [Truncation]_(Logs!vars)
  <2> SUFFICES ASSUME ServicesInv, ServicesNext PROVE [Truncation]_(Logs!vars)
    BY DEF serviceVars, logsVars, Logs!vars, Logs!disk, Logs!readerVars
  <2> HIDE DEF Truncation
  <2> QED
    BY <1>1 DEF ServicesInv, ServicesNext, AuthenticationStep, TasksStep, ReleaseStep,
       WritesStep, LogsStep, logsVars, Logs!vars, Logs!disk, Logs!readerVars
<1> QED
  BY <1>2, ServicesInvariance, PTL
     DEF ServicesSpec, TruncatedIsArchived, Logs!TruncatedIsArchived
=============================================================================
