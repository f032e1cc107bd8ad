------------------------- MODULE JobRunEvents_proofs -------------------------
(***************************************************************************)
(* The event budget of a run, for every attempt maximum and every size of  *)
(* the payload share, as long as the structural reserve holds three events *)
(* for every attempt and three more.  The reserve of 33 is exact for ten   *)
(* attempts of a run that no release startup recovers; a delivery run that *)
(* starts with three attempts needs 39.                                    *)
(*                                                                         *)
(* The argument counts structural events: an attempt costs its claim and,  *)
(* if it is repeated, the two events of the requeue, or three when it was  *)
(* the last of its limit and a release startup granted another; the        *)
(* remaining ones are the queued event, one truncation mark, one           *)
(* cancellation request and the one or two events of the end.              *)
(***************************************************************************)
EXTENDS JobRunEvents, TLAPS

NeededReserve(d) ==
  IF d.delivery THEN 4 * AttemptMaximum + 2 - d.attemptLimit ELSE 3 * AttemptMaximum + 3

Structural == eventCount - payloadEventCount
Mark == IF truncated THEN 1 ELSE 0
Request == IF cancelRequested THEN 1 ELSE 0

(* The attempts that release startups added.                               *)
Granted == attemptLimit - definition.attemptLimit

DeliveryEndInv ==
  Structural <= 3 * attemptCount + Mark + Granted
                  + (IF attemptCount >= attemptLimit THEN 1 ELSE 0)

BudgetInv ==
  /\ Granted >= 0
  /\ definition.delivery => ~cancelRequested
  /\ ~definition.delivery => Granted = 0
  /\ state = "queued" =>
       /\ attemptCount < attemptLimit
       /\ ~cancelRequested
       /\ Structural <= 3 * attemptCount + 1 + Mark + Granted
  /\ state = "running" =>
       /\ attemptCount > 0
       /\ Structural <= 3 * attemptCount - 1 + Mark + Request + Granted
  /\ state \notin {"queued", "running"} =>
       IF definition.delivery THEN DeliveryEndInv ELSE Structural <= 3 * AttemptMaximum + 3

IInv == TypeOK /\ BudgetInv

-----------------------------------------------------------------------------
(* The invariant holds when the run is queued.                             *)
LEMMA InitIInv ==
  ASSUME Init
  PROVE  IInv
<1>1. /\ definition.attemptLimit \in 1..AttemptMaximum
      /\ AttemptMaximum \in Nat
      /\ PayloadMaximum \in Nat
  BY EventConstants DEF Init
<1>2. TypeOK
  <2>1. truncated \in BOOLEAN /\ cancelRequested \in BOOLEAN /\ definition \in Definitions
    BY DEF Init
  <2>2. /\ state = "queued" /\ attemptCount \in 0..attemptLimit /\ eventCount \in Nat
        /\ attemptLimit \in 1..AttemptMaximum /\ payloadEventCount \in 0..PayloadMaximum
    BY <1>1 DEF Init
  <2> QED
    BY <2>1, <2>2 DEF TypeOK
<1>3. ~truncated /\ ~cancelRequested
  BY DEF Init
<1>4. BudgetInv
  BY <1>1, <1>3 DEF Init, BudgetInv, Structural, Mark, Request, Granted
<1> QED
  BY <1>2, <1>4 DEF IInv

(* Every transition preserves the invariant.                               *)
LEMMA NextIInv ==
  ASSUME IInv, [Next]_vars
  PROVE  IInv'
<1> USE EventConstants DEF IInv, TypeOK, BudgetInv, DeliveryEndInv, Structural, Mark, Request, Granted
<1>1. CASE ClaimNextRun
  BY <1>1 DEF ClaimNextRun, AppendEvents
<1>2. ASSUME NEW byteFull \in BOOLEAN, AppendClaimEvent(byteFull)
      PROVE  IInv'
  <2>1. CASE /\ ~Exhausted(byteFull)
             /\ eventCount' = eventCount + 1
             /\ payloadEventCount' = payloadEventCount + 1
             /\ UNCHANGED truncated
    <3>1. payloadEventCount' \in 0..PayloadMaximum
      BY <2>1 DEF Exhausted
    <3>2. Structural' = Structural
      BY <2>1
    <3> QED
      BY <1>2, <2>1, <3>1, <3>2 DEF AppendClaimEvent
  <2>2. CASE /\ ~truncated
             /\ truncated' = TRUE
             /\ eventCount' = eventCount + 1
             /\ UNCHANGED payloadEventCount
    <3>1. Mark' = Mark + 1 /\ Structural' = Structural + 1
      BY <2>2
    <3>2. TypeOK'
      BY <1>2, <2>2 DEF AppendClaimEvent
    <3>3. /\ state' = "running"
          /\ UNCHANGED <<definition, attemptCount, attemptLimit, cancelRequested>>
      BY <1>2 DEF AppendClaimEvent
    <3>4. /\ attemptCount > 0
          /\ Structural <= 3 * attemptCount - 1 + Mark + Request + Granted
      BY <1>2 DEF AppendClaimEvent
    <3>5. /\ Structural \in Int /\ Mark \in Int /\ Request \in Int /\ attemptCount \in Int
          /\ Granted \in Int /\ Request' = Request /\ Granted' = Granted
          /\ Granted >= 0 /\ (~definition.delivery => Granted = 0) /\ (definition.delivery => ~cancelRequested)
      BY <3>3
    <3> HIDE DEF Structural, Mark, Request, Granted
    <3>6. Structural' <= 3 * attemptCount' - 1 + Mark' + Request' + Granted'
      BY <3>1, <3>3, <3>4, <3>5
    <3>7. BudgetInv'
      BY <3>3, <3>4, <3>5, <3>6
    <3> QED
      BY <3>2, <3>7
  <2> QED
    BY <1>2, <2>1, <2>2 DEF AppendClaimEvent
<1>3. CASE CancelRun
  BY <1>3 DEF CancelRun, AppendEvents
<1>4. CASE FailQueuedRun
  BY <1>4 DEF FailQueuedRun, AppendEvents
<1>5. CASE SettleClaim
  BY <1>5 DEF SettleClaim, MayRetry, AppendEvents
<1>6. CASE RecoverExpiredClaim
  BY <1>6 DEF RecoverExpiredClaim, MayRetry, AppendEvents
<1>7. CASE RecoverDeliveryProductionTerminalRun
  <2>1. /\ definition.delivery
        /\ state \notin {"queued", "running"}
        /\ state' = "queued"
        /\ attemptLimit' = IF attemptCount >= attemptLimit THEN attemptCount + 1
                                                          ELSE attemptLimit
        /\ attemptLimit' <= AttemptMaximum
        /\ ~cancelRequested' /\ cancelRequested' \in BOOLEAN
        /\ eventCount' = eventCount + 1
        /\ UNCHANGED <<definition, attemptCount, payloadEventCount, truncated>>
    BY <1>7 DEF RecoverDeliveryProductionTerminalRun, AppendEvents
  <2>2. attemptLimit' \in attemptLimit..AttemptMaximum /\ attemptCount' < attemptLimit'
    BY <2>1
  <2>3. TypeOK'
    BY <2>1, <2>2
  <2>4. Structural' = Structural + 1 /\ Mark' = Mark /\ Structural \in Int /\ Mark \in Int
    BY <2>1
  <2>5. DeliveryEndInv
    BY <2>1
  <2>6. Structural' <= 3 * attemptCount' + 1 + Mark' + Granted'
    <3> HIDE DEF Structural, Mark
    <3> QED
      BY <2>1, <2>4, <2>5
  <2> HIDE DEF Structural, Mark
  <2>7. BudgetInv'
    BY <2>1, <2>2, <2>6
  <2> QED
    BY <2>3, <2>7
<1>8. CASE UNCHANGED vars
  BY <1>8 DEF vars
<1> QED
  BY <1>1, <1>2, <1>3, <1>4, <1>5, <1>6, <1>7, <1>8 DEF Next

(* The invariant leaves room for every structural event.                   *)
LEMMA InvImpliesBudget ==
  ASSUME IInv, \A d \in Definitions : StructuralReserve >= NeededReserve(d)
  PROVE  EventBudget
<1>1. Structural <= NeededReserve(definition)
  BY EventConstants
  DEF IInv, TypeOK, BudgetInv, DeliveryEndInv, NeededReserve, Structural, Mark, Request, Granted
<1>2. payloadEventCount <= PayloadMaximum
  BY EventConstants DEF IInv, TypeOK
<1>3. NeededReserve(definition) \in Int /\ StructuralReserve >= NeededReserve(definition)
  BY EventConstants DEF IInv, TypeOK, NeededReserve
<1> QED
  BY <1>1, <1>2, <1>3, EventConstants DEF IInv, TypeOK, Structural, EventBudget, EventMaximum

(* Whatever its action prints, a run never meets a full history when the   *)
(* reserve is large enough: every claim, retry, cancellation request,      *)
(* truncation mark, terminal event and recovery by a release startup of up *)
(* to AttemptMaximum attempts fits.  For the ten attempts of the code that *)
(* takes the 33 slots it reserves, but 39 for a delivery run.              *)
THEOREM EventBudgetHolds ==
  ASSUME \A d \in Definitions : StructuralReserve >= NeededReserve(d)
  PROVE  Spec => []EventBudget
<1>1. Init => IInv
  BY InitIInv
<1>2. IInv /\ [Next]_vars => IInv'
  BY NextIInv
<1>3. IInv => EventBudget
  BY InvImpliesBudget
<1> QED
  BY <1>1, <1>2, <1>3, PTL DEF Spec

=============================================================================
