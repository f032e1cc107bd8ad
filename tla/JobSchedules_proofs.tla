------------------------- MODULE JobSchedules_proofs -------------------------
(***************************************************************************)
(* Theorems about module JobSchedules, for every set of cadences and of    *)
(* manual runs and for every horizon of time and versions.                 *)
(*                                                                         *)
(* The argument: what the schedule pass and the operator's update carry    *)
(* from their read to their transaction is tied to the row they read       *)
(* (PassInv, EditInv), so that whatever they commit later keeps the rows   *)
(* consistent.                                                             *)
(***************************************************************************)
EXTENDS JobSchedules, FiniteSetTheorems, TLAPS

-----------------------------------------------------------------------------
(* Occurrences                                                             *)

(* The next multiple of a period is later than the number it starts from.  *)
LEMMA NextMultiple ==
  ASSUME NEW n \in Nat, NEW period \in Nat \ {0}
  PROVE  /\ (n \div period + 1) * period \in Nat
         /\ (n \div period + 1) * period > n
<1> DEFINE q == n \div period
           m == n % period
<1>1. q \in Nat /\ m \in Nat /\ m < period /\ n = period * q + m
  BY SMTT(30)
<1> HIDE DEF q, m
<1>2. (q + 1) * period = period * q + period /\ period * q \in Nat
  BY <1>1, SMTT(30)
<1>3. (q + 1) * period \in Nat /\ (q + 1) * period > n
  BY <1>1, <1>2
<1> QED
  BY <1>3 DEF q

(* The next occurrence of a cadence lies after the instant asked for.      *)
LEMMA NextOccurrenceIsLater ==
  ASSUME NEW cadence \in Cadences, NEW after \in Nat, NEW anchor \in Nat
  PROVE  /\ NextOccurrence(cadence, after, anchor) \in Nat
         /\ NextOccurrence(cadence, after, anchor) > after
<1>1. cadence.period \in Nat \ {0}
  BY ScheduleConstants
<1>2. CASE cadence.kind = "interval" /\ anchor > after
  BY <1>2 DEF NextOccurrence
<1>3. CASE cadence.kind = "interval" /\ ~(anchor > after)
  <2> DEFINE step == ((after - anchor) \div cadence.period + 1) * cadence.period
  <2>1. after - anchor \in Nat
    BY <1>3
  <2>2. step \in Nat /\ step > after - anchor
    BY <1>1, <2>1, NextMultiple
  <2>3. NextOccurrence(cadence, after, anchor) = anchor + step
    BY <1>3 DEF NextOccurrence
  <2> HIDE DEF step
  <2> QED
    BY <2>1, <2>2, <2>3
<1>4. CASE cadence.kind # "interval"
  BY <1>1, <1>4, NextMultiple DEF NextOccurrence
<1> QED
  BY <1>2, <1>3, <1>4

-----------------------------------------------------------------------------
(* The inductive invariant                                                 *)

(* An update in flight belongs to a web process whose registry names the   *)
(* schedule, and never leaves an enabled row with a pause.                 *)
EditInv ==
  edit # NoEdit =>
    /\ webRegisters
    /\ edit.enabled => edit.intent = NoIntent

(* A pass in flight saw a due occurrence and moves beyond its instant.     *)
PassInv ==
  pass # NoPass =>
    /\ pass.observed <= pass.at
    /\ pass.at <= now
    /\ pass.nextRunAt > pass.at

PauseInv == schedule.enabled => intent = NoIntent

(* OneActiveRun run by run.                                                *)
AtMostOneActive ==
  /\ \A t, u \in Occurrences : Active(scheduledRun[t]) /\ Active(scheduledRun[u]) => t = u
  /\ \A m, n \in ManualRuns : Active(manualRun[m]) /\ Active(manualRun[n]) => m = n
  /\ \A t \in Occurrences, m \in ManualRuns : ~(Active(scheduledRun[t]) /\ Active(manualRun[m]))

IInv ==
  /\ TypeOK
  /\ EditInv
  /\ PassInv
  /\ PauseInv
  /\ RetiredStaysDisabled
  /\ AtMostOneActive

(* The invariant holds at the start.                                       *)
LEMMA InitIInv ==
  ASSUME Init
  PROVE  IInv
<1>1. NextOccurrence(InitialCadence, 0, 0) \in Nat
  BY ScheduleConstants, NextOccurrenceIsLater
<1>2. TypeOK
  BY <1>1, ScheduleConstants DEF Init, TypeOK, ScheduleRow, RunStates, Occurrences
<1>3. /\ EditInv
      /\ PassInv
      /\ PauseInv
      /\ RetiredStaysDisabled
      /\ AtMostOneActive
  BY DEF Init, EditInv, PassInv, PauseInv, RetiredStaysDisabled, AtMostOneActive, Active
<1> QED
  BY <1>2, <1>3 DEF IInv

(* Occurrences that end, or stay as they are, leave at most one active.    *)
LEMMA FewerActive ==
  ASSUME AtMostOneActive,
         \A t \in Occurrences : Active(scheduledRun'[t]) => Active(scheduledRun[t]),
         \A m \in ManualRuns : Active(manualRun'[m]) => Active(manualRun[m])
  PROVE  AtMostOneActive'
BY DEF AtMostOneActive

(* The first active run may be a scheduled one or a manual one.            *)
LEMMA FirstActive ==
  ASSUME ~RunActive,
         \/ /\ UNCHANGED manualRun
            /\ \E t \in Occurrences : \A u \in Occurrences \ {t} :
                 scheduledRun'[u] = scheduledRun[u]
         \/ /\ UNCHANGED scheduledRun
            /\ \E m \in ManualRuns : \A n \in ManualRuns \ {m} :
                 manualRun'[n] = manualRun[n]
  PROVE  AtMostOneActive'
BY DEF RunActive, AtMostOneActive

(* Ending the queued runs keeps the types and activates nothing.           *)
LEMMA EndedQueuedRuns ==
  ASSUME TypeOK, EndQueuedRuns
  PROVE  /\ scheduledRun' \in [Occurrences -> RunStates]
         /\ \A t \in Occurrences : /\ Active(scheduledRun'[t]) => Active(scheduledRun[t])
                                   /\ scheduledRun[t] = "absent" => scheduledRun'[t] = "absent"
BY DEF TypeOK, EndQueuedRuns, QueuedRuns, RunStates, Active

(* A schedule that resumes is a row whose version and cursor went on.      *)
LEMMA ResumedRow ==
  ASSUME TypeOK
  PROVE  Resumed \in ScheduleRow /\ Resumed.enabled
<1> DEFINE next == NextOccurrence(schedule.cadence, now, schedule.nextRunAt)
<1>1. /\ schedule \in ScheduleRow
      /\ schedule.cadence \in Cadences
      /\ schedule.nextRunAt \in Nat
      /\ now \in Nat
  BY ScheduleConstants DEF TypeOK, ScheduleRow
<1>2. next \in Nat
  BY <1>1, NextOccurrenceIsLater
<1> HIDE DEF next
<1>3. Resumed = [schedule EXCEPT !.enabled = TRUE, !.version = schedule.version + 1,
                                 !.nextRunAt = next]
  BY DEF Resumed, next
<1>4. schedule.version + 1 \in Nat
  BY <1>1 DEF ScheduleRow
<1> QED
  BY <1>1, <1>2, <1>3, <1>4 DEF ScheduleRow

-----------------------------------------------------------------------------
(* Every action preserves the invariant                                    *)

(* ListDueSchedules                                                        *)
LEMMA ListDueSchedulesIInv ==
  ASSUME IInv, ListDueSchedules
  PROVE  IInv'
<1> DEFINE next == NextOccurrence(schedule.cadence, now, schedule.nextRunAt)
<1>1. /\ schedule.cadence \in Cadences
      /\ schedule.nextRunAt \in Nat
      /\ schedule.version \in Nat
      /\ now \in Nat
  BY ScheduleConstants DEF IInv, TypeOK, ScheduleRow
<1>2. next \in Nat /\ next > now
  BY <1>1, NextOccurrenceIsLater
<1>3. pass' = [at |-> now, observed |-> schedule.nextRunAt, version |-> schedule.version,
               nextRunAt |-> next]
  BY DEF ListDueSchedules
<1> HIDE DEF next
<1>4. /\ schedule.nextRunAt <= now
      /\ UNCHANGED <<schedule, intent, scheduledRun, manualRun, edit, registries, now>>
  BY DEF ListDueSchedules
<1>5. pass' \in PassRow /\ PassInv'
  BY <1>1, <1>2, <1>3, <1>4 DEF PassRow, PassInv
<1>6. TypeOK'
  BY <1>4, <1>5 DEF IInv, TypeOK, registries
<1> QED
  BY <1>4, <1>5, <1>6
     DEF IInv, EditInv, PauseInv, RetiredStaysDisabled, AtMostOneActive, registries

(* EnqueueNextDueSchedule                                                  *)
LEMMA EnqueueNextDueScheduleIInv ==
  ASSUME IInv, EnqueueNextDueSchedule
  PROVE  IInv'
<1>1. /\ pass # NoPass
      /\ pass \in PassRow
      /\ pass' = NoPass
      /\ UNCHANGED <<intent, manualRun, edit, registries, now>>
  BY DEF EnqueueNextDueSchedule, IInv, TypeOK
<1>2. CASE UNCHANGED <<scheduledRun, schedule>>
  BY <1>1, <1>2 DEF IInv, TypeOK, EditInv, PassInv, PauseInv, RetiredStaysDisabled,
                    AtMostOneActive, registries
<1>3. CASE /\ ~RunActive
           /\ scheduledRun' = [scheduledRun EXCEPT ![pass.observed] = "queued"]
           /\ schedule' = [schedule EXCEPT !.nextRunAt = pass.nextRunAt]
  <2>1. pass.observed \in Occurrences
    <3>1. pass.observed \in Nat /\ pass.at \in Nat
      BY <1>1 DEF PassRow
    <3>2. pass.observed <= pass.at /\ pass.at <= now
      BY <1>1 DEF IInv, PassInv
    <3>3. now \in 0..MaxTime /\ MaxTime \in Nat
      BY ScheduleConstants DEF IInv, TypeOK
    <3> QED
      BY <3>1, <3>2, <3>3 DEF Occurrences
  <2>2. schedule' \in ScheduleRow /\ schedule'.enabled = schedule.enabled
    BY <1>1, <1>3 DEF IInv, TypeOK, ScheduleRow, PassRow
  <2>3. /\ scheduledRun' \in [Occurrences -> RunStates]
        /\ \A u \in Occurrences \ {pass.observed} : scheduledRun'[u] = scheduledRun[u]
    BY <1>3, <2>1 DEF IInv, TypeOK, RunStates
  <2>4. AtMostOneActive'
    BY <1>1, <1>3, <2>1, <2>3, FirstActive
  <2>5. TypeOK'
    BY <1>1, <2>2, <2>3 DEF IInv, TypeOK, registries
  <2> QED
    BY <1>1, <2>2, <2>4, <2>5
       DEF IInv, EditInv, PassInv, PauseInv, RetiredStaysDisabled, registries
<1> QED
  BY <1>2, <1>3 DEF EnqueueNextDueSchedule

(* ExpireDisableIntents                                                    *)
LEMMA ExpireDisableIntentsIInv ==
  ASSUME IInv, ExpireDisableIntents
  PROVE  IInv'
<1>1. /\ intent' = NoIntent
      /\ UNCHANGED <<scheduledRun, manualRun, edit, pass, registries, now>>
      /\ schedule' = schedule \/ (workerRegisters /\ schedule' = Resumed)
  BY DEF ExpireDisableIntents
<1>2. schedule' \in ScheduleRow
  BY <1>1, ResumedRow DEF IInv, TypeOK
<1>3. TypeOK'
  BY <1>1, <1>2 DEF IInv, TypeOK, registries
<1>4. RetiredStaysDisabled'
  BY <1>1 DEF IInv, RetiredStaysDisabled, registries
<1> QED
  BY <1>1, <1>3, <1>4 DEF IInv, EditInv, PassInv, PauseInv, AtMostOneActive, registries

(* ReadSchedule                                                            *)
LEMMA ReadScheduleIInv ==
  ASSUME IInv, ReadSchedule
  PROVE  IInv'
<1>1. PICK p \in Patches :
        LET enabled == IF p.enabled = "keep" THEN schedule.enabled ELSE p.enabled = "on"
            anchor == IF p.setsCadence THEN now ELSE schedule.nextRunAt
            recalculates == enabled \/ p.setsCadence
        IN edit' = [enabled |-> enabled, cadence |-> p.cadence,
                    disables |-> p.enabled = "off",
                    version |-> schedule.version,
                    hadIntent |-> intent # NoIntent,
                    intent |-> CASE p.enabled = "on" -> NoIntent
                                 [] p.enabled = "off" -> [expiresAt |-> p.expiresAt]
                                 [] p.enabled = "keep" -> intent,
                    recalculates |-> recalculates,
                    nextRunAt |-> IF recalculates
                                  THEN NextOccurrence(p.cadence, now, anchor)
                                  ELSE schedule.nextRunAt]
  BY DEF ReadSchedule
<1> DEFINE anchor == IF p.setsCadence THEN now ELSE schedule.nextRunAt
<1>2. /\ schedule.enabled \in BOOLEAN
      /\ schedule.nextRunAt \in Nat
      /\ schedule.version \in Nat
      /\ intent \in IntentRow \cup {NoIntent}
      /\ now \in Nat
  BY ScheduleConstants DEF IInv, TypeOK, ScheduleRow
<1>3. /\ p.enabled \in {"on", "off", "keep"}
      /\ p.setsCadence \in BOOLEAN
      /\ p.cadence \in Cadences
      /\ p.expiresAt \in Nat \cup {NoExpiry}
  BY <1>2, ScheduleConstants DEF Patches
<1>4. anchor \in Nat
  BY <1>2, <1>3
<1>5. NextOccurrence(p.cadence, now, anchor) \in Nat
  BY <1>2, <1>3, <1>4, NextOccurrenceIsLater
<1>6. [expiresAt |-> p.expiresAt] \in IntentRow
  BY <1>3 DEF IntentRow
<1>7. edit' \in EditRow
  BY <1>1, <1>2, <1>3, <1>5, <1>6 DEF EditRow
<1>8. edit'.enabled => edit'.intent = NoIntent
  BY <1>1, <1>2, <1>3 DEF IInv, PauseInv
<1>9. webRegisters /\ UNCHANGED <<schedule, intent, scheduledRun, manualRun, pass,
                                  registries, now>>
  BY DEF ReadSchedule
<1>10. TypeOK'
  BY <1>7, <1>9 DEF IInv, TypeOK, registries
<1> QED
  BY <1>8, <1>9, <1>10
     DEF IInv, EditInv, PassInv, PauseInv, RetiredStaysDisabled, AtMostOneActive, registries

(* UpdateSchedule                                                          *)
LEMMA UpdateScheduleIInv ==
  ASSUME IInv, UpdateSchedule
  PROVE  IInv'
<1>1. /\ edit # NoEdit
      /\ edit \in EditRow
      /\ edit' = NoEdit
      /\ UNCHANGED <<manualRun, pass, registries, now>>
  BY DEF UpdateSchedule, IInv, TypeOK
<1>2. CASE UNCHANGED <<schedule, intent, scheduledRun>>
  BY <1>1, <1>2 DEF IInv, TypeOK, EditInv, PassInv, PauseInv, RetiredStaysDisabled,
                    AtMostOneActive, registries
<1>3. CASE /\ schedule' = [enabled |-> edit.enabled, cadence |-> edit.cadence,
                           version |-> schedule.version + 1,
                           nextRunAt |-> IF edit.recalculates THEN edit.nextRunAt
                                                              ELSE schedule.nextRunAt]
           /\ intent' = edit.intent
           /\ IF edit.disables THEN EndQueuedRuns ELSE UNCHANGED scheduledRun
  <2>1. schedule' \in ScheduleRow /\ schedule'.enabled = edit.enabled
    BY <1>1, <1>3 DEF IInv, TypeOK, ScheduleRow, EditRow
  <2>2. intent' \in IntentRow \cup {NoIntent}
    BY <1>1, <1>3 DEF EditRow
  <2>3. /\ scheduledRun' \in [Occurrences -> RunStates]
        /\ \A t \in Occurrences : Active(scheduledRun'[t]) => Active(scheduledRun[t])
    BY <1>3, EndedQueuedRuns DEF IInv, TypeOK
  <2>4. AtMostOneActive'
    BY <1>1, <2>3, FewerActive DEF IInv
  <2>5. TypeOK'
    BY <1>1, <2>1, <2>2, <2>3 DEF IInv, TypeOK, registries
  <2>6. PauseInv' /\ RetiredStaysDisabled'
    BY <1>1, <1>3, <2>1 DEF IInv, EditInv, PauseInv, RetiredStaysDisabled, registries
  <2> QED
    BY <1>1, <2>4, <2>5, <2>6 DEF IInv, EditInv, PassInv
<1> QED
  BY <1>2, <1>3 DEF UpdateSchedule

(* RunSchedule                                                             *)
LEMMA RunScheduleIInv ==
  ASSUME IInv, NEW m \in ManualRuns, RunSchedule(m)
  PROVE  IInv'
<1>1. /\ ~RunActive
      /\ manualRun' = [manualRun EXCEPT ![m] = "queued"]
      /\ UNCHANGED <<schedule, intent, scheduledRun, edit, pass, registries, now>>
  BY DEF RunSchedule
<1>2. /\ manualRun' \in [ManualRuns -> RunStates]
      /\ \A n \in ManualRuns \ {m} : manualRun'[n] = manualRun[n]
  BY <1>1 DEF IInv, TypeOK, RunStates
<1>3. AtMostOneActive'
  BY <1>1, <1>2, FirstActive
<1>4. TypeOK'
  BY <1>1, <1>2 DEF IInv, TypeOK, registries
<1> QED
  BY <1>1, <1>3, <1>4
     DEF IInv, EditInv, PassInv, PauseInv, RetiredStaysDisabled, registries

(* ReconcileSchedules writes a row of the schedule, never enables it, and  *)
(* leaves it disabled when the current release does not name it.           *)
LEMMA ReconciledSchedules ==
  ASSUME IInv, NEW metadataChanged \in BOOLEAN, ReconcileSchedules(metadataChanged)
  PROVE  /\ schedule' \in ScheduleRow
         /\ schedule'.enabled => schedule.enabled
         /\ ~releaseRegisters => ~schedule'.enabled
         /\ scheduledRun' \in [Occurrences -> RunStates]
         /\ \A t \in Occurrences : /\ Active(scheduledRun'[t]) => Active(scheduledRun[t])
                                   /\ scheduledRun[t] = "absent" => scheduledRun'[t] = "absent"
<1>1. TypeOK /\ schedule \in ScheduleRow
  BY DEF IInv, TypeOK
<1>2. CASE /\ releaseRegisters
           /\ schedule' = [schedule EXCEPT !.version = @ + 1]
           /\ UNCHANGED scheduledRun
  BY <1>1, <1>2 DEF ScheduleRow, TypeOK
<1>3. CASE /\ schedule' = [schedule EXCEPT !.enabled = FALSE, !.version = @ + 1]
           /\ EndQueuedRuns
  <2>1. schedule.version + 1 \in Nat
    BY <1>1 DEF ScheduleRow
  <2>2. schedule' \in ScheduleRow /\ ~schedule'.enabled
    BY <1>1, <1>3, <2>1 DEF ScheduleRow
  <2> QED
    BY <1>1, <1>3, <2>2, EndedQueuedRuns
<1>4. CASE /\ IF releaseRegisters THEN ~metadataChanged ELSE ~schedule.enabled
           /\ UNCHANGED <<schedule, scheduledRun>>
  BY <1>1, <1>4 DEF TypeOK
<1> QED
  BY <1>2, <1>3, <1>4 DEF ReconcileSchedules

(* StartWeb and StartWorker                                                *)
LEMMA StartIInv ==
  ASSUME IInv, NEW metadataChanged \in BOOLEAN,
         StartWeb(metadataChanged) \/ StartWorker(metadataChanged)
  PROVE  IInv'
<1>1. ReconcileSchedules(metadataChanged)
  BY DEF StartWeb, StartWorker
<1>2. /\ schedule' \in ScheduleRow
      /\ schedule'.enabled => schedule.enabled
      /\ ~releaseRegisters => ~schedule'.enabled
      /\ scheduledRun' \in [Occurrences -> RunStates]
      /\ \A t \in Occurrences : Active(scheduledRun'[t]) => Active(scheduledRun[t])
  BY <1>1, ReconciledSchedules
<1>3. /\ UNCHANGED <<intent, manualRun, releaseRegisters, now>>
      /\ \/ /\ webRegisters' = releaseRegisters
            /\ edit' = NoEdit
            /\ UNCHANGED <<pass, workerRegisters>>
         \/ /\ workerRegisters' = releaseRegisters
            /\ pass' = NoPass
            /\ UNCHANGED <<edit, webRegisters>>
  BY DEF StartWeb, StartWorker
<1>4. TypeOK'
  BY <1>2, <1>3 DEF IInv, TypeOK
<1>5. AtMostOneActive'
  BY <1>2, <1>3, FewerActive DEF IInv
<1>6. EditInv' /\ PassInv' /\ PauseInv'
  BY <1>2, <1>3 DEF IInv, EditInv, PassInv, PauseInv
<1>7. RetiredStaysDisabled'
  BY <1>2, <1>3 DEF IInv, TypeOK, RetiredStaysDisabled
<1> QED
  BY <1>4, <1>5, <1>6, <1>7 DEF IInv

(* MoveScheduledRun and MoveManualRun                                      *)
LEMMA MoveIInv ==
  ASSUME IInv, NEW new \in RunStates,
         \/ \E t \in Occurrences : MoveScheduledRun(t, new)
         \/ \E m \in ManualRuns : MoveManualRun(m, new)
  PROVE  IInv'
<1>1. UNCHANGED <<schedule, intent, edit, pass, registries, now>>
  BY DEF MoveScheduledRun, MoveManualRun
<1> DEFINE StartsNone ==
             /\ scheduledRun' \in [Occurrences -> RunStates]
             /\ manualRun' \in [ManualRuns -> RunStates]
             /\ \A t \in Occurrences : Active(scheduledRun'[t]) => Active(scheduledRun[t])
             /\ \A m \in ManualRuns : Active(manualRun'[m]) => Active(manualRun[m])
<1>2. StartsNone
  <2>1. ASSUME NEW t \in Occurrences, MoveScheduledRun(t, new)
        PROVE  StartsNone
    BY <2>1 DEF MoveScheduledRun, RunMoves, Active, IInv, TypeOK
  <2>2. ASSUME NEW m \in ManualRuns, MoveManualRun(m, new)
        PROVE  StartsNone
    BY <2>2 DEF MoveManualRun, RunMoves, Active, IInv, TypeOK
  <2> QED
    BY <2>1, <2>2
<1>3. AtMostOneActive'
  BY <1>2, FewerActive DEF IInv
<1>4. TypeOK'
  BY <1>1, <1>2 DEF IInv, TypeOK, registries
<1> QED
  BY <1>1, <1>3, <1>4
     DEF IInv, EditInv, PassInv, PauseInv, RetiredStaysDisabled, registries

(* ActivateRelease and Tick                                                *)
LEMMA EnvironmentIInv ==
  ASSUME IInv, ActivateRelease \/ Tick
  PROVE  IInv'
<1>1. CASE ActivateRelease
  BY <1>1 DEF ActivateRelease, IInv, TypeOK, EditInv, PassInv, PauseInv,
              RetiredStaysDisabled, AtMostOneActive
<1>2. CASE Tick
  <2>1. now' \in 0..MaxTime /\ now' > now /\ now \in Nat
    BY <1>2, ScheduleConstants DEF Tick, IInv, TypeOK
  <2>2. UNCHANGED <<schedule, intent, scheduledRun, manualRun, edit, pass, registries>>
    BY <1>2 DEF Tick
  <2>3. PassInv'
    BY <2>1, <2>2 DEF IInv, TypeOK, PassInv, PassRow
  <2>4. TypeOK'
    BY <2>1, <2>2 DEF IInv, TypeOK, registries
  <2> QED
    BY <2>2, <2>3, <2>4
       DEF IInv, EditInv, PauseInv, RetiredStaysDisabled, AtMostOneActive, registries
<1> QED
  BY <1>1, <1>2

(* Every step preserves the invariant.                                     *)
LEMMA NextIInv ==
  ASSUME IInv, [Next]_vars
  PROVE  IInv'
<1>1. CASE UNCHANGED vars
  BY <1>1 DEF vars, IInv, TypeOK, EditInv, PassInv, PauseInv, RetiredStaysDisabled,
              AtMostOneActive, registries
<1> QED
  BY <1>1, ListDueSchedulesIInv, EnqueueNextDueScheduleIInv, ExpireDisableIntentsIInv,
     ReadScheduleIInv, UpdateScheduleIInv, RunScheduleIInv, StartIInv, MoveIInv,
     EnvironmentIInv
     DEF Next

(* The inductive invariant holds throughout.                               *)
THEOREM Invariance == Spec => []IInv
<1>1. Init => IInv
  BY InitIInv
<1>2. IInv /\ [Next]_vars => IInv'
  BY NextIInv
<1> QED
  BY <1>1, <1>2, PTL DEF Spec

-----------------------------------------------------------------------------
(* What the project states about a schedule                                *)

(* The rows keep their types, and an enabled schedule never has an active  *)
(* pause: expireDisableIntents never throws.                               *)
THEOREM RowsStayConsistent == Spec => []RowsConsistent
<1>1. IInv => RowsConsistent
  BY DEF IInv, PauseInv, RowsConsistent
<1> QED
  BY <1>1, Invariance, PTL

(* A schedule that no running release names stays disabled, whatever the   *)
(* processes of the previous release still commit.                         *)
THEOREM RetiredSchedulesStayDisabled == Spec => []RetiredStaysDisabled
<1>1. IInv => RetiredStaysDisabled
  BY DEF IInv
<1> QED
  BY <1>1, Invariance, PTL

(* At most one member with a property makes a set of at most one element.  *)
LEMMA AtMostOneMember ==
  ASSUME NEW S, \A x, y \in S : x = y
  PROVE  Cardinality(S) \in {0, 1} /\ (S = {} => Cardinality(S) = 0)
<1>1. CASE S = {}
  BY <1>1, FS_EmptySet
<1>2. CASE S # {}
  <2>1. PICK x \in S : TRUE
    BY <1>2
  <2>2. S = {x}
    BY <2>1
  <2> QED
    BY <1>2, <2>2, FS_Singleton
<1> QED
  BY <1>1, <1>2

(* A schedule never has two active runs, so the partial unique index       *)
(* job_runs_one_active_schedule_idx aborts no transaction.                 *)
THEOREM AtMostOneRun == Spec => []OneActiveRun
<1>1. AtMostOneActive => OneActiveRun
  <2> SUFFICES ASSUME AtMostOneActive
               PROVE  OneActiveRun
    OBVIOUS
  <2> DEFINE S == {t \in Occurrences : Active(scheduledRun[t])}
             M == {m \in ManualRuns : Active(manualRun[m])}
  <2>1. /\ \A t, u \in S : t = u
        /\ \A m, n \in M : m = n
        /\ S = {} \/ M = {}
    BY DEF AtMostOneActive
  <2> HIDE DEF S, M
  <2>2. /\ Cardinality(S) \in {0, 1} /\ (S = {} => Cardinality(S) = 0)
        /\ Cardinality(M) \in {0, 1} /\ (M = {} => Cardinality(M) = 0)
    BY <2>1, AtMostOneMember
  <2>3. Cardinality(S) + Cardinality(M) <= 1
    BY <2>1, <2>2
  <2> QED
    BY <2>3 DEF OneActiveRun, S, M
<1>2. IInv => AtMostOneActive
  BY DEF IInv
<1> QED
  BY <1>1, <1>2, Invariance, PTL

(* Only the schedule pass inserts the run of an occurrence.                *)
LEMMA OnlyPassInserts ==
  ASSUME IInv, [Next]_vars, NEW t \in Occurrences, scheduledRun[t] = "absent",
         scheduledRun'[t] # "absent"
  PROVE  EnqueueNextDueSchedule
<1>1. CASE UpdateSchedule
  BY <1>1, EndedQueuedRuns DEF UpdateSchedule, IInv
<1>2. ASSUME NEW metadataChanged \in BOOLEAN,
             StartWeb(metadataChanged) \/ StartWorker(metadataChanged)
      PROVE  FALSE
  BY <1>2, ReconciledSchedules DEF StartWeb, StartWorker
<1>3. ASSUME NEW u \in Occurrences, NEW new \in RunStates, MoveScheduledRun(u, new)
      PROVE  FALSE
  BY <1>3 DEF MoveScheduledRun, RunMoves, Active, IInv, TypeOK
<1>4. CASE UNCHANGED scheduledRun
  BY <1>4
<1> QED
  BY <1>1, <1>2, <1>3, <1>4
     DEF Next, vars, ListDueSchedules, ExpireDisableIntents, ReadSchedule, RunSchedule,
         ActivateRelease, MoveManualRun, Tick

(* A pass inserts nothing but the due occurrence of the enabled row, which *)
(* moves on past it, however old the copy is that the pass was made from.  *)
THEOREM OnlyDueOccurrencesInserted == Spec => InsertsDueOccurrence
<1> DEFINE Due(t) ==
             scheduledRun[t] = "absent" /\ scheduledRun'[t] # "absent" =>
               /\ schedule.enabled
               /\ schedule.nextRunAt = t
               /\ t <= now
               /\ schedule'.nextRunAt > t
<1>1. ASSUME IInv, [Next]_vars, NEW t \in Occurrences
      PROVE  Due(t)
  <2> SUFFICES ASSUME scheduledRun[t] = "absent", scheduledRun'[t] # "absent"
               PROVE  /\ schedule.enabled
                      /\ schedule.nextRunAt = t
                      /\ t <= now
                      /\ schedule'.nextRunAt > t
    OBVIOUS
  <2>1. EnqueueNextDueSchedule
    BY <1>1, OnlyPassInserts
  <2>2. /\ pass # NoPass
        /\ pass \in PassRow
        /\ ScheduleUnchanged
        /\ scheduledRun' = [scheduledRun EXCEPT ![pass.observed] = "queued"]
        /\ schedule' = [schedule EXCEPT !.nextRunAt = pass.nextRunAt]
    BY <1>1, <2>1 DEF EnqueueNextDueSchedule, IInv, TypeOK
  <2>3. t = pass.observed
    BY <1>1, <2>2 DEF IInv, TypeOK
  <2>4. /\ pass.observed <= pass.at
        /\ pass.at <= now
        /\ pass.nextRunAt > pass.at
        /\ now \in Nat
    BY <1>1, <2>2, ScheduleConstants DEF IInv, PassInv, TypeOK
  <2>5. schedule'.nextRunAt = pass.nextRunAt
    BY <1>1, <2>2 DEF IInv, TypeOK, ScheduleRow
  <2> QED
    BY <2>2, <2>3, <2>4, <2>5 DEF ScheduleUnchanged, PassRow
<1>2. IInv /\ [Next]_vars => [\A t \in Occurrences : Due(t)]_vars
  BY <1>1
<1> QED
  BY <1>2, Invariance, PTL DEF Spec, InsertsDueOccurrence

=============================================================================
