--------------------------- MODULE MCJobSchedules ---------------------------
(* A schedule with an interval and a cron cadence of different periods, so *)
(* that old and new occurrences sometimes coincide, and one manual run.    *)
(* In a quiet behaviour the operator leaves the cadence of an enabled      *)
(* schedule alone, though not its being enabled.                           *)
EXTENDS JobSchedules
CONSTANT m1
MCCadences == {[kind |-> "interval", period |-> 2], [kind |-> "cron", period |-> 3]}
MCInitialCadence == [kind |-> "interval", period |-> 2]

VARIABLE quiet

QuietStep ==
  (edit = NoEdit /\ edit' # NoEdit /\ schedule.enabled) => edit'.disables

ScheduleInit == Init /\ quiet \in BOOLEAN

ScheduleSpec ==
  /\ ScheduleInit
  /\ [][Next /\ (quiet => QuietStep) /\ UNCHANGED quiet]_<<vars, quiet>>
  /\ Fairness

(* See JobSchedules (DueScheduleAdvances); edits of an enabled schedule    *)
(* may put the cursor off again and again.                                 *)
QuietScheduleAdvances == quiet => DueScheduleAdvances
=============================================================================
