SPECIFICATION ScheduleSpec
CONSTANTS
  Cadences <- MCCadences
  InitialCadence <- MCInitialCadence
  Cancellable = TRUE
  NoEdit = NoEdit
  NoIntent = NoIntent
  NoPass = NoPass
  NoExpiry = NoExpiry
  ManualRuns = {m1}
  m1 = m1
  MaxTime = 3
  MaxVersion = 3
INVARIANTS RowsConsistent OneActiveRun RetiredStaysDisabled
PROPERTIES InsertsDueOccurrence ExpiredIntentEnds QuietScheduleAdvances
