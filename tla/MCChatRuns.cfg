SPECIFICATION FairSpec
CONSTANTS
  message = message
  Runs = {message}
  MaximumActive = 1
  MaximumDisturbances = 3
INVARIANTS RunsConsistent
PROPERTIES SettledIsFinal RunsSettle
CHECK_DEADLOCK FALSE
