SPECIFICATION ServicesSpec
CONSTANTS
  Chosen = {"release"}
  Calls = {c1, c2, c3}
  MaximumConcurrent = 1
  MaximumQueued = 1
  Notifications = {"n1", "n2"}
  Workers = {"w1", "w2"}
  MaximumStops = 2
  Releases = {"a", "b"}
  None = None
  MaximumTransitions = 3
  Writers = {"x", "y", "z"}
  RetentionCount = 1
  MaximumLines = 0
  MaximumSourceLines = 2
  MaximumFiles = 1
  MaximumFailures = 0
CHECK_DEADLOCK FALSE
INVARIANT JournalIsRecoverable
