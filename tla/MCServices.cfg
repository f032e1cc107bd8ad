SPECIFICATION ServicesSpec
CONSTANTS
  Chosen = {"authentication", "tasks", "release", "writes", "logs"}
  Calls = {c1, c2, c3}
  MaximumConcurrent = 1
  MaximumQueued = 1
  Notifications = {"n1", "n2"}
  Workers = {"w1", "w2"}
  MaximumStops = 2
  Releases = {"a", "b"}
  None = None
  MaximumTransitions = 3
  Writers = {"x", "y", "z"}
  RetentionCount = 1
  MaximumSourceLines = 2
  MaximumLines = 3
  MaximumFiles = 2
  MaximumFailures = 1
CHECK_DEADLOCK FALSE
SYMMETRY Symmetry
INVARIANTS ServicesConsistent GateKeepsPermits AnswersAreTrue DeliveredWasAccepted AuthoritativePairKept
PROPERTIES ReplacedWhileStopped TruncatedIsArchived
