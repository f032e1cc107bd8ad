SPECIFICATION ProgressSpec
CONSTANTS
  Chosen = {"authentication", "tasks", "writes", "logs", "realtime", "chat", "one-shot"}
  Calls = {"c1", "c2"}
  MaximumConcurrent = 1
  MaximumQueued = 1
  Notifications = {"n1"}
  Workers = {"w1", "w2"}
  MaximumStops = 1
  Releases = {"a", "b"}
  None = None
  MaximumTransitions = 0
  Writers = {"x", "y"}
  RetentionCount = 1
  MaximumSourceLines = 2
  MaximumLines = 3
  MaximumFiles = 2
  MaximumFailures = 1
  Clients = {"all"}
  MaximumIssued = 3
  MaximumScopes = 2
  MaximumGeneration = 2
  MaximumSequence = 2
  QueueMaximum = 1
  OneShotCalls = {"r1", "r2"}
  AdminConcurrencyMaximum = 1
CHECK_DEADLOCK FALSE
PROPERTIES CallsEnd EventuallyDelivered ClientsAreServed
