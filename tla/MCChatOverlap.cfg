SPECIFICATION StreamsSpec
CONSTANTS
  Chosen = {"chat"}
  AttemptMaximum = 10
  PayloadMaximum = 4
  StructuralReserve = 33
  Definitions <- FittingDefinitions
  Clients = {"all", "some"}
  MaximumIssued = 3
  MaximumScopes = 2
  MaximumGeneration = 2
  MaximumSequence = 3
  QueueMaximum = 2
  Calls = {c1, c2, c3}
  AdminConcurrencyMaximum = 2
CHECK_DEADLOCK FALSE
INVARIANT BelievedSubscriptionIsReal
