SPECIFICATION Spec
CONSTANTS
  AttemptMaximum = 10
  PayloadMaximum = 4
  StructuralReserve = 33
  Definitions <- MCDeliveryDefinitions
INVARIANT EventBudget
CHECK_DEADLOCK FALSE
