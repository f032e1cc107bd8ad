SPECIFICATION ActionsSpec
CONSTANTS
  w1 = w1
  w2 = w2
  restart = restart
  other = other
  delivery = delivery
  host = host
  NoWorker = NoWorker
  NoFence = NoFence
  Workers = {w1, w2}
  Runs = {restart, other, delivery}
  Resources = {host}
  Supported <- MCSupported
  ResourceKeys <- MCResourceKeys
  Priority <- MCPriority
  InitialAttemptLimit <- MCInitialAttemptLimit
  RetrySafe <- MCRetrySafe
  CancellationPolicy <- MCCancellationPolicy
  ScheduledRuns = {other}
  HostRestartRuns = {restart}
  DeliveryRuns = {delivery}
  AttemptMaximum = 3
  LeaseDuration = 1
  Freshness = 1
  FenceDuration = 1
  RetryDelay <- MCRetryDelay
  Staleness = 1
  MaxTime = 3
  MaxBoot = 1
SYMMETRY Symmetry
INVARIANT RestartExcludesOtherClaims
PROPERTIES WorkerClaims ImplementsLifecycle
