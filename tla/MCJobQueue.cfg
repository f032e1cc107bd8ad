SPECIFICATION Spec
CONSTANTS
  w1 = w1
  w2 = w2
  safe = safe
  once = once
  host = host
  NoWorker = NoWorker
  NoFence = NoFence
  Workers = {w1, w2}
  Runs = {safe, once}
  Resources = {host}
  Supported <- MCSupported
  ResourceKeys <- MCResourceKeys
  Priority <- MCPriority
  InitialAttemptLimit <- MCInitialAttemptLimit
  RetrySafe <- MCRetrySafe
  CancellationPolicy <- MCCancellationPolicy
  ScheduledRuns = {once}
  HostRestartRuns = {}
  DeliveryRuns = {}
  AttemptMaximum = 2
  LeaseDuration = 2
  Freshness = 1
  FenceDuration = 2
  RetryDelay <- MCRetryDelay
  Staleness = 1
  MaxTime = 2
  MaxBoot = 0
INVARIANTS TypeOK ResourceLeasesMatchClaims AttemptBudget
PROPERTIES CancellationWins LeaseOnlyAdvances ImplementsLifecycle
SYMMETRY Symmetry
