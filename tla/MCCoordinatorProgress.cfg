SPECIFICATION ProgressSpec
CONSTANTS
  lasting = lasting
  mortal = mortal
  firm = firm
  soft = soft
  once = once
  host = host
  NoWorker = NoWorker
  NoFence = NoFence
  Workers = {lasting, mortal}
  Immortal = {lasting}
  Drainable = {mortal}
  Runs = {firm, soft, once}
  Resources = {host}
  Supported <- MCSupported
  ResourceKeys <- MCResourceKeys
  Priority <- MCPriority
  InitialAttemptLimit <- MCInitialAttemptLimit
  RetrySafe <- MCRetrySafe
  CancellationPolicy <- MCCancellationPolicy
  ScheduledRuns = {}
  HostRestartRuns = {}
  DeliveryRuns = {}
  AttemptMaximum = 2
  LeaseDuration = 2
  Freshness = 1
  FenceDuration = 1
  RetryDelay <- MCRetryDelay
  Staleness = 0
  MaxTime = 0
  MaxBoot = 0
  Horizon = 3
  RenewInterval = 1
INVARIANTS CoordinatorConsistent UnsafeActionsRunOnce LeaseIsExclusive RenewalNeverThrows
PROPERTIES RunFinishes DrainOfMortalEnds
