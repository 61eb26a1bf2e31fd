CONSTANTS
  r1 = r1
  r2 = r2
  r3 = r3
  ta = ta
  tb = tb
  prim = prim
  paid = paid
  Requests = {r1, r2, r3}
  Tenants = {ta, tb}
  TenantOf <- MCTenantOf
  Streams = {r2}
  MaxConcurrent <- MCMaxConcurrent
  Backends = {prim, paid}
  Tier <- MCTier
  Capacity <- MCCapacity
  SelfHosted = {prim}
  Keyed = {paid}
  MaxAttempts = 3
  ErrorThreshold = 2
  OpenTicks = 1
  ProbeThreshold = 2
  DisableTicks = {0, 2}
  Metered = {1, 2, 3}
  Estimates <- MCEstimates
  Actuals = {0, 3}
  MaxSlots = 2
  BudgetPerHour = 6
  Hour = 3
  ReqRate = 1
  ReqBurst = 2
  TokRate = 2
  TokBurst = 6
  Horizon = 3
  MaxRequests = 5
  Calls = {1, 2, 3}
  KeyMaps <- MCKeyMaps
  Streamed = {3}
  Attempts = 3
  RetryPercent = 50
  RetryWindow = 1
  MinRetries = 1
  MaxCached = 1
  Evicted = 1
  TTL = 1
  MaxTime = 3
  MinReplicas = 1
  MaxReplicas = 4
  UpCooldown = 2
  DownCooldown = 3
  Stabilization = 2
  Signals <- AllSignals
  Target <- MCTarget
  HeadroomPct = 100
  Predictive = TRUE
  MaxUpStep = 2
  MaxDownStep = 2
  ColdStarts = {2, 3}
  DrainTicks = 1
  Offers = {0, 1, 4}
  ServedPerTick = 2
  MaxQueue = 6
  Duration = 10
  Loads = {0, 5, 9}
  QueueTarget = 2
  InitialReplicas = {0, 1, 3, 6}
SPECIFICATION MCSpec
INVARIANTS CountsExact QuotaKept RetriesScarce HedgeLeavesNothing WithinMax WarmFloor
PROPERTIES
  TrippedIsLeftAlone Answered DegradesToCache
  ScaleDownSustained ReadShrinkStabilized LoopConverges
CHECK_DEADLOCK FALSE
