CONSTANTS
  Ring <- MCRing
  Place <- MCPlace
  NoKey = "none"
  Probe = 3
  MaxPrefixKeys = 4
  BreakerThreshold = 2
  OpenTicks = 1
  Requests = {1, 2, 3}
  Streams = {3}
  SystemKey <- MCSystemKey
  SessionKey <- MCSessionKey
  Tokens <- MCTokens
  Replicas = {1, 2}
  Turns = 2
  MaxRetries = 1
  Routers <- MCRouters
  MaxSwitches = 1
  MaxProbes = 1
  N = 3
  Arrivals = {0, 2}
  Prompts = {1, 3}
  Outputs = {1, 2}
  PrefillPool = 2
  DecodePools = {1, 2}
  MaxBatch = 2
  Budgets = {1, 2}
  StepTimes = {1, 2}
  TransferTime = 2
  Owners = {"a", "b", "c", "d"}
  Capacity = 7
  ReserveLen = 2
  Endpoints = {1, 2}
  Watched = 1
  Gauges <- MCGauges
  History = 3
  LookBack = 3
  MaxCount = 3
  MaxTime = 3
  DraftTokens = 2
  MaxDrafted = 6
  Seqs = {"r1", "r2"}
  Ids = {"x", "y"}
  StreamSeqs = {"r2"}
  Wants = {1, 2}
  Burst = 2
  MaxNumSeqs = 2
  Window = 2
  MaxResets = 1
  CanCrash = TRUE
SPECIFICATION MCSpec
INVARIANTS WholeAnswer PendingIsLive LoadExact BeliefsAreRecent PhasesInOrder
PROPERTIES Responds RoutedSoundly DecodeNeverStalls ReservationsSound ToolsAreHonest
CHECK_DEADLOCK FALSE
