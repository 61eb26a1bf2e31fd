CONSTANTS
  NumRequests = 5
  Concurrency = 3
  MaxRequests = 4
  DefaultWarmUp = 1
  Duration = 5
  Arrival <- MCArrival
  MaxInflight = 2
  DrainTimeout = 2
  MaxClock = 9
  Usages = {0, 1, 4, 7}
  MaxFrames = 5
  MaxGap = 1
  Times = {0, 1, 3}
  Records = 3
  Percentiles = {1, 50, 90, 95, 99, 100}
  Configs <- MCConfigs
  Levels = 1
  Rates = 1
  Outcomes <- MCOutcomes
  MaxFiles = 2
  FaultStart = 1
  FaultEnd = 2
  RunTime = 5
  SampleEvery = 1
  LastWait = 1
  ThresholdPercent = 5
  Sustained = 2
  BudgetPercent = 1
  MaxOut = 2
  MaxFired = 3
  Servers = {"a", "b"}
  Pods = {"p1", "p2", "p3"}
  Suite <- MCSuite
  Victim = "a"
  Victim2 = "b"
  Namespace = TRUE
  Deployed = 2
  MaxPods = 1
  PowerLimits = {599}
  Watts = 150
  MaxSuites = 2
  MaxRefused = 1
  Streams = {"s1", "s2"}
  Lengths = {1, 3}
  Turns = 2
  SystemPrompts = {"y1", "y2"}
  TenantNames = {"t1", "t2"}
  MaxSessions = 3
  NumRows = 2
  NumCols = 3
  Block = 2
  Logits <- MCLogits
  Numbers = {0, 1, 2}
  Residual = 1
  Scale = 3
  Tenants = {"t1", "t2"}
  Billed <- MCBilled
  NumBilled = 2
  WeightPrompt = 10
  WeightCached = 1
  WeightOutput = 40
  KVHeads = {1, 2, 6, 8}
  Layers = {1, 2}
  SlidingWindows = {0, 5}
  Weights = {0, 60, 200}
  Usable = {30, 60, 100}
  Intermediates = 3
  Overhead = 2
  NCCLBuffers = 2
  BlockSizes = {1, 2, 4}
  Degrees = {1, 2, 4, 8, 16}
  MaxTP = 8
  SeqLens = {1, 4, 7, 9}
  Concurrencies = {1, 2, 3}
  NumPrompts = 2
  MaxTokens = 5
  Texts <- MCTexts
  NumTasks = 2
SPECIFICATION MCSpec
INVARIANTS
  LoadAsPlanned RecordHonest FiguresAreExact PublishedWithCaveats ExperimentIsSound 
PROPERTIES ResultFinal BothEnd
CHECK_DEADLOCK FALSE
