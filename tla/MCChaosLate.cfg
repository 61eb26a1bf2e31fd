CONSTANTS
  FaultStart = 1
  FaultEnd = 2
  RunTime = 4
  SampleEvery = 1
  LastWait = 1
  ThresholdPercent = 5
  Sustained = 1
  BudgetPercent = 1
  MaxOut = 1
  MaxFired = 2
SPECIFICATION ChaosSpec
INVARIANT NoRecoveryUnderFault
CHECK_DEADLOCK FALSE
