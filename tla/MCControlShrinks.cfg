CONSTANTS
  MinReplicas = 1
  MaxReplicas = 4
  UpCooldown = 2
  DownCooldown = 3
  Stabilization = 2
  Loads = {0, 5, 9}
  QueueTarget = 2
  InitialReplicas = {0, 1, 3, 6}
SPECIFICATION ControlSpec
PROPERTY ShrinkStabilized
