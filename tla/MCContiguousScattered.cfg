CONSTANTS
  Owners = {"x0", "x1", "x2", "x3"}
  Capacity = 8
  ReserveLen = 2
SPECIFICATION ContiguousSpec
PROPERTY ScatteredIsRejected
CHECK_DEADLOCK FALSE
