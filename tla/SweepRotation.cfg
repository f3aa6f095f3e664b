SPECIFICATION SessionSpec
CONSTANTS
  p1 = p1
  p2 = p2
  p3 = p3
  Plans <- ThreePlans
  NoPlan = NoPlan
  MaxBatches = 4
  MaxFiles = 1
  Duration = 1
  KillTime = 1
  Grace = 1
  RunDiff = TRUE
  DiffFails = FALSE
  RotateK = 2
  ReusePlans = FALSE
  StopWays <- KillOnly
  Jobs = 2
  ByHand = TRUE
INVARIANTS RotatesOnPlateau
