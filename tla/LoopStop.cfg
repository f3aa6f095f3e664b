SPECIFICATION FairSpec
CONSTANTS
  p1 = p1
  p2 = p2
  Plans <- TwoPlans
  NoPlan = NoPlan
  MaxBatches = 3
  MaxFiles = 1
  Duration = 2
  KillTime = 1
  Grace = 1
  RunDiff = TRUE
  DiffFails = TRUE
  RotateK = 2
  ReusePlans = TRUE
  StopWays <- EveryWay
INVARIANTS LoopTypeOK NoStraggler DiffUndisturbed StopComplete RotatesOnPlateau
PROPERTIES TermEnds
