SPECIFICATION FairSessionSpec
CONSTANTS
  p1 = p1
  p2 = p2
  p3 = p3
  Plans <- TwoPlans
  NoPlan = NoPlan
  MaxBatches = 2
  MaxFiles = 2
  Duration = 1
  KillTime = 1
  Grace = 3
  RunDiff = FALSE
  DiffFails = TRUE
  RotateK = 0
  ReusePlans = FALSE
  StopWays <- KillOnly
  Jobs = 2
  ByHand = FALSE
INVARIANTS SessionTypeOK NoPartialReport DiffedOnceByPasses SweepCatchesUp
PROPERTIES SweepEnds EveryBatchDiffed
