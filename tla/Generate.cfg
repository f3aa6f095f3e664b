SPECIFICATION Spec
CONSTANTS
  Plans <- MCPlans
  SeedLens <- MCSeedLens
  SliceLens <- MCSliceLens
  Lengths <- MCLengths
  RandomPcs <- MCRandomPcs
  KeyReads <- MCKeyReads
  MaxRounds = 4
  MaxPairs = 1
  maxRecursionLevel = 0
  minJumpDistance = 10
  Limit = 20
  MaxTests = 1
  Forks <- MCForks
  MaxOps = 4
  MaxPieces = 3
  MaxContracts = 2
  MaxDepth = 1
  Workers = {w1, w2}
  Tests = {t1, t2}
  MaxKills = 1
  Crashers = {c1, c2}
  RestartPause = 2
  MaxLaunches = 2
INVARIANTS
  UsedUpExact
  DestsUsedOnce
  WeightsHonoured
  NonErroring
  TornOnlyByKill
  CrashersKept
