SPECIFICATION FairSpec
CONSTANTS
  Vms <- AllClients
  InputTests <- ThreeTests
  Flaws <- AllFlaws
  Outcome <- FlawedOutcome
  Modes <- AllModes
  Patience = 2
  MaxInt = 3
  Revisits = 1
INVARIANTS KeptFails MinFileCurrent VerdictExact
PROPERTIES MinimizerEnds
