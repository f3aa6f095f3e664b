SPECIFICATION Spec
CONSTANTS
  Tests <- TwoTests
  Batchers <- OneBatcher
  Exec <- Execution
  Requests <- SkipTraceThenFlaw
  MaxCalls = 2
  MaxCrashes = 0
INVARIANTS TraceDumped
