SPECIFICATION FairSpec
CONSTANTS
  Files = 2
  Gates = {"ok", "mended", "compile"}
  CompileFailures = {"compile"}
  Budget = 2  Allowance = 1  Threshold = 2  NoClear = 2
  Configs <- MCConfigs
  TimeBudget = TRUE  ShipGate = TRUE
INVARIANTS StagedPassed OneGoodSideNotLost
PROPERTIES KeepsContract Terminates
