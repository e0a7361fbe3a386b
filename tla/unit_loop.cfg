SPECIFICATION FairSpec
CONSTANTS
  Fresh = Fresh  NoText = NoText
  Texts = {a}
  Verdicts <- MCVerdicts
  Answers <- MCAnswers
  Units <- MCUnits
  MaxRetries = 1  MaxCritic = 1  MaxRecovery = 1
  Threshold = 2  Samples = 1
  WallBudget = TRUE  Sampling = FALSE  DeferToLadder = FALSE
INVARIANTS TypeOK AcceptedPassed JudgedLosesNoDependency ConflictShown
PROPERTY Terminates
CHECK_DEADLOCK FALSE
