CONSTANTS
  Lines      <- MCLines
  Conflicts  <- MCConflicts
  Seconds    <- MCSeconds
  Titles     <- MCTitles
  Sentences  <- MCSentences
  Rules      <- MCRules
  Noise      <- MCNoise
  Rivals     <- MCRivals
  SkipUnions = FALSE
SPECIFICATION Spec
INVARIANT NothingRevived
CHECK_DEADLOCK FALSE
