SPECIFICATION LadderSpec
CONSTANTS
  MaxMerges = 2
  Budget = 2
  Jobs <- MCJobs
  Shapes <- MCShapes
PROPERTY OncePerText
CHECK_DEADLOCK FALSE
