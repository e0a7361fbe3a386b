CONSTANTS
    Branch = {main}
    Edit = {}
    Foreign = {f1}
    Promoter = {}
    Publisher = {q1}
    StepTier = {"A"}
    MaxUpstream = 2
    MaxRun = 2
    MaxTime = 1
    MaxUndo = 0
    OwnerRaces = FALSE
SPECIFICATION Spec
INVARIANT TidyUnlessKilled
PROPERTY PublishDropsOnlySeenPushes
CHECK_DEADLOCK FALSE
