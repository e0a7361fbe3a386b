CONSTANTS
    Branch = {main}
    Edit = {e1}
    Foreign = {}
    Promoter = {p1, p2}
    Publisher = {}
    StepTier = {"A", "C"}
    MaxUpstream = 1
    MaxRun = 1
    MaxTime = 2
    MaxUndo = 1
    OwnerRaces = FALSE
SPECIFICATION Spec
SYMMETRY PromoterSymmetry
INVARIANTS NoLostEdit TestedCandidateNotLost
PROPERTY Promised
CHECK_DEADLOCK FALSE
