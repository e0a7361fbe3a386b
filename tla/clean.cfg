CONSTANTS
    Process = {p1, p2}
    Dir = {repo, copy}
    MaxBorn = 2
    Repo = repo
    MaxTime = 1
    Slack = 0
SYMMETRY ProcessSymmetry
SPECIFICATION CleanSpec
INVARIANTS LiveMeansRunning SecondRunMissedTheLock RecoveryWhileRebasing CleanLeavesNothing
CHECK_DEADLOCK FALSE
