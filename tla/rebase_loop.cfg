CONSTANTS
    File = {f1, f2}
    Picks = 2
    MultiUnit = {f1}
    Misleading <- MCMisleading
    Policies = {"warn", "stop"}
    MaxGlitch = 2
SPECIFICATION Spec
INVARIANTS NoPickLost MarkersOnlyByHand EndedWhereClaimed
PROPERTY Terminates
CHECK_DEADLOCK FALSE
