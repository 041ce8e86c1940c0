CONSTANTS
    s1 = s1
    s2 = s2
    Starts <- MCStarts
    Sessions = {s1, s2}
    None = None
    Modes <- MCModes
    MaxTurns = 1
    MaxUpsets = 1
SPECIFICATION FairSpec
CHECK_DEADLOCK FALSE
INVARIANTS
    CollectsWithSeen
    MarksAreTrue
    LossIsTold
    ResultAgrees
PROPERTIES
    ExpiryIsNoticed
