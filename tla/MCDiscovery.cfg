SPECIFICATION Spec
CONSTANTS
    a = a
    b = b
    x = x
    Products = {a, b}
    Paths = {x}
    Starts <- OnePath
    MaxRuns = 2
    MaxConfirms = 2
    MaxUpsets = 2
SYMMETRY ProductSymmetry
CHECK_DEADLOCK FALSE
INVARIANTS
    FlagsTellThreads
    ResultStaysOffered
    ClosedStaysClosed
    CancelIsHeeded
PROPERTIES
    CleanWriteMirrors
