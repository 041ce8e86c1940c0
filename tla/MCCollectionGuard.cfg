SPECIFICATION FairSpec
CONSTANTS
    Worker = w
    Background = {b1, b2}
    MaxCrashes = 1
    MaxSaves = 2
INVARIANTS
    ExclusiveUnlessRaced
    FlagTellsTruth
PROPERTIES
    CollectionsKeepComing
