SPECIFICATION Spec
CONSTANTS
    s1 = s1
    s2 = s2
    saver1 = saver1
    saver2 = saver2
    run = run
    Sources = {s1, s2}
    Savers = {saver1, saver2}
    Lookers = {run}
    MaxWrites = 4
    MaxFaults = 1
INVARIANTS
    CacheIsCurrent
PROPERTIES
    BlindForACause
