SPECIFICATION FairSpec
CONSTANTS
    Packages = {1, 2}
    SourceOrder <- OneSource
    UrlsOf <- OneUrls
    UrlOf <- PairUrl
    Pub <- PairPub
    Chained <- OneChained
    Modes = {"quick", "full", "single"}
    MaxPulls = 1
    MaxFaults = 1
    MaxExpiries = 1
INVARIANTS
    AnnouncedOnce
PROPERTIES
    NewestIsRecorded
