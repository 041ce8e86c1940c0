SPECIFICATION Spec
CONSTANTS
    Packages = {1, 2, 3}
    SourceOrder <- OneSource
    UrlsOf <- OneUrls
    UrlOf <- OneUrl
    Pub <- Tied
    Chained <- OneChained
    Modes = {"quick"}
    MaxPulls = 1
    MaxFaults = 1
    MaxExpiries = 0
INVARIANTS
    NoFalseWithdrawal
    SilenceHasCause
    MirrorsPage
PROPERTIES
    WithdrawnNeverRevives
