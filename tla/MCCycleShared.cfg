SPECIFICATION Spec
CONSTANTS
    Packages = {1, 2, 3}
    SourceOrder <- TwoSources
    UrlsOf <- TwoUrls
    UrlOf <- TwoUrl
    Pub <- Undated
    Chained <- TwoChained
    Modes = {"quick"}
    MaxPulls = 1
    MaxFaults = 0
    MaxExpiries = 1
INVARIANTS
    NewsAccounted
    WithdrawalsAccounted
