SPECIFICATION Spec
CONSTANTS
    Runs = {run}
    Requests = {request}
    Snaps = {s1}
    all = all
    weekly = weekly
    Rules = {all, weekly}
    Channels = {mail, bot}
    NoChain = none
    ChainsOf <- TheChains
    Wants <- TheWants
    Policy <- ThePolicy
    Bound <- TheBound
    MaxResends = 1
    MaxFaults = 1
    MaxChanges = 0
SYMMETRY ChannelSymmetry
INVARIANTS
    ToldOnce
PROPERTIES
    ReplaysAreActive
