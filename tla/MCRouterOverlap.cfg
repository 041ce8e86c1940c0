SPECIFICATION FairSpec
CONSTANTS
    Runs = {run1, run2}
    Requests = {}
    Snaps = {s1}
    all = all
    weekly = weekly
    Rules = {all}
    Channels = {bot}
    NoChain = none
    ChainsOf <- TheChains
    Wants <- TheWants
    Policy <- ThePolicy
    Bound <- TheBound
    MaxResends = 0
    MaxFaults = 1
    MaxChanges = 1
INVARIANTS
    EventsAccounted
PROPERTIES
    OverdueIsHandled
