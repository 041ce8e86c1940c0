CONSTANTS
    t1 = t1
    t2 = t2
    k1 = k1
    ch1 = ch1
    cu1 = cu1
    Nobody = Nobody
    Threads = {t1, t2}
    Keys <- MCKeys
    Channels = {ch1}
    Customers = {cu1}
    Requests <- MCRequests
    MaxPerWindow = 1
    Window = 1
    Ban = 2
    HourLength = 1
    DayLength = 2
    ChannelLimit <- MCChannelLimit
    CustomerSetting <- MCCustomerSetting
    GlobalSetting <- MCGlobalSetting
    CustomerDefault <- MCCustomerDefault
    GlobalDefault <- MCGlobalDefault
    MaxFaults = 1
SPECIFICATION Spec
SYMMETRY ThreadSymmetry
INVARIANTS
    WindowBound
    MailBound
    LayersAgree
PROPERTIES
    BanStands
