SPECIFICATION ScannerSpec
CONSTANTS
    app = app
    audit = audit
    heartbeat = heartbeat
    Files <- MCFiles
    Audit = audit
    Heartbeat = heartbeat
    Errors = {refused}
    Alarming = 2
    Quiet = 1
    MaxLines = 2
    FileSize = 1
    MaxClock = 1
    MaxTroubles = 2
CHECK_DEADLOCK FALSE
INVARIANTS
    SavedIsHandled
    ToldAgainForACause
    OneRingPerWindow
PROPERTIES
    ErrorsGetOut
