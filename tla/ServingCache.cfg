SPECIFICATION Spec
CONSTANTS
    Requests    = {r1, r2}
    Station     = station
    Faults      = {"store"}
    Interval    = 1
    Window      = 2
    Lookback    = 1
    WindowTtl   = 1
    StationsTtl = 2
    MaxRead     = 1
    ModelLoaded = TRUE
    SystemIdSet = TRUE
CHECK_DEADLOCK FALSE
INVARIANTS TypeOK BoundedStaleness
PROPERTIES ReadyMeansIngesting
