SPECIFICATION FairSpec
CONSTANTS
    Requests    = {r1}
    Station     = station
    Faults      = {"store", "feed", "file"}
    Interval    = 1
    Window      = 3
    Lookback    = 2
    WindowTtl   = 1
    StationsTtl = 2
    MaxRead     = 1
    ModelLoaded = TRUE
    SystemIdSet = FALSE
CHECK_DEADLOCK FALSE
PROPERTIES OutagesHeal
