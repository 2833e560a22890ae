SPECIFICATION Spec
CHECK_DEADLOCK FALSE
CONSTANTS
    Stations        = {1, 2}
    Capacities      = {10, 20}
    Lags            = {1}
    LagTolerance    = 0
    Rolls           = {2}
    Horizon         = 1
    TargetTolerance = 1
    Day             = 3
    MinHistory      = 2
    TrainPercent    = 70
    ValPercent      = 15
    MaxTime         = 4
    MaxCycle        = 4
    MaxLost         = 1
    MaxIrregular    = 2
INVARIANTS
    TypeOK
    TrainedStationsHaveCodes
    CatalogIsCurrent
    SplitKeepsTime
    TestIsUnseen
PROPERTIES
    OnlyCapacityIsRewritten
    TrainedRowsStay
