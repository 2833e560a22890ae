SPECIFICATION Spec
CHECK_DEADLOCK FALSE
CONSTANTS
    Stations        = {s1, s2}
    Values          = {0, 1}
    Lags            = {1, 3}
    LagTolerance    = 1
    Rolls           = {2, 3}
    Horizon         = 2
    TargetTolerance = 1
    Window          = 6
    Lookback        = 5
    Day             = 4
    MaxTime         = 7
    MaxCycle        = 3
INVARIANTS
    TypeOK
    GapsAreBridged
    ServedRowIsTrainingRow
    LogReplaysTheDay
    LogIsMinimal
PROPERTIES
    LagsAndRollsAreFinal
    TargetsAreFinal
