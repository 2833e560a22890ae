SPECIFICATION Spec
CONSTANTS
    MaxCycle   = 3
    MaxTime    = 6
    Second     = 2
    Day        = 4
    Window     = 2
    MaxCorrupt = 1
CHECK_DEADLOCK FALSE
INVARIANTS TypeOK ServingIsDurable WindowIsExact WindowIsNarrow
PROPERTIES FeedsTheArchive
