SPECIFICATION Spec
CONSTANTS
    MaxDay       = 2
    MaxCycle     = 2
    Jobs         = {j1}
    Invocations  <- WithBackfill
    ArchiveStart = 0
    KeepDays     = 0
    Scheduled    = TRUE
    MaxCrash     = 1
PROPERTY RerunRepairs
