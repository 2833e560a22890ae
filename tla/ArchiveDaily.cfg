\* The deployment: one execution at a time, no --day and no --backfill.
SPECIFICATION FairSpec
CONSTANTS
    MaxDay       = 3
    MaxCycle     = 2
    Jobs         = {j1}
    Invocations  <- DailyAndDry
    ArchiveStart = 1
    KeepDays     = 0
    Scheduled    = TRUE
    MaxCrash     = 2
INVARIANTS
    TypeOK
    NoRowLost
    FloorHolds
PROPERTIES
    PublishesThenTrims
    EveryDayIsPublished
    StatusIsTrimmed
