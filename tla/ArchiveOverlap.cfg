\* Two executions at once, started by hand in any mode at any moment.
SPECIFICATION Spec
SYMMETRY SlotSymmetry
CONSTANTS
    MaxDay       = 1
    MaxCycle     = 2
    Jobs         = {j1, j2}
    Invocations  <- AnyMode
    ArchiveStart = 0
    KeepDays     = 0
    Scheduled    = FALSE
    MaxCrash     = 0
PROPERTIES TrimsOnlyArchivedDays
