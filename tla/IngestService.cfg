SPECIFICATION Spec
CHECK_DEADLOCK FALSE
CONSTANTS
    Feeds = 2
    MaxAttempts = 2
    Backoff = 1
    Multiplier = 2
    Slow = 10
    Staging = 4
    Interval = 84
    LoopInterval = 30
    Deadline = 32
    RetryAfter = 5
    Loops = {"p"}
    MaxRound = 2
    MaxKill = 1
INVARIANTS
    TypeOK
    OverlapNeedsDeadline
    OneFaultIsAbsorbed
    Cadence
PROPERTIES
    BeginningsApart
