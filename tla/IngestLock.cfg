SPECIFICATION Spec
CHECK_DEADLOCK FALSE
CONSTANTS
    Feeds = 1
    MaxAttempts = 2
    Backoff = 1
    Multiplier = 2
    Slow = 10
    Staging = 4
    Interval = 300
    LoopInterval = 300
    Deadline = 120
    RetryAfter = 5
    Loops = {"p", "q"}
    MaxRound = 1
    MaxKill = 0
INVARIANT
    OneLoop
