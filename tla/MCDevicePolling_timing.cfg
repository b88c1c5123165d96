CONSTANTS
    TTL = 12
    Interval = 3
    Backoff = 3
    MaxDelay = 2
    MaxTime = 30
SPECIFICATION PollSpec
INVARIANTS NeverSlowedDown ApprovedInTimeIsCollected
PROPERTY WaitEnds
CHECK_DEADLOCK FALSE
