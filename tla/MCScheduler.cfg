SPECIFICATION FairSpec
CONSTANTS
    Procs = {p1}
    Handles = {h1, h2}
    Off = Off
    NoHint = NoHint
    Hints = {0, 3}
    MaxAttempts = 2
    MinDelay = 1
    FallbackDelay = 2
    MaxDelay = 4
    Backoff <- Doubling
    Horizon = 4
    MaxLaunches = 3
    MaxDowns = 2
INVARIANT AttemptsCapped
PROPERTIES OnlyEligibleResumed NotBeforeReset EventuallyServed
CHECK_DEADLOCK FALSE
