SPECIFICATION FairSpec
CONSTANTS
    NumCalls = 3
    Checkpoints = {2}
    Hashes = {h1, h2}
    FanOut = 3
    Limit = 1
    MaxAgents = 2
    MaxAttempts = 2
    TokenBudget = 2
    Edits = TRUE
    MaxResumes = 1
    MaxPauses = 1
INVARIANTS LimiterSound ReplayIsPrefix PauseHolds
PROPERTY ExecutionEnds
CHECK_DEADLOCK FALSE
