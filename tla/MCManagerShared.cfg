SPECIFICATION FairSpec
CONSTANTS
    Procs = {p1, p2}
    NumCalls = 1
    FanOut = 1
    MaxGens = 3
    MaxCrashes = 2
    SandboxMayDie = TRUE
    RemovesLeasedRuns = FALSE
INVARIANTS SingleExecution LeaseNotLeaked
PROPERTY OrphanRecovered
CHECK_DEADLOCK FALSE
