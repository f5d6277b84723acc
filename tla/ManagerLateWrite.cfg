SPECIFICATION Spec
CONSTANTS
    Procs = {p1}
    NumCalls = 2
    FanOut = 2
    MaxGens = 2
    MaxCrashes = 0
    SandboxMayDie = FALSE
    RemovesLeasedRuns = FALSE
INVARIANT RecordFollowsExecution
CHECK_DEADLOCK FALSE
