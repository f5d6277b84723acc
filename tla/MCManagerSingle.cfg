SPECIFICATION Spec
CONSTANTS
    Procs = {p1}
    NumCalls = 3
    FanOut = 1
    MaxGens = 4
    MaxCrashes = 2
    SandboxMayDie = FALSE
    RemovesLeasedRuns = FALSE
INVARIANT RecordFollowsExecution
PROPERTIES FollowsLifecycle FirstMissIsGenuine
CHECK_DEADLOCK FALSE
