\* Two events besides the task: faults, failures, commands and permission
\* requests.
SPECIFICATION FairSpec
CONSTANTS
    MaxRequests = 2
    Deadline = 1
    MaxResumeAttempts = 1
    AutoRecover = TRUE
    MaxSurfaces = 2
    MaxPids = 3
    MaxEvents = 2
INVARIANTS NoLateAllow EndsClean
PROPERTIES Healed
CHECK_DEADLOCK FALSE
