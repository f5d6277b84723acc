\* Two calls of the main script, nested scripts of one call, one resume.
SPECIFICATION FairSpec
CONSTANTS
    MainCalls = 2
    NestedCalls = 1
    FanOut = 2
    Keys = {k1}
    MaxResumes = 1
INVARIANTS StoreIsExact
PROPERTIES SandboxesSettle
CHECK_DEADLOCK FALSE
