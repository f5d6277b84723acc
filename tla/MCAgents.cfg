SPECIFICATION FairSpec
CONSTANTS
    Agents = {a1, a2}
    MaxCalls = 1
    MaxRetries = 1
    Policies = {"ask", "allow", "deny"}
INVARIANTS LimitSurfaces
PROPERTIES StopsWithSignal AgentsSettle
CHECK_DEADLOCK FALSE
