SPECIFICATION Spec
CONSTANTS
    Every = 2
    MaxDelay = 1
    MaxVersions = 2
    MaxRuns = 1
    MaxTrials = 1
    MaxRestarts = 1
    Plans = 2
    MaxSpawns = 2
    MaxBoots = 1
    Asks = {e1, e2}
    Options = 2
    MaxDepth = 4
    MaxQuestions = 2
    Processes = {p, q}
    Settling = {q}
    Forcing = {p}
    Providers = {"claude", "kimi"}
    Age = 1
    Life = 2
    Horizon = 1
    Pastes = FALSE
    Override = TRUE
    HasUI = TRUE
    Versions = 2
    RunIds = 2
    MaxResumes = 1
    Facts = {"x", "y"}
    TopFindings = 1
    Reviewers = 2
    Dry = 2
    MaxRounds = 4
    Levels = {"high", "low"}
    Kinds = {"d1", "d2"}
    MaxModels = 4
    Limit = 2
    MaxPauses = 1
    MaxExecs = 2
    MaxRows = 7
    Searches = {1, 2}
    MaxItems = 2
    MaxConcurrency = 1
    MaxTalk = 6
    MaxEntries = 5
    MaxLines = 2
    Preview = 3
    MaxDays = 1
    Uses = {0, 45, 120}
    Widths = {40, 89, 90, 109, 110, 130}
    Names = {0, 7, 30}
    Seats = {1, 2}
    Repairs = 1
    Pis = {1, 2}
    Keys = {"s", "t"}
    Claudes = {1, 2}
    MaxManagers = 2
    Workers = 1
    MarkFails = FALSE
    Desks = {1}
    MaxFacts = 2
    MaxClock = 2
    MaxPaid = 1
    MaxOpens = 2
    Pids = {1, 2, 3}
    MaxTokens = 1
INVARIANTS LoopsAreSound CompleteIsComplete AnsweredAsChosen QuotasAreTrue OperatorDecides RunsAreReported FindingsAreVouched RoutesAsConfigured HoldersAreSound SavedIsKept ReceiptsAreTrue
PROPERTIES NumbersStay CloseoutStands CacheOnlyAdvances
CHECK_DEADLOCK FALSE
