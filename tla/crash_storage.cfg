SPECIFICATION MCSpec
CONSTANTS
    MaxReportCount = 1
    Attachments = TRUE
    IdsPerSecond = 2
    MaxTime = 1
    MaxLaunches = 3
    Images = {1, 2, 3}
    Unreadable = {3}
    MaxLoads = 4
    MaxStarts = 2
    Monitors = {m1, m2}
    ThreadLists <- MCThreadLists
    MaxUpdates = 3
    MaxFreezes = 1
    Values = {a, b}
    RingSizes <- MCRingSizes
    MaxCalls = 8
    ScopeThreads = {t1, t2}
    ScopeFields = {"user", "extras", "context", "trace", "dist"}
    ScopeValues = {v, w}
    Unencodable = {w}
    MaxScopeCalls = 4
    CrumbLimits = {0, 1, 2}
    MaxCrumbs = 5
    MaxCopied = 2
    MaxClears = 1
    MaxFaults = 1
    MaxKills = 2
INVARIANTS CrashStateIsTrue ImagesAreComplete ThreadNamesAreSafe ScopeIsMirrored CrumbsAreKept
PROPERTIES NoReportLost CrumbsAreLogged
CHECK_DEADLOCK FALSE
