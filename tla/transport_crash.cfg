SPECIFICATION Spec
CONSTANTS
    EnvId = {1, 2, 3, 4, 5}
    Content <- CrashContent
    Sid = {"s", "t"}
    Corrupt = {2}
    DefaultRetryAfter = 1
    SendClientReports = TRUE
    Cached <- CrashCache
    OldFiles = {3}
    MaxEnvelopes = 3
    Outcomes <- Limited
    Faults = {"storeFails", "buildFails", "migrateFails"}
    Spotlight = TRUE
    Direct = {5}
    Flusher = {}
    MaxWakeups = 0
    MaxCrashes = 1
    MaxTime = 0
INVARIANTS NoSilentLoss CacheBounded
