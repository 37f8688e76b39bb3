SPECIFICATION RestSpec
CONSTANTS
    EnvId = {1, 2}
    Content <- MixedContent
    Sid = {"s", "t"}
    Corrupt = {}
    DefaultRetryAfter = 1
    SendClientReports = TRUE
    Cached <- NoCache
    OldFiles = {}
    MaxEnvelopes = 1
    Outcomes <- MayFail
    Faults = {"storeFails"}
    Spotlight = TRUE
    Direct = {}
    Flusher = {f1, f2}
    MaxWakeups = 1
    MaxPrompts = 2
    MaxCrashes = 0
    MaxTime = 0
INVARIANTS GroupBalanced
PROPERTIES ComesToRest
