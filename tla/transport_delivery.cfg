SPECIFICATION Spec
CONSTANTS
    EnvId = {1, 2, 3}
    Content <- DeliveryContent
    Sid = {"s", "t"}
    Corrupt = {}
    DefaultRetryAfter = 1
    SendClientReports = TRUE
    Cached <- NoCache
    OldFiles = {}
    MaxEnvelopes = 2
    Outcomes <- Varied
    Faults = {}
    Spotlight = FALSE
    Direct = {}
    Flusher = {}
    MaxWakeups = 1
    MaxCrashes = 0
    MaxTime = 1
INVARIANTS OneSender InitLostOnlyByEviction
PROPERTIES AnsweredOnce BackOffRespected
