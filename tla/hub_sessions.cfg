SPECIFICATION FairSpec
CONSTANTS
    Thread = {t1, t2, t3}
    Calls = {"start", "end", "error", "capture", "store"}
    AutoTracking = TRUE
    MaxCalls = 5
INVARIANTS UpdatesAreOrdered FileIsCurrent
PROPERTIES EndIsCaptured
