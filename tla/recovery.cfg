SPECIFICATION Spec
CONSTANTS
    Deaths = {"kill", "crash", "terminate"}
    WatchdogTracking = TRUE
    MaxDeaths = 2
    MaxMoves = 3
INVARIANTS NoSessionLost EndIsTruthful WatchdogIsReal
