SPECIFICATION MCSpec
CONSTANTS
    Listeners = {l1}
    ReportThreshold = 2
    MaxBlocks = 1
    HangThreads = {1, 2}
    MaxListenerCalls = 3
    MaxHangs = 2
    Tracers = {x1, x2, x3}
    ContinuousStarts = {x1, x2, x3}
    MaxResigns = 2
INVARIANTS HangsAreWatched ProfilesAreShared
PROPERTIES HangsAreOver ProfilesEnd
CHECK_DEADLOCK FALSE
