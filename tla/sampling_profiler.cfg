SPECIFICATION Spec
CONSTANTS
    Threads = {t1, t2}
    SentryOwned = {t2}
    Handles = {h1, h2}
    Clients = {c1, c2}
    MaxStarts = 2
    MaxSpawns = 3
    MaxSamples = 1
INVARIANTS QuietWhenStopped
PROPERTIES StopEnds
CHECK_DEADLOCK FALSE
