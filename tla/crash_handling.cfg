\* Two application threads, up to three crashes in any of the threads, the
\* reporter closed and installed again once.
SPECIFICATION Spec
CONSTANTS
    App = {a, b}
    Main = a
    Primary = p
    Secondary = s
    MaxCrashes = 3
    MaxInstalls = 2
INVARIANTS
    ReportKept
    CrashIsJudged
PROPERTIES
    Terminates
CHECK_DEADLOCK FALSE
