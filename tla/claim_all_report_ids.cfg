SPECIFICATION Spec
CONSTANTS
    MaxReportCount = 1
    Attachments = TRUE
    IdsPerSecond = 2
    MaxTime = 1
    MaxLaunches = 3
INVARIANT AllReportsListed
CHECK_DEADLOCK FALSE
