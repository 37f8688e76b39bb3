SPECIFICATION Spec
CONSTANTS
    WorkBufferSize = 4
    FileBufferSize = 8
    IntBits = 6
    PointerBits = 12
    MSBTagged = FALSE
    MaxSuperclasses = 3
    MaxIvars = 2
    MemorySearchDepth = 4
    MaxDepth = 12
    TestBufferSize = 3
    HexBits = 8
    LineBufferSize = 4
    ReadBufferSize = 4
    MaxThreads = 2
    PACMask = 16
    Align = 4
    FrameSize = 2
INVARIANTS
    ReportIsReadable
    InspectionIsSafe
    TextSurvives
    DataIsExact
    StackIsWalked
CHECK_DEADLOCK FALSE
