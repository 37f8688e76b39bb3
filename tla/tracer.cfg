SPECIFICATION FairSpec
CONSTANTS
    s1 = s1
    s2 = s2
    NoSpan = NoSpan
    Thread = {t1}
    Span = {s1, s2}
    Configs <- AllConfigs
INVARIANTS CapturedOnce ChildrenAreSent OpenForAReason ScopeIsReleased
PROPERTIES AutoFinishes
