CONSTANTS
    s1 = s1
    c1 = c1
    tokA = tokA
    None = None
    Session = {s1}
    Closer = {c1}
    TokenOf <- OneToken
    MaxMessages = 1
    PipeCap = 1
SPECIFICATION FairSpec
INVARIANTS
    TypeOK
    InitFirst
    StopOnce
PROPERTIES
    ImplementsSession
    StoppedEnds
    HelperReaped
CHECK_DEADLOCK FALSE
