CONSTANTS
    s1 = s1
    tokA = tokA
    None = None
    Session = {s1}
    Closer = {}
    TokenOf <- OneToken
    MaxMessages = 2
    Queue = 1
SPECIFICATION FairSpec
INVARIANTS
    TypeOK
PROPERTIES
    ImplementsSession
    StoppedEnds
    IdleEnds
CHECK_DEADLOCK FALSE
