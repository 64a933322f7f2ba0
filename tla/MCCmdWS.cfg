CONSTANTS
    k1 = k1
    k2 = k2
    None = None
    Commands <- Two
    MaxConns = 2
    FrameCap = 1
    WireCap = 1
    Base = 4
    Longest = 6
SPECIFICATION FairSpec
INVARIANTS
    TypeOK
    StartedInOrder
PROPERTIES
    LostNoticed
    ReaderLeaves
CHECK_DEADLOCK FALSE
