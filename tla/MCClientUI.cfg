CONSTANTS
    d1 = d1
    d2 = d2
    None = None
    Device = {d1, d2}
    MaxTabs = 2
    MaxConns = 2
    MaxChats = 2
SPECIFICATION Spec
SYMMETRY Symmetry
INVARIANTS
    TypeOK
    NoDeadSocket
    LeftRunning
    
CHECK_DEADLOCK FALSE
