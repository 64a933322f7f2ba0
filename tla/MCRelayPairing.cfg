CONSTANTS
    v1 = v1
    v2 = v2
    a1 = a1
    a2 = a2
    tok1 = tok1
    tok2 = tok2
    None = None
    Conn = {v1, v2, a1, a2}
    Viewers = {v1, v2}
    Token = {tok1, tok2}
    TokenOf <- StrayAgent
    MaxSessions = 1
    SendCap = 1
    MaxFrames <- AgentsTalk
SPECIFICATION Spec
SYMMETRY Symmetry
INVARIANTS
    Matched
    RegisterNeverBlocks
    EntryHeld
    FrameIsolation
PROPERTIES
    ImplementsRendezvous
CHECK_DEADLOCK FALSE
