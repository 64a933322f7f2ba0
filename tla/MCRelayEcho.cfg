CONSTANTS
    v1 = v1
    v2 = v2
    a1 = a1
    a2 = a2
    tok1 = tok1
    tok2 = tok2
    None = None
    Conn = {v1, v2, a1}
    Viewers = {v1, v2}
    Token = {tok1}
    TokenOf <- OneToken
    MaxSessions = 1
    SendCap = 1
    MaxFrames <- OneEach
SPECIFICATION Spec
INVARIANTS
    PartnersFrames
CHECK_DEADLOCK FALSE
