CONSTANTS
    s1 = s1
    tokA = tokA
    None = None
    Session = {s1}
    Closer = {}
    TokenOf <- OneToken
    MaxMessages = 1
    Queue = 1
SPECIFICATION Spec
INVARIANTS
    UnblockedAtEnd
CHECK_DEADLOCK FALSE
