CONSTANTS
    g1 = g1
    g2 = g2
    w1 = w1
    w2 = w2
    None = None
    Cmd = {g1, g2}
    KindOf <- Pairs
    Session = {w1, w2}
    SpawnMayFail = TRUE
    MaxUser = 1
SPECIFICATION FairSpec
INVARIANTS
    TypeOK
    ActiveServed
    ShownOnce
PROPERTIES
    DeadForgotten
    ClosedWindowGoes
CHECK_DEADLOCK FALSE
