SPECIFICATION FairSpec
CONSTANTS
    Peers = {p1, p2, p3}
    Reachable = {p1, p2}
    Num = 2
    Changing = TRUE
    p1 = p1
    p2 = p2
    p3 = p3
INVARIANTS
    NeverPanics
    TriesJustEnough
PROPERTY
    CallReturns
