SPECIFICATION FairSpec
CONSTANTS
    Callers = {a}
    Peers = {p1, p2, p3}
    Routines = {r1, r2}
    DHTMayFail = TRUE
    BadAddress = TRUE
    Nil = nil
    a = a
    p1 = p1
    p2 = p2
    p3 = p3
    r1 = r1
    r2 = r2
INVARIANTS
    SendersHaveRoom
    FieldsTellTruth
    NoSendAfterClose
    VerdictIsRight
PROPERTY
    CallsReturn
\* A panic ends the process.
CHECK_DEADLOCK FALSE
