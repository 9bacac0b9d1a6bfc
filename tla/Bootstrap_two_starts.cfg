SPECIFICATION Spec
CONSTANTS
    Callers = {a, b}
    Peers = {p1}
    Routines = {r1, r2, r3}
    DHTMayFail = FALSE
    BadAddress = FALSE
    Nil = nil
    a = a
    b = b
    p1 = p1
    r1 = r1
    r2 = r2
    r3 = r3
SYMMETRY RoutineSymmetry
INVARIANT
    StopStops
\* A panic ends the process.
CHECK_DEADLOCK FALSE
