SPECIFICATION Spec
CONSTANTS
    numShards = 10
    Clients <- TwoClients
    Requests <- OverlappingRequests
    SubIDs = {x1, x2, x3, x4}
    MaxInflight = 1
    Warm = FALSE
    MayFail = {"publish", "subscribe"}
    BootRef = boot
    Nil = nil
    c1 = c1
    c2 = c2
    x1 = x1
    x2 = x2
    x3 = x3
    x4 = x4
SYMMETRY HandleSymmetry
INVARIANTS
    TypeOK
    NoNilDereference
    NoDanglingSub
