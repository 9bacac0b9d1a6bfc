SPECIFICATION SubscribersOnly
CONSTANTS
    numShards = 10
    Clients <- TwoClients
    Requests <- SameShardRequests
    SubIDs = {x1, x2, x3, x4}
    MaxInflight = 1
    Warm = TRUE
    MayFail = {}
    BootRef = boot
    Nil = nil
    c1 = c1
    c2 = c2
    x1 = x1
    x2 = x2
    x3 = x3
    x4 = x4
SYMMETRY HandleSymmetry
INVARIANT
    ShardAgreement
