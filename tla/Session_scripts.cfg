SPECIFICATION FairSpec
CONSTANTS
    Callers = {alice, bob}
    Signals = 1
    MaxStops = 2
    Shards = {0, 8}
    Lines <- Scripts
    Number <- Numbers
    PeerIDs = {"Qm"}
    Bootnodes = {}
    MayFail = {"publish"}
    alice = alice
    bob = bob
CHECK_DEADLOCK FALSE
INVARIANTS
    TypeOK
    ReplyIsTrue
    
PROPERTIES
    CliExits
    StopServerStops
    CaughtStops
