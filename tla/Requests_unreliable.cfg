SPECIFICATION FairSpec
CONSTANTS
    Reqs = {general, peers}
    General = {general}
    Wild = {peers}
    Unreliable = TRUE
    general = general
    peers = peers
CHECK_DEADLOCK FALSE
INVARIANTS
    OkMeansAnswered
    NoStreamLeaks
PROPERTIES
    CallsReturn
    BrokenReturns
    HandlersEnd
