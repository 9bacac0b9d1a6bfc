SPECIFICATION Spec
CONSTANTS
    numShards = 9
    Objs = {a, b}
    InputIDs <- BoundaryIDs
    WireBytes <- StrangeBytes
    None = None
    a = a
    b = b
INVARIANTS
    PanicsExplained
    NoStrayBits
    RoundTrip
PROPERTY
    ImplementsShardSet
\* A panic ends the process.
CHECK_DEADLOCK FALSE
