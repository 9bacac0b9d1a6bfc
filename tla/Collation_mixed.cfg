SPECIFICATION FairSpec
CONSTANTS
    Nodes = {n1, n2}
    Msgs = {good, bad}
    Valid = {good}
    LongContext = {n1}
    Flaky = {n2}
    Calls = {c1, c2}
    At <- AtFlaky
    MaxBatch = 2
    c1 = c1
    c2 = c2
    n1 = n1
    n2 = n2
    good = good
    bad = bad
INVARIANTS
    LateOncePerCall
PROPERTIES
    OnlyJudged
    ReachesSubscribers
