SPECIFICATION Spec
CONSTANTS
    Nodes = {n1, n2}
    Msgs = {good}
    Valid = {good}
    LongContext = {}
    Flaky = {}
    Calls = {c1}
    At <- AtFlaky
    MaxBatch = 1
    c1 = c1
    c2 = c2
    n1 = n1
    n2 = n2
    good = good
    bad = bad
INVARIANT
    ValidPasses
