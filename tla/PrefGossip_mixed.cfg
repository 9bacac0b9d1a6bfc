SPECIFICATION FairSpec
CONSTANTS
    Nodes <- ThreeNodes
    Shards = {s1, s2}
    MaxChanges <- FewChanges
    Steady <- SteadyNodes
    Foreign <- ForeignNodes
    Fixed <- FixedLinks
    Loose <- LooseLinks
    n1 = n1
    n2 = n2
    n3 = n3
    s1 = s1
    s2 = s2
INVARIANTS
    TypeOK
    NoRumours
    DiscoveryIsRight
PROPERTY
    Converges
