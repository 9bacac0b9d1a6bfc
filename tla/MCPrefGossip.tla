---------------------------- MODULE MCPrefGossip ----------------------------
EXTENDS PrefGossip, TLC

CONSTANTS n1, n2, n3

\* n1 is steady and n2 is not; they stay linked, and the link of n2 to n3, which
\* runs another program, comes and goes.
ThreeNodes == {n1, n2, n3}
SteadyNodes == {n1}
FixedLinks == {{n1, n2}}
LooseLinks == {{n2, n3}}
ForeignNodes == {n3}
FewChanges == n1 :> 2 @@ n2 :> 2 @@ n3 :> 1
=============================================================================
