----------------------------- MODULE MCCollation -----------------------------
EXTENDS Collation, TLC

CONSTANTS good, bad, n1, n2, c1, c2

\* Both calls run at the node that can fail.
AtFlaky(c) == n2
=============================================================================
