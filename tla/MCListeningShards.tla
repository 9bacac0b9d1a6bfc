-------------------------- MODULE MCListeningShards --------------------------
EXTENDS ListeningShards

\* Ids on both sides of the byte boundary and of the limit (9); -1 sets nothing,
\* -8 falls into byte 255 and -2048, past the width of a byte, into byte 0.
BoundaryIDs == {-2048, -8, -1, 7, 8, 9}

\* A slice that is too short, and one that is too long with a spare bit raised.
StrangeBytes == {[i \in 0 .. 0 |-> {7}],
                 [i \in 0 .. 2 |-> IF i = 1 THEN {5} ELSE {}]}
=============================================================================
