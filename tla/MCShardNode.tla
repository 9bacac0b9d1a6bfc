----------------------------- MODULE MCShardNode -----------------------------
EXTENDS ShardNode, TLC

CONSTANTS c1, c2

\* 0, 1 and 9 are shards, 0 and 1 in one byte and 9 in another; 10 is refused.

\* Two clients whose shards are in different bytes.
DisjointRequests == c1 :> {{0}, {1}} @@ c2 :> {{9}}

\* Two clients that ask for the same shard.
SameShardRequests == c1 :> {{0}} @@ c2 :> {{0}}

\* Two clients that ask for the same shard, one together with an id that is refused.
OverlappingRequests == c1 :> {{0}} @@ c2 :> {{0, 10}}

TwoClients == {c1, c2}

\* Nobody calls UnsubscribeShard: op, "listen" at first, never changes.
SubscribersOnly == Init /\ [][Next /\ op' = op]_vars

HandleSymmetry == Permutations(SubIDs)
=============================================================================
