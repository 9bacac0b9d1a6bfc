---------------------------- MODULE MCShardConnect ----------------------------
EXTENDS ShardConnect, TLC
=============================================================================
