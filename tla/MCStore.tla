------------------------------ MODULE MCStore ------------------------------
EXTENDS Store

CONSTANTS k1, k2

MCKey == {k1, k2}
MCShardCount == NormalizeShardCount(2)

\* The two keys fall into the same shard.
SameShard == [k \in MCKey |-> 3]
=============================================================================
