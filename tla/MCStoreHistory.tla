--------------------------- MODULE MCStoreHistory ---------------------------
EXTENDS StoreHistory, TLC

CONSTANT k1

MCShardCount == NormalizeShardCount(1)
OneShard == [k \in {k1} |-> 5]

Symmetry == Permutations(Thread) \cup Permutations(Value)
=============================================================================
