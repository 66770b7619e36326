---------------------------- MODULE MCRedisLock ----------------------------
(* Three goroutines, two subscriptions' keys and four acquisitions: enough for *)
(* a lease to lapse, the key to be taken again and the first release to land.  *)
EXTENDS RedisLock, TLC
CONSTANTS c1, c2, c3, k1, k2
MCClients == {c1, c2, c3}
MCKeys == {k1, k2}
Symmetry == Permutations(MCClients) \union Permutations(MCKeys)
=============================================================================
