----------------------------- MODULE MCLruCache -----------------------------
(* Small instances of LruCache for TLC.                                    *)
EXTENDS LruCache, TLC

MCSymmetry == Permutations(Keys) \cup Permutations(Values)

Cfg(max, ttl) == [max_entries |-> max, ttl |-> ttl]

\* Room for two keys and for one, and the two ways to switch caching off.
MCConfigs == {Cfg(2, 1), Cfg(1, 2), Cfg(0, 1), Cfg(2, 0)}
=============================================================================
