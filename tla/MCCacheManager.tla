--------------------------- MODULE MCCacheManager ---------------------------
(* CacheManager for TLC: keys and store threads are interchangeable. *)
EXTENDS CacheManager, TLC

Symmetry == Permutations(Keys) \cup Permutations(StoreThreads)
=============================================================================
