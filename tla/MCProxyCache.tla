---------------------------- MODULE MCProxyCache ----------------------------
(* ProxyCache for TLC: how keys name resources, and what is interchangeable. *)
EXTENDS ProxyCache, TLC

\* Every key names a file of its own.
OneToOne == [k \in Keys |-> k]

Symmetry ==
  Permutations(Workers) \cup Permutations(StoreThreads) \cup Permutations(Backends)
=============================================================================
