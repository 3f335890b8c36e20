--------------------------- MODULE MCLoadBalancer ---------------------------
(* LoadBalancer for TLC. *)
EXTENDS LoadBalancer
=============================================================================
