--------------------------- MODULE MCReplication ---------------------------
(* Replication for TLC. *)
EXTENDS Replication, TLC
=============================================================================
