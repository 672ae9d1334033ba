---------------------------- MODULE MCReplication ----------------------------
(* TLC instances of Replication. *)
EXTENDS Replication, TLC
=============================================================================
