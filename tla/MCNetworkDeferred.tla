-------------------------- MODULE MCNetworkDeferred --------------------------
(* Instances of NetworkDeferred for TLC. *)
EXTENDS NetworkDeferred, TLC
==============================================================================
