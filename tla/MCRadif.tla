------------------------------ MODULE MCRadif ------------------------------
(* Instances of Radif for TLC. *)
EXTENDS Radif
=============================================================================
