------------------------------ MODULE MCUpdate ------------------------------
(* Instances of Update for TLC: the constants are in the configurations.   *)
EXTENDS Update
=============================================================================
