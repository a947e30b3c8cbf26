----------------------------- MODULE MCHistory ------------------------------
(* Small instances of History for TLC.                                     *)
EXTENDS History

CONSTANTS i1, i2
=============================================================================
