-------------------------- MODULE MCConcentratordCmd --------------------------
(* Values for TLC.                                                             *)
EXTENDS ConcentratordCmd
=============================================================================
