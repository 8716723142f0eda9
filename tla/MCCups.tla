-------------------------------- MODULE MCCups --------------------------------
(* Values for TLC.                                                             *)
EXTENDS Cups
=============================================================================
