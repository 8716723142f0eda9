------------------------------ MODULE MCCupsParse ------------------------------
(* Values for TLC.                                                             *)
EXTENDS CupsParse
=============================================================================
