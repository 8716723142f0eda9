---------------------------- MODULE MCLnsSession ----------------------------
(* Small instances of LnsSession for TLC. *)
EXTENDS LnsSession
=============================================================================
