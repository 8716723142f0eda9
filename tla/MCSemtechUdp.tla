----------------------------- MODULE MCSemtechUdp -----------------------------
(* Values for TLC.  Tokens are taken modulo 4, in place of 2^16.  "own" has a token *)
(* to itself, after the modulus, and RX1 and RX2; "plain" is a dnmsg without diid,  *)
(* with both windows, and "sched" a dnsched with its single one, so these two share *)
(* token 0.  With three items in a run the first or the second is given with the    *)
(* third, in each order.                                                            *)
EXTENDS SemtechUdp

Diids == [f \in Frames |-> CASE f = "own" -> 6 [] f = "plain" -> 0 [] f = "sched" -> 0]

Windows == [f \in Frames |-> CASE f = "own" -> 2 [] f = "plain" -> 2 [] f = "sched" -> 1]
=============================================================================
