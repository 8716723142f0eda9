---------------------------- MODULE MCUplinkFrames ----------------------------
(* Values for TLC: every layout at the boundaries of its lengths alone in a     *)
(* datagram, and datagrams of up to two frames of few kinds.                    *)
EXTENDS UplinkFrames

Layouts == [crc : {"ok"}, form : {"good"}, signals : {0}, known : {TRUE},
            mtype : {0, 1, 2, 4, 7}, len : {0, 1, 2} \cup 11..32, fopts : 0..15]

Kinds == [crc : {"ok", "invalid", "missing"}, form : {"good", "codr"}, signals : {0, 2},
          known : BOOLEAN, mtype : {2}, len : {14}, fopts : {1}]
         \cup [crc : {"ok"}, form : {"json"}, signals : {0}, known : {TRUE},
               mtype : {2}, len : {14}, fopts : {0}]

SomeDatagrams == UNION {[1..n -> Kinds] : n \in 0..2} \cup [1..1 -> Layouts]

\* Every size up to a JSON of three bytes; a PUSH_DATA with frames is longer, which
\* its frames say.
SomeHeaders == [size : 0..15, version : {1, 2}, cid : {0, 2, 5, 9}]

SomeEvents ==
    Layouts \cup {f \in Kinds : f.form = "good" /\ f.signals = 0}
            \cup {[f EXCEPT !.crc = "none"] : f \in {g \in Layouts : g.len = 14}}
=============================================================================
