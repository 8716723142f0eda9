-------------------------------- MODULE PullResp --------------------------------
(***************************************************************************)
(* What the Semtech UDP backend makes of the items that Downlinks gives    *)
(* it: the txpk of a PULL_RESP (structs.rs, PullResp::from_proto), one for *)
(* each item that is tried.                                                *)
(*                                                                         *)
(* The numbers of an item that Downlinks leaves out are inputs here: the   *)
(* count_us its context starts with, the delay of RX1 and the gpstime.     *)
(***************************************************************************)
EXTENDS Downlinks

CONSTANTS
    Second,     \* ticks of a second: 10^6
    CountMod,   \* tmst is a u32: 2^32
    Counts,     \* values of count_us
    Delays,     \* seconds from the uplink to RX1
    GpsTimes    \* values of gpstime, in us

ASSUME PullRespAssumption ==
    /\ Second \in Nat \ {0} /\ CountMod \in Nat \ {0}
    /\ Counts \subseteq 0..(CountMod - 1) /\ Delays \subseteq Nat /\ GpsTimes \subseteq Int

Timed == [count : Counts, delay : Delays, gps : GpsTimes]

After(item) == item.at \in {"rx1", "rx1+1s"}

\* Mutant of ContextLen: an item has the context of a relay or none.
ContextLenOfRelay(item) == IF item.relay THEN 9 ELSE 0

\* The context is that of a relay, or count_us; only an answer to an uplink has one.
ContextLen(item) == IF item.relay THEN 9 ELSE IF After(item) THEN 4 ELSE 0

\* A negative time is no Duration.
Encodes(item, t) ==
    /\ After(item) => ContextLen(item) >= 4
    /\ item.at = "gps" => t.gps >= 0

\* The sum wraps like the counter of the concentrator.
Tmst(item, t) ==
    (t.count + (t.delay + (IF item.at = "rx1" THEN 0 ELSE 1)) * Second) % CountMod

\* A field that is left out is the empty set.
Txpk(item, t) ==
    [imme |-> item.at = "now",
     tmst |-> IF After(item) THEN {Tmst(item, t)} ELSE {},
     tmms |-> IF item.at = "gps" THEN {t.gps \div 1000} ELSE {},
     powe |-> item.power % 256,
     datr |-> <<item.rate.sf, item.rate.hz \div 1000>>]

-----------------------------------------------------------------------------
(* Properties                                                              *)

\* Every item of a frame becomes a PULL_RESP, so that a retry never stops at an
\* item that cannot be converted (mod.rs:364), unless the LNS gives a gpstime before
\* the epoch.  It has one time of transmission and no other: RX2 is one second after
\* RX1 though the counter wraps in between, a class B frame is less than a millisecond
\* early.  Its data rate is a row of the table, its power the one of the item.
FramesEncode ==
    \A k \in DOMAIN frames : \A t \in Timed :
        LET Of(i) == Txpk(frames[k][i], t)
        IN  /\ \A i \in DOMAIN frames[k] :
                  /\ (frames[k][i].at = "gps" /\ t.gps < 0) \/ Encodes(frames[k][i], t)
                  /\ Cardinality(Of(i).tmst) + Cardinality(Of(i).tmms)
                        + (IF Of(i).imme THEN 1 ELSE 0) = 1
                  /\ \A ms \in Of(i).tmms : t.gps - 1000 < ms * 1000 /\ ms * 1000 <= t.gps
                  /\ Of(i).powe = frames[k][i].power
                  /\ \E r \in DOMAIN config.drs :
                        /\ Of(i).datr[1] = config.drs[r].sf
                        /\ config.drs[r].khz * 1000 < Word => Of(i).datr[2] = config.drs[r].khz
            /\ \A i, j \in DOMAIN frames[k] :
                  i < j => \A a \in Of(i).tmst, b \in Of(j).tmst : b = (a + Second) % CountMod
=============================================================================
