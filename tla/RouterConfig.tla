----------------------------- MODULE RouterConfig -----------------------------
(***************************************************************************)
(* What the station makes of a router_config message (router_config.rs):   *)
(* the table of data rates with its lookups, the transmit power, and the   *)
(* channels that the backend is told to listen on.                         *)
(*                                                                         *)
(* A modulation is [sf, khz]; FSK has sf 0.  A channel frequency may be in *)
(* any unit: it wraps like the u32 it is.                                  *)
(***************************************************************************)
EXTENDS Integers, SequencesExt

CONSTANT Word   \* u32: 2^32

ASSUME RouterConfigAssumption == Word \in Nat \ {0}

-----------------------------------------------------------------------------
(* The table; a DR is an index from 0                                      *)

\* Mutant of Parsed: the numbers keep their sign.
ParsedSigned(table) == [k \in DOMAIN table |-> [sf |-> table[k][1], khz |-> table[k][2]]]

\* from_router_config: SF and BW are cast to u32, -1 included.
Parsed(table) == [k \in DOMAIN table |-> [sf  |-> table[k][1] % Word,
                                          khz |-> table[k][2] % Word]]

Row == [sf : 0..(Word - 1), khz : 0..(Word - 1)]

\* Mutant of Hits: the bandwidth is not compared.
HitsBySf(drs, radio) == {k \in DOMAIN drs : drs[k].sf = radio.sf}

\* The rows of a modulation: those with its numbers, or any row of FSK.
Hits(drs, radio) ==
    {k \in DOMAIN drs : drs[k].sf = radio.sf /\ (radio.sf = 0 \/ drs[k].khz = radio.khz)}

First(hits) == CHOOSE k \in hits : \A j \in hits : k <= j

\* modulation_to_dr with sf_bw_to_dr and fsk_to_dr: the first row, or -1.
DrOf(drs, radio) == IF Hits(drs, radio) = {} THEN -1 ELSE First(Hits(drs, radio)) - 1

\* dr_to_sf_bw
Known(drs, dr) == 0 <= dr /\ dr < Len(drs)

Rate(drs, dr) == [sf |-> drs[dr + 1].sf, hz |-> (drs[dr + 1].khz * 1000) % Word]

-----------------------------------------------------------------------------
(* The transmit power, in dBm; max_eirp comes in tenths of a dB            *)

MinTxPower == 12

RegionDefault(region) == IF region \in {"EU868", "EU863"} THEN 16 ELSE 14

\* f64::round of a positive number: a half goes up.
Rounded(tenths) == (tenths + 5) \div 10

\* An LNS without max_eirp sends 0.
Capped(region, eirp) ==
    IF eirp > 0 /\ Rounded(eirp) < RegionDefault(region) THEN Rounded(eirp)
                                                         ELSE RegionDefault(region)

\* Mutant of TxPower: no floor.
TxPowerAsAdvertised(region, eirp) == Capped(region, eirp)

\* resolve_tx_power_dbm
TxPower(region, eirp) ==
    IF Capped(region, eirp) < MinTxPower THEN MinTxPower ELSE Capped(region, eirp)

-----------------------------------------------------------------------------
(* The channels; a board is [radios, multi, std, fsk], its two radios'     *)
(* frequencies (0 when absent) and three sequences of channels             *)

\* Mutant of Freq: every channel is on the first radio.
FreqOfRadio0(board, chan) == (board.radios[1] + chan.offset) % Word

\* The frequency that the plan means.
Planned(board, chan) == board.radios[IF chan.radio = 0 THEN 1 ELSE 2] + chan.offset

\* get_radio_freq and the cast of the sum: any radio but 0 is the second.
Freq(board, chan) == Planned(board, chan) % Word

Kinds == {"multi-SF", "LoRa", "FSK"}

ListOf(board, kind) == CASE kind = "multi-SF" -> board.multi
                         [] kind = "LoRa"     -> board.std
                         [] kind = "FSK"      -> board.fsk

\* What a channel adds to the configuration: nothing when it is not enabled.
Added(board, chan, kind) ==
    IF chan.enable THEN <<[freq |-> Freq(board, chan), kind |-> kind]>> ELSE <<>>

AddedAll(board, kind) ==
    LET chans == ListOf(board, kind)
    IN  FlattenSeq([k \in DOMAIN chans |-> Added(board, chans[k], kind)])

BoardChannels(board) ==
    AddedAll(board, "multi-SF") \o AddedAll(board, "LoRa") \o AddedAll(board, "FSK")

\* to_gateway_configuration
Channels(boards) == FlattenSeq([b \in DOMAIN boards |-> BoardChannels(boards[b])])

ChanType == [enable : BOOLEAN, radio : Nat, offset : Int]

BoardType == [radios : Nat \X Nat, multi : Seq(ChanType), std : Seq(ChanType), fsk : Seq(ChanType)]

\* RouterConfigState::from_router_config
StateOf(rc) == [drs |-> Parsed(rc.drs), power |-> TxPower(rc.region, rc.eirp)]
=============================================================================
