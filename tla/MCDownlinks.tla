------------------------------ MODULE MCDownlinks ------------------------------
(* Values for TLC: an LNS that sends US915 (two LoRa rates, FSK, the first rate *)
(* again, and a limit of 11 dBm, below what a relay accepts), and one that      *)
(* sends EU868 with an undefined rate (-1) and no limit.  A u32 is modulo       *)
(* 1000003, so that no bandwidth and no frequency in kHz wraps, except that of   *)
(* a channel on an absent radio.  A counter of 100 s wraps between the uplink    *)
(* and RX1, between RX1 and RX2, or not.                                         *)
EXTENDS PullResp

On(radio, offset) == [enable |-> TRUE, radio |-> radio, offset |-> offset]

Off == [enable |-> FALSE, radio |-> 0, offset |-> 0]

US915 == [drs |-> << <<12, 125>>, <<8, 500>>, <<0, 0>>, <<8, 500>> >>,
          region |-> "US902", eirp |-> 110,
          boards |-> << [radios |-> <<904300, 905100>>,
                         multi |-> <<On(0, -400), On(0, 300), Off, On(1, -400), On(1, 300)>>,
                         std |-> <<On(0, 300)>>, fsk |-> <<>>],
                        [radios |-> <<907000, 0>>,
                         multi |-> <<On(0, -400)>>,
                         std |-> <<Off>>, fsk |-> <<On(1, -400)>>] >>]

EU868 == [drs |-> << <<7, 125>>, <<-1, 0>> >>,
          region |-> "EU863", eirp |-> 0, boards |-> <<>>]

SomeConfigs == {US915, EU868}

\* Both plans mean different channels, as ChannelsDistinct needs.
ASSUME SomePlansSeparate == SeparatePlans

SomeRadios == {[sf |-> 12, khz |-> 125], [sf |-> 8, khz |-> 500],
               [sf |-> 8, khz |-> 125], [sf |-> 9, khz |-> 125], [sf |-> 0, khz |-> 0]}

SomeEntries == [pdu : {"hex"}, dr : {0, 2, 7}] \cup [pdu : {"none", "bad"}, dr : {0}]

SomeSchedules == UNION {[1..n -> SomeEntries] : n \in 0..3}

SomeGpsTimes == {-1, 0, 999, 1000, 1234567}
=============================================================================
