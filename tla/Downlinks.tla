------------------------------- MODULE Downlinks -------------------------------
(***************************************************************************)
(* How a dnmsg and a dnsched become frames for the backend: the            *)
(* router_config in force, the windows of each class (build_class_a/b/c_   *)
(* downlink), the loop over a schedule and what is told to the LNS.  The   *)
(* data rate of an uplink (modulation_to_dr) is here too, as the LNS       *)
(* answers in it.                                                          *)
(*                                                                         *)
(* A window of a message is its data rate, or NoDr when the rate or the    *)
(* frequency is absent.  Whether resolve_context finds the context of a    *)
(* mesh relay is an input here and modelled in ContextResolution.          *)
(***************************************************************************)
EXTENDS RouterConfig

CONSTANTS
    Configs,    \* router_config messages: [drs, region, eirp, boards]
    Radios,     \* modulations of uplinks
    Schedules   \* dnsched: sequences of [pdu, dr], pdu "hex", "none" or "bad"

NoDr == -2

EntryType == [pdu : {"hex", "none", "bad"}, dr : Int]

ASSUME DownlinksAssumption ==
    /\ \A rc \in Configs : /\ rc.drs \in Seq(Int \X Int) /\ rc.eirp \in Int
                            /\ rc.boards \in Seq(BoardType)
    /\ Schedules \subseteq Seq(EntryType)
    /\ \A radio \in Radios : /\ radio.sf \in Nat /\ radio.khz \in Nat
                              /\ radio.khz * 1000 < Word

VARIABLES
    config,     \* ROUTER_CONFIG: the table and the transmit power, or NoConfig
    channels,   \* what the backend was last told to listen on
    uplink,     \* the last uplink: its modulation, the DR reported, by which table
    schedule,   \* handle_dnsched: the entries, the next one, the result
    frames,     \* frames given to the backend for this message
    reply       \* what send_downlink_frame returned and whether a dntxed followed

vars == <<config, channels, uplink, schedule, frames, reply>>

NoConfig == [drs |-> <<>>, power |-> 0]

-----------------------------------------------------------------------------
(* The frame of a dnmsg                                                    *)

Window(dr, at, relay, power) ==
    IF dr # NoDr /\ Known(config.drs, dr)
    THEN <<[rate |-> Rate(config.drs, dr), at |-> at, relay |-> relay, power |-> power]>>
    ELSE <<>>

\* downlink_power
Power(m) == IF m.mesh THEN config.power ELSE 0

\* Mutant of Windows: RX2 is put first.
WindowsSwapped(m) ==
    Window(m.rx2, "rx1+1s", m.mesh, Power(m)) \o Window(m.rx1, "rx1", m.mesh, Power(m))

\* RX1 and RX2 after an uplink, of class A and of class C with an xtime.
Windows(m) ==
    Window(m.rx1, "rx1", m.mesh, Power(m)) \o Window(m.rx2, "rx1+1s", m.mesh, Power(m))

NoFrame == <<[rate |-> [sf |-> 0, hz |-> 0], at |-> "error", relay |-> FALSE, power |-> 0]>>

\* The items, NoFrame when building them fails.  Without an xtime there is no
\* context, so no relay.
Items(m) ==
    IF m.xtime /\ m.class \in {"A", "C"} THEN Windows(m)
    ELSE IF m.class = "C" THEN Window(m.rx2, "now", FALSE, 0)
    ELSE IF m.class = "B" /\ Known(config.drs, m.dr) THEN Window(m.dr, "gps", FALSE, 0)
    ELSE NoFrame

Drs == {NoDr, -1} \cup 0..4

\* The dr of a class B message defaults to 0, so it is never absent.
Message == [class : {"A", "B", "C", "other"}, xtime : BOOLEAN, rx1 : Drs, rx2 : Drs,
            dr : Drs \ {NoDr}, mesh : BOOLEAN, pdu : BOOLEAN]

\* What the backend returns: an ack of the frame, one that rejects it, an error.
Outcome == {"ok", "rejected", "error"}

NoReply    == [result |-> "none", dntxed |-> FALSE]
NoSchedule == [entries |-> <<>>, next |-> 1, result |-> "idle"]

Init ==
    /\ config = NoConfig /\ channels = <<>>
    /\ uplink = [radio |-> [sf |-> 0, khz |-> 0], dr |-> -1, drs |-> <<>>]
    /\ schedule = NoSchedule /\ frames = <<>> /\ reply = NoReply

Idle == schedule = NoSchedule /\ reply = NoReply

\* The handler of router_config; that the backend fails is only logged.
Configure(rc, taken) ==
    /\ Idle
    /\ config' = StateOf(rc)
    /\ channels' = IF taken THEN Channels(rc.boards) ELSE channels
    /\ UNCHANGED <<uplink, schedule, frames, reply>>

\* connection_loop forgets the configuration, the gateway does not.
Disconnect ==
    /\ Idle
    /\ config' = NoConfig
    /\ UNCHANGED <<channels, uplink, schedule, frames, reply>>

\* send_uplink and frame_to_json; an uplink without a data rate is refused.
Uplink(radio) ==
    /\ config # NoConfig /\ Hits(config.drs, radio) # {}
    /\ uplink' = [radio |-> radio, dr |-> DrOf(config.drs, radio), drs |-> config.drs]
    /\ UNCHANGED <<config, channels, schedule, frames, reply>>

\* The handler returned; what it did is forgotten with the next message.
Return ==
    /\ schedule.result # "running" /\ ~Idle
    /\ schedule' = NoSchedule /\ frames' = <<>> /\ reply' = NoReply
    /\ UNCHANGED <<config, channels, uplink>>

\* The ack itself is not looked at.
Confirmed(result) == result # "error"

\* handle_dnmsg; a message without pdu or without frame is an error, and logged.
Dnmsg(m, result) ==
    LET items == Items(m)
    IN  /\ Idle /\ config # NoConfig
        /\ m.pdu /\ items # NoFrame
        /\ frames' = <<items>>
        /\ reply' = [result |-> result, dntxed |-> Confirmed(result)]
        /\ UNCHANGED <<config, channels, uplink, schedule>>

-----------------------------------------------------------------------------
(* handle_dnsched                                                          *)

Dnsched(entries) ==
    /\ Idle /\ config # NoConfig
    /\ schedule' = [entries |-> entries, next |-> 1, result |-> "running"]
    /\ UNCHANGED <<config, channels, uplink, frames, reply>>

Running == schedule.result = "running" /\ schedule.next <= Len(schedule.entries)

Entry == schedule.entries[schedule.next]

Continue == schedule' = [schedule EXCEPT !.next = @ + 1]
Abort    == schedule' = [schedule EXCEPT !.result = "error"]

\* Without pdu, or FSK, which makes no frame.
Skipped == \/ Entry.pdu = "none"
           \/ Entry.pdu = "hex" /\ Known(config.drs, Entry.dr) /\ Rate(config.drs, Entry.dr).sf = 0

SkipEntry ==
    /\ Running /\ Skipped
    /\ Continue
    /\ UNCHANGED <<config, channels, uplink, frames, reply>>

\* The pdu is no hex string, or the DR is unknown: the loop is left.
BadEntry ==
    /\ Running /\ (Entry.pdu = "bad" \/ (Entry.pdu = "hex" /\ ~Known(config.drs, Entry.dr)))
    /\ Abort
    /\ UNCHANGED <<config, channels, uplink, frames, reply>>

\* Mutant of Sent: the schedule goes on after a frame that was not sent.
SentOrNot(result) == Continue

Sent(result) == IF result = "error" THEN Abort ELSE Continue

SendEntry(result) ==
    /\ Running /\ Entry.pdu = "hex" /\ Known(config.drs, Entry.dr) /\ ~Skipped
    /\ frames' = Append(frames, Window(Entry.dr, "gps", FALSE, 0))
    /\ reply' = [result |-> result, dntxed |-> FALSE]
    /\ Sent(result)
    /\ UNCHANGED <<config, channels, uplink>>

ScheduleDone ==
    /\ schedule.result = "running" /\ schedule.next > Len(schedule.entries)
    /\ schedule' = [schedule EXCEPT !.result = "done"]
    /\ UNCHANGED <<config, channels, uplink, frames, reply>>

Next ==
    \/ Return \/ Disconnect
    \/ \E rc \in Configs, taken \in BOOLEAN : Configure(rc, taken)
    \/ \E radio \in Radios : Uplink(radio)
    \/ \E m \in Message, result \in Outcome : Dnmsg(m, result)
    \/ \E entries \in Schedules : Dnsched(entries)
    \/ SkipEntry \/ BadEntry \/ ScheduleDone
    \/ \E result \in Outcome : SendEntry(result)

Spec == Init /\ [][Next]_vars

-----------------------------------------------------------------------------
(* Properties                                                              *)

PowerType == {0} \cup MinTxPower..16

ItemType == [rate : [sf : 0..(Word - 1), hz : 0..(Word - 1)],
             at : {"rx1", "rx1+1s", "gps", "now"}, relay : BOOLEAN, power : PowerType]

TypeOK ==
    /\ config \in [drs : Seq(Row), power : PowerType]
    /\ schedule \in [entries : Seq(EntryType), next : Nat \ {0},
                     result : {"idle", "running", "error", "done"}]
    /\ frames \in Seq(Seq(ItemType))
    /\ reply \in [result : Outcome \cup {"none"}, dntxed : BOOLEAN]

\* An answer in the data rate that was reported for an uplink goes out in the
\* modulation of that uplink, though a table may have the same rate twice, as
\* long as the LNS has not sent another table since.
AnswerInRateOfUplink ==
    (uplink.dr >= 0 /\ uplink.radio.sf > 0 /\ config.drs = uplink.drs) =>
        Rate(config.drs, uplink.dr) = [sf |-> uplink.radio.sf, hz |-> uplink.radio.khz * 1000]

\* A mesh relay refuses a power below its table (comment at MIN_TX_POWER_DBM), so
\* every frame that a relay will take has one it accepts, whatever the LNS
\* advertised and whichever class the message had.
RelayAccepts ==
    \A k \in DOMAIN frames : \A i \in DOMAIN frames[k] :
        frames[k][i].relay => frames[k][i].power >= MinTxPower

\* A plan that means different channels: the frequencies planned for the enabled
\* channels of a kind differ, and by less than a u32 holds.
Apart(f, g) == f # g /\ f - g < Word /\ g - f < Word

SeparatePlan(boards) ==
    \A kind \in Kinds : \A b, c \in DOMAIN boards :
        \A i \in DOMAIN ListOf(boards[b], kind), j \in DOMAIN ListOf(boards[c], kind) :
            LET one == ListOf(boards[b], kind)[i]
                two == ListOf(boards[c], kind)[j]
            IN  (<<b, i>> # <<c, j>> /\ one.enable /\ two.enable) =>
                    Apart(Planned(boards[b], one), Planned(boards[c], two))

SeparatePlans == \A rc \in Configs : SeparatePlan(rc.boards)

\* The enabled channels of a plan stay as many different channels: none is moved
\* onto another by the choice of its radio or by the width of a frequency.
ChannelsDistinct ==
    \A i, j \in DOMAIN channels : channels[i] = channels[j] => i = j

\* The backend tries the items of a frame in order, so they are in the order of
\* time, and a frame mixes no kinds of timing (docs/DEVELOPERS.md on class A).
ItemsInTimeOrder ==
    \A k \in DOMAIN frames :
        \A i, j \in DOMAIN frames[k] :
            i < j => frames[k][i].at = "rx1" /\ frames[k][j].at = "rx1+1s"

\* What makes them inductive: a configuration in force has a power for relays,
\* and the rate an uplink was reported in is its own in the table used for it,
\* whichever is in force now.
UplinkInItsRate ==
    (uplink.dr >= 0 /\ uplink.radio.sf > 0) =>
        Rate(uplink.drs, uplink.dr) = [sf |-> uplink.radio.sf, hz |-> uplink.radio.khz * 1000]

RadioInv ==
    /\ TypeOK
    /\ config # NoConfig => config.power >= MinTxPower
    /\ UplinkInItsRate /\ RelayAccepts /\ ItemsInTimeOrder

\* The frames of a schedule are those of its entries, in order and none left out,
\* up to where the loop is; the first that is undecodable, in an unknown DR or
\* refused by the backend is the last that is looked at.
Sendable(e) == e.pdu = "hex" /\ Known(config.drs, e.dr) /\ Rate(config.drs, e.dr).sf > 0

Chosen(n) == {k \in 1..n : Sendable(schedule.entries[k])}

Looked == IF schedule.result = "error" THEN schedule.next ELSE schedule.next - 1

ScheduleIsAPrefix ==
    schedule.entries # <<>> =>
        /\ Len(frames) = Cardinality(Chosen(Looked))
        /\ \A k \in Chosen(Looked) :
              frames[Cardinality(Chosen(k))] = Window(schedule.entries[k].dr, "gps", FALSE, 0)
        /\ reply.result = "error" => schedule.result = "error"

\* No frame outlives its message, so its rates are in the table in force.
RatesInTable ==
    \A k \in DOMAIN frames : \A i \in DOMAIN frames[k] :
        \E r \in DOMAIN config.drs : frames[k][i].rate = Rate(config.drs, r - 1)

HandlerInv ==
    /\ Idle => frames = <<>>
    /\ schedule.next <= Len(schedule.entries) + 1
    /\ RatesInTable /\ ScheduleIsAPrefix

DownlinkInv == RadioInv /\ HandlerInv
=============================================================================
