----------------------------- MODULE UplinkFrames -----------------------------
(***************************************************************************)
(* From what the radio heard to the messages of the LNS: handle_push_data  *)
(* of the Semtech UDP backend, handle_event_msg of the Concentratord one,  *)
(* and frame_to_json.  The link is up and has a router_config here;        *)
(* LnsSession has the rest of send_uplink.                                 *)
(*                                                                         *)
(* A frame is a record:                                                    *)
(*   crc      "ok", "invalid" or "missing", "none" without rx_info         *)
(*   form     "json": not to be parsed; "codr": LoRa without codr; "good"  *)
(*   signals  number of rsig entries                                       *)
(*   known    its modulation is in the table of data rates                 *)
(*   mtype, len, fopts   bits 7-5 of byte 0, the length of the payload     *)
(*            and the low four bits of byte 5, the length of FOpts         *)
(* A field of a message is the range of bytes it is read from, [from, to). *)
(*                                                                         *)
(* A datagram is [size, version, cid]; its JSON is a sequence of frames    *)
(* for a PUSH_DATA.  It is received into a buffer that is used again.      *)
(***************************************************************************)
EXTENDS Integers, Sequences, FiniteSets, SequencesExt

CONSTANTS
    Headers,    \* datagrams, without the JSON
    Datagrams,  \* sequences of frames a PUSH_DATA may hold
    Events,     \* frames of a Concentratord event
    Forward     \* the crc values for which a forward_crc_ flag is set

Header == [size : Nat, version : Nat, cid : Nat]

Frame == [crc : {"ok", "invalid", "missing", "none"}, form : {"json", "codr", "good"},
          signals : Nat, known : BOOLEAN, mtype : 0..7, len : Nat, fopts : 0..15]

\* An event of Concentratord has one rx_info and cannot fail to convert.
ASSUME UplinkFramesAssumption ==
    /\ Forward \subseteq {"ok", "invalid", "missing"}
    /\ Headers \subseteq Header /\ Datagrams \subseteq Seq(Frame)
    /\ Events \subseteq {f \in Frame : f.form = "good" /\ f.signals = 0}

VARIABLES
    received,   \* size of the datagram in the buffer, and the bytes looked at
    datagram,   \* the frames being handled
    todo,       \* converted frames not looked at yet: <<index, signal>>
    step,       \* "idle", "received", "loop", "done"
    acked,      \* PUSH_ACK was sent
    sent        \* messages for the LNS

vars == <<received, datagram, todo, step, acked, sent>>

-----------------------------------------------------------------------------
(* frame_to_json                                                           *)

Field(name, from, to) == [name |-> name, from |-> from, to |-> to]

DataTypes == {2, 4}

Encodable(f) ==
    /\ f.len > 0 /\ f.known /\ f.crc # "none"
    /\ \/ f.mtype = 0 /\ f.len >= 23
       \/ f.mtype \in DataTypes /\ f.len >= 12
       \/ f.mtype = 7

JoinFields == << Field("MHdr", 0, 1), Field("JoinEui", 1, 9), Field("DevEui", 9, 17),
                 Field("DevNonce", 17, 19), Field("MIC", 19, 23) >>

MicStart(f) == f.len - 4
HeaderEnd(f) == 8 + f.fopts

\* Mutant of FOpts: the length is not compared.
FOptsUnchecked(f) == IF f.fopts > 0 THEN <<Field("FOpts", 8, HeaderEnd(f))>> ELSE <<>>

FOpts(f) ==
    IF f.fopts > 0 /\ f.len >= HeaderEnd(f) THEN <<Field("FOpts", 8, HeaderEnd(f))>> ELSE <<>>

\* Mutant of Payload: the port is the first byte of the payload too.
PayloadWithPort(f) ==
    IF HeaderEnd(f) < MicStart(f)
    THEN << Field("FPort", HeaderEnd(f), HeaderEnd(f) + 1),
            Field("FRMPayload", HeaderEnd(f), MicStart(f)) >>
    ELSE <<>>

\* FPort is -1 when there is none; an empty payload is an empty range.
Payload(f) ==
    IF HeaderEnd(f) < MicStart(f)
    THEN << Field("FPort", HeaderEnd(f), HeaderEnd(f) + 1),
            Field("FRMPayload", HeaderEnd(f) + 1, MicStart(f)) >>
    ELSE <<>>

DataFields(f) ==
    << Field("MHdr", 0, 1), Field("DevAddr", 1, 5), Field("FCtrl", 5, 6), Field("FCnt", 6, 8) >>
    \o FOpts(f) \o Payload(f) \o << Field("MIC", MicStart(f), f.len) >>

Fields(f) ==
    CASE f.mtype = 0          -> JoinFields
      [] f.mtype \in DataTypes -> DataFields(f)
      [] OTHER                -> << Field("FRMPayload", 1, f.len) >>

-----------------------------------------------------------------------------
(* udp_receive_loop and the three from_slice                               *)

PushDataId == 0
PullDataId == 2
TxAckId    == 5

Nothing == [size |-> 0, read |-> {}]

\* Mutant of Dispatched: one byte less is enough.
DispatchedShort(b) == b.size >= 3

\* The identifier is looked at.
Dispatched(b) == b.size >= 4

LongEnough(b) ==
    \/ b.cid = PushDataId /\ b.size >= 14
    \/ b.cid = PullDataId /\ b.size = 12
    \/ b.cid = TxAckId /\ b.size >= 12

Accepted(b) == Dispatched(b) /\ LongEnough(b) /\ b.version = 2

IsPushData(b) == Accepted(b) /\ b.cid = PushDataId

\* A TX_ACK of 12 or 13 bytes is one without JSON.
HasJson(b) == b.cid # PullDataId /\ b.size >= 14

\* The bytes looked at: the identifier, the version, token and gateway id, the JSON.
Read(b) ==
    (IF Dispatched(b) THEN {3} ELSE {})
    \cup (IF Dispatched(b) /\ LongEnough(b) THEN {0} ELSE {})
    \cup (IF Accepted(b) THEN 1..11 ELSE {})
    \cup (IF Accepted(b) /\ HasJson(b) THEN 12..(b.size - 1) ELSE {})

-----------------------------------------------------------------------------
(* The handlers                                                            *)

\* The flags are not asked about a frame without rx_info; frame_to_json refuses it.
Wanted(f) == f.crc = "none" \/ f.crc \in Forward

Max1(n) == IF n = 0 THEN 1 ELSE n

\* to_proto: one frame for each antenna, or one.
Converted(d) ==
    FlattenSeq([k \in DOMAIN d |-> [s \in 1..Max1(d[k].signals) |-> <<k, s>>]])

Init ==
    /\ received = Nothing
    /\ datagram = <<>> /\ todo = <<>> /\ step = "idle" /\ acked = FALSE /\ sent = <<>>

\* A PUSH_DATA; nothing is acked when its JSON cannot be parsed.
PushData(b, d) ==
    /\ step = "idle" /\ IsPushData(b)
    /\ received' = [size |-> b.size, read |-> Read(b)]
    /\ datagram' = d /\ sent' = <<>> /\ todo' = <<>>
    /\ IF \E k \in DOMAIN d : d[k].form = "json"
       THEN step' = "done" /\ acked' = FALSE
       ELSE step' = "received" /\ acked' = TRUE

\* Any other datagram is refused, or handled as SemtechUdp says.
Receive(b) ==
    /\ step = "idle" /\ ~IsPushData(b)
    /\ received' = [size |-> b.size, read |-> Read(b)]
    /\ step' = "done"
    /\ acked' = (Accepted(b) /\ b.cid = PullDataId)
    /\ UNCHANGED <<datagram, todo, sent>>

\* Mutant of Convert: the frames before the first that cannot be converted are kept.
ConvertFirst ==
    /\ step = "received"
    /\ step' = "loop"
    /\ todo' = SelectSeq(Converted(datagram),
                         LAMBDA p : \A k \in 1..p[1] : datagram[k].form # "codr")
    /\ UNCHANGED <<received, datagram, acked, sent>>

\* to_proto_uplink_frames: a frame that cannot be converted ends the handler.
Convert ==
    /\ step = "received"
    /\ IF \E k \in DOMAIN datagram : datagram[k].form = "codr"
       THEN step' = "done" /\ todo' = <<>>
       ELSE step' = "loop" /\ todo' = Converted(datagram)
    /\ UNCHANGED <<received, datagram, acked, sent>>

\* A Concentratord event is one frame, and is filtered and sent in the same way.
Event(f) ==
    /\ step = "idle"
    /\ datagram' = <<f>> /\ sent' = <<>> /\ todo' = << <<1, 1>> >>
    /\ step' = "loop" /\ acked' = FALSE
    /\ UNCHANGED received

Current == datagram[todo[1][1]]

\* Mutant of Refuse: an error of send_uplink ends the loop.
RefuseEnds ==
    /\ step = "loop" /\ todo # <<>> /\ Wanted(Current) /\ ~Encodable(Current)
    /\ todo' = <<>>
    /\ UNCHANGED <<received, datagram, step, acked, sent>>

Ignore ==
    /\ step = "loop" /\ todo # <<>> /\ ~Wanted(Current)
    /\ todo' = Tail(todo)
    /\ UNCHANGED <<received, datagram, step, acked, sent>>

\* send_uplink fails in frame_to_json, which is logged.
Refuse ==
    /\ step = "loop" /\ todo # <<>> /\ Wanted(Current) /\ ~Encodable(Current)
    /\ todo' = Tail(todo)
    /\ UNCHANGED <<received, datagram, step, acked, sent>>

SendUplink ==
    /\ step = "loop" /\ todo # <<>> /\ Wanted(Current) /\ Encodable(Current)
    /\ sent' = Append(sent, [of |-> todo[1], fields |-> Fields(Current)])
    /\ todo' = Tail(todo)
    /\ UNCHANGED <<received, datagram, step, acked>>

LoopDone ==
    /\ step = "loop" /\ todo = <<>>
    /\ step' = "done"
    /\ UNCHANGED <<received, datagram, todo, acked, sent>>

Return ==
    /\ step = "done"
    /\ received' = Nothing
    /\ datagram' = <<>> /\ todo' = <<>> /\ step' = "idle" /\ acked' = FALSE /\ sent' = <<>>

Next ==
    \/ \E b \in {h \in Headers : IsPushData(h)}, d \in Datagrams : PushData(b, d)
    \/ \E b \in Headers : Receive(b)
    \/ \E f \in Events : Event(f)
    \/ Convert \/ Ignore \/ Refuse \/ SendUplink \/ LoopDone \/ Return

Spec == Init /\ [][Next]_vars

-----------------------------------------------------------------------------
(* Properties                                                              *)

\* Every range of bytes that is read lies in what was received: no byte of an
\* earlier datagram in the buffer, which is not cleared, is taken for one of this
\* (udp_receive_loop looks at buffer[3] itself), and no index or slice of from_slice
\* or frame_to_json is out of bounds, which would panic.
ReadsWhatArrived ==
    /\ received.read \subseteq 0..(received.size - 1)
    /\ \A k \in DOMAIN sent : \A i \in DOMAIN sent[k].fields :
          LET field == sent[k].fields[i]
          IN  0 <= field.from /\ field.from <= field.to
                /\ field.to <= datagram[sent[k].of[1]].len

\* The fields of a message tile its frame: no byte is reported twice or left out
\* (frame_to_json).  A join request of more than 23 bytes is cut, and a data frame
\* whose FOpts reach into the MIC reports those bytes twice; MHDR is not a field of propdf.
WellFormed(f) == /\ f.mtype = 0 => f.len = 23
                 /\ f.mtype \in DataTypes => HeaderEnd(f) <= MicStart(f)

FieldsTile ==
    \A k \in DOMAIN sent :
        LET f  == datagram[sent[k].of[1]]
            fs == sent[k].fields
        IN  WellFormed(f) =>
                /\ fs[1].from = (IF f.mtype = 7 THEN 1 ELSE 0)
                /\ fs[Len(fs)].to = f.len
                /\ \A i \in 1..(Len(fs) - 1) : fs[i].to = fs[i + 1].from

\* Every signal of a wanted frame becomes one message, in the order of the
\* datagram, whatever becomes of the frames around it; no other
\* frame reaches the LNS; and a datagram is forwarded whole or, when one frame of it
\* does not convert, not at all, though it was acked before (handle_push_data,
\* handle_event_msg).
Convertible == \A k \in DOMAIN datagram : datagram[k].form = "good"

ForwardedOnceInOrder ==
    /\ \A i \in DOMAIN sent : datagram[sent[i].of[1]].crc \in Forward
    /\ \A i, j \in DOMAIN sent :
          i < j => \/ sent[i].of[1] < sent[j].of[1]
                   \/ sent[i].of[1] = sent[j].of[1] /\ sent[i].of[2] < sent[j].of[2]
    /\ ~Convertible => sent = <<>>
    /\ step = "done" /\ Convertible => \A k \in DOMAIN datagram :
          (datagram[k].crc \in Forward /\ Encodable(datagram[k])) =>
              Cardinality({i \in DOMAIN sent : sent[i].of[1] = k})
                  = Max1(datagram[k].signals)

\* What makes them inductive: while a datagram is handled, the signals sent and those
\* still to do are signals of it in their order, and a wanted one is among them.
FieldNames == {"MHdr", "JoinEui", "DevEui", "DevNonce", "MIC", "DevAddr", "FCtrl", "FCnt",
               "FOpts", "FPort", "FRMPayload"}

FieldType == [name : FieldNames, from : Nat, to : Nat]

TypeOK ==
    /\ received \in [size : Nat, read : SUBSET Nat]
    /\ datagram \in Seq(Frame) /\ todo \in Seq(Nat \X Nat)
    /\ step \in {"idle", "received", "loop", "done"} /\ acked \in BOOLEAN
    /\ sent \in Seq([of : Nat \X Nat, fields : Seq(FieldType)])

IsSignal(d, p) == p[1] \in DOMAIN d /\ p[2] \in 1..Max1(d[p[1]].signals)

Earlier(p, q) == p[1] < q[1] \/ (p[1] = q[1] /\ p[2] < q[2])

StepInv ==
    /\ received.read \subseteq 0..(received.size - 1)
    /\ step # "loop" => todo = <<>>
    /\ step \in {"idle", "received"} => sent = <<>>
    /\ step = "idle" => datagram = <<>>
    /\ step = "received" => \A k \in DOMAIN datagram : datagram[k].form # "json"
    /\ step = "loop" => Convertible
    /\ ~Convertible => sent = <<>>

MessageInv ==
    \A i \in DOMAIN sent :
        LET f == datagram[sent[i].of[1]]
        IN  IsSignal(datagram, sent[i].of) /\ Wanted(f) /\ Encodable(f)
              /\ sent[i].fields = Fields(f)

OrderInv ==
    /\ \A i \in DOMAIN todo : IsSignal(datagram, todo[i])
    /\ \A i, j \in DOMAIN todo : i < j => Earlier(todo[i], todo[j])
    /\ \A i, j \in DOMAIN sent : i < j => Earlier(sent[i].of, sent[j].of)
    /\ \A i \in DOMAIN sent, j \in DOMAIN todo : Earlier(sent[i].of, todo[j])

Forwarded(p) == (\E i \in DOMAIN todo : todo[i] = p) \/ (\E i \in DOMAIN sent : sent[i].of = p)

CompleteInv ==
    (step = "loop" \/ (step = "done" /\ Convertible)) =>
        \A k \in DOMAIN datagram :
            (Wanted(datagram[k]) /\ Encodable(datagram[k])) =>
                \A s \in 1..Max1(datagram[k].signals) : Forwarded(<<k, s>>)

UplinkInv == TypeOK /\ StepInv /\ MessageInv /\ OrderInv /\ CompleteInv
=============================================================================
