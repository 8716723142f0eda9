------------------------------ MODULE SemtechUdp ------------------------------
(***************************************************************************)
(* The Semtech UDP backend: the start of the process, which waits for a    *)
(* gateway id, and the downlink path.  send_downlink_frame                 *)
(* caches a frame under its token, sends one item of it as a PULL_RESP and *)
(* answers at once; the UDP receive loop matches the TX_ACK with the cache *)
(* and sends the next item when the forwarder rejected this one.  Both the *)
(* task that reads the LNS and the receive loop run send_downlink_frame,   *)
(* and each lock of the shared State is a step of its own.                 *)
(*                                                                         *)
(* The packet forwarder and the network are external: a PULL_RESP is       *)
(* transmitted or rejected at most once, and its TX_ACK is lost, delivered *)
(* or duplicated, at any time and in any order.                            *)
(***************************************************************************)
EXTENDS Integers, Sequences, FiniteSets

CONSTANTS
    Frames,         \* downlinks of the LNS
    DownlinkId,     \* Frames -> Nat: the diid of a dnmsg, 0 without one and for a dnsched
    TokenMod,       \* the token is a u16: 2^16
    NumItems,       \* Frames -> number of items: RX1 and RX2, or one; none if bad
    Addrs,          \* source addresses of PULL_DATA
    GatewayIds,     \* gateway ids in PULL_DATA
    ConfGatewayId,  \* conf.backend.gateway_id, Unset when empty
    Unset,
    MaxItems,       \* bound: items of the downlinks of a run
    MaxPulls,       \* bound: PULL_DATA datagrams
    MaxCopies       \* bound: copies of one TX_ACK the network delivers

ASSUME SemtechAssumption ==
    /\ DownlinkId \in [Frames -> Nat] /\ TokenMod \in Nat \ {0}
    /\ NumItems \in [Frames -> Nat]
    /\ Unset \notin Addrs \cup GatewayIds \cup Frames
    /\ ConfGatewayId \in GatewayIds \cup {Unset}
    /\ MaxItems \in Nat /\ MaxPulls \in Nat /\ MaxCopies \in Nat

VARIABLES
    boot,           \* main: how far it is, and the ids that its parts took
    gatewayId,      \* State.gateway_id
    pullAddr,       \* State.pull_addr
    cache,          \* State.downlink_cache: token -> entry or NoEntry
    call,           \* caller -> locals of its send_downlink_frame
    loop,           \* locals of the receive loop's handler
    pulls,          \* history: the ids of PULL_DATA received
    given,          \* history: frames the LNS task passed down
    resps,          \* PULL_RESP on the network, and whether the item was sent before
    txAcks,         \* TX_ACK on the network
    history         \* what was sent, rejected, put on the air, dropped

net == <<resps, txAcks>>
vars == <<boot, gatewayId, pullAddr, cache, call, loop, pulls, given, resps, txAcks, history>>

Tokens  == 0..(TokenMod - 1)
Callers == {"lns", "udp"}

\* downlink_id as u16
Token(f) == DownlinkId[f] % TokenMod

NoEntry   == [frame |-> Unset]
NoCall    == [pc |-> "idle"]
Receiving == [pc |-> "recv"]

\* Mutant of NoAcks: an ack for the first item only.
NoAcksFirst(f) == [i \in 0..0 |-> "ignored"]

\* Every item is Ignored until its TX_ACK arrives.
NoAcks(f) == [i \in 0..(NumItems[f] - 1) |-> "ignored"]

Init ==
    /\ boot = [pc |-> "wait", lns |-> Unset, cups |-> Unset]
    /\ gatewayId = ConfGatewayId /\ pullAddr = Unset
    /\ cache = [t \in Tokens |-> NoEntry]
    /\ call = [c \in Callers |-> NoCall] /\ loop = Receiving
    /\ pulls = <<>> /\ given = {} /\ resps = {} /\ txAcks = {}
    /\ history = [sent |-> {}, sends |-> 0, rejected |-> {}, air |-> {},
                  failed |-> {}, errors |-> {}, expired |-> {}]

-----------------------------------------------------------------------------
(* The start of main: the receive loop runs since the backend is set up    *)

\* Mutant of SeeGatewayId: nothing is waited for.
SeeGatewayIdNot ==
    /\ boot.pc = "wait"
    /\ boot' = [boot EXCEPT !.pc = "lns"]
    /\ UNCHANGED <<gatewayId, pullAddr, cache, call, loop, pulls, given, net, history>>

\* backend::setup looks once a second.
SeeGatewayId ==
    /\ boot.pc = "wait" /\ gatewayId # Unset
    /\ boot' = [boot EXCEPT !.pc = "lns"]
    /\ UNCHANGED <<gatewayId, pullAddr, cache, call, loop, pulls, given, net, history>>

\* lns::setup; connection_loop keeps the id it is given.
LnsSetup ==
    /\ boot.pc = "lns"
    /\ boot' = [boot EXCEPT !.pc = "cups", !.lns = gatewayId]
    /\ UNCHANGED <<gatewayId, pullAddr, cache, call, loop, pulls, given, net, history>>

\* cups::setup; so does update_loop.
CupsSetup ==
    /\ boot.pc = "cups"
    /\ boot' = [boot EXCEPT !.pc = "run", !.cups = gatewayId]
    /\ UNCHANGED <<gatewayId, pullAddr, cache, call, loop, pulls, given, net, history>>

-----------------------------------------------------------------------------
(* send_downlink_frame: cache, encode, find the address, send              *)

ItemsOf(fs) == {p \in fs \X (0..MaxItems) : p[2] < NumItems[p[1]]}

LnsDownlink(f) ==
    /\ boot.pc \in {"cups", "run"} /\ call["lns"].pc = "idle" /\ f \notin given
    /\ Cardinality(ItemsOf(given \cup {f})) <= MaxItems
    /\ given' = given \cup {f}
    /\ call' = [call EXCEPT !["lns"] = [pc |-> "cache", frame |-> f, index |-> 0,
                                        acks |-> NoAcks(f)]]
    /\ UNCHANGED <<boot, gatewayId, pullAddr, cache, loop, pulls, net, history>>

\* Mutant of SetCache: only the first item of a frame is cached.
SetCacheFirst(c) ==
    /\ call[c].pc = "cache"
    /\ cache' = IF call[c].index > 0 THEN cache ELSE
                [cache EXCEPT ![Token(call[c].frame)] =
                    [frame |-> call[c].frame, index |-> call[c].index,
                     acks |-> call[c].acks, expired |-> FALSE]]
    /\ call' = [call EXCEPT ![c].pc = "send"]
    /\ UNCHANGED <<boot, gatewayId, pullAddr, loop, pulls, given, net, history>>

\* An entry under the same token is replaced, whatever frame it is for.
SetCache(c) ==
    /\ call[c].pc = "cache"
    /\ cache' = [cache EXCEPT ![Token(call[c].frame)] =
                    [frame |-> call[c].frame, index |-> call[c].index,
                     acks |-> call[c].acks, expired |-> FALSE]]
    /\ call' = [call EXCEPT ![c].pc = "send"]
    /\ UNCHANGED <<boot, gatewayId, pullAddr, loop, pulls, given, net, history>>

\* PullResp::from_proto, get_pull_addr, which once set stays set, and send_to.
SendPullResp(c) ==
    LET item == [frame |-> call[c].frame, index |-> call[c].index]
    IN  /\ call[c].pc = "send" /\ item.index < NumItems[item.frame]
        /\ pullAddr # Unset
        /\ resps' = resps \cup {[item |-> item, again |-> item \in history.sent]}
        /\ history' = [history EXCEPT !.sent = @ \cup {item}, !.sends = @ + 1]
        /\ call' = [call EXCEPT ![c] = NoCall]
        /\ UNCHANGED <<boot, gatewayId, pullAddr, cache, loop, pulls, given, txAcks>>

\* There is no such item, it cannot be encoded, no PULL_DATA came yet, or send_to fails: the
\* error goes to the caller, and the entry stays in the cache.
SendFails(c) ==
    /\ call[c].pc = "send"
    /\ call' = [call EXCEPT ![c] = NoCall]
    /\ history' = [history EXCEPT !.failed = @ \cup {call[c].frame},
                      !.errors = IF c = "lns" THEN @ \cup {call[c].frame} ELSE @]
    /\ UNCHANGED <<boot, gatewayId, pullAddr, cache, loop, pulls, given, net>>

-----------------------------------------------------------------------------
(* udp_receive_loop, one datagram at a time                                *)

Ready == loop.pc = "recv" /\ call["udp"].pc = "idle"

\* handle_pull_data, the PULL_ACK sent.
SetGatewayId(id, addr) ==
    /\ Ready /\ Len(pulls) < MaxPulls
    /\ pulls' = Append(pulls, id)
    /\ gatewayId' = id
    /\ loop' = [pc |-> "pull", addr |-> addr]
    /\ UNCHANGED <<boot, pullAddr, cache, call, given, net, history>>

SetPullAddr ==
    /\ loop.pc = "pull"
    /\ pullAddr' = loop.addr
    /\ loop' = Receiving
    /\ UNCHANGED <<boot, gatewayId, cache, call, pulls, given, net, history>>

\* handle_tx_ack: clean_downlink_cache
CleanCache(a) ==
    /\ Ready /\ a \in txAcks
    /\ txAcks' = (txAcks \ {a}) \cup IF a.copies > 1 THEN {[a EXCEPT !.copies = @ - 1]} ELSE {}
    /\ cache' = [t \in Tokens |->
                    IF cache[t] # NoEntry /\ cache[t].expired THEN NoEntry ELSE cache[t]]
    /\ loop' = [pc |-> "look", ack |-> a]
    /\ UNCHANGED <<boot, gatewayId, pullAddr, call, pulls, given, resps, history>>

Found == cache[Token(loop.ack.item.frame)]

\* The entry is cloned and stays in the cache.
LookUp ==
    /\ loop.pc = "look"
    /\ loop' = IF Found = NoEntry THEN Receiving
               ELSE [pc |-> "found", ack |-> loop.ack, entry |-> Found]
    /\ UNCHANGED <<boot, gatewayId, pullAddr, cache, call, pulls, given, net, history>>

\* Mutant of Finished: an item that went out does not end the frame.
FinishedAtEnd(ack, entry) == entry.index >= Cardinality(DOMAIN entry.acks) - 1

\* Mutant of Finished: off by one, the last item is never tried.
FinishedEarly(ack, entry) ==
    ack.status = "ok" \/ entry.index + 1 >= Cardinality(DOMAIN entry.acks) - 1

Finished(ack, entry) ==
    ack.status = "ok" \/ entry.index >= Cardinality(DOMAIN entry.acks) - 1

\* The result is logged (an entry without items is an error, to the same effect).
Finish ==
    /\ loop.pc = "found" /\ Finished(loop.ack, loop.entry)
    /\ loop' = Receiving
    /\ UNCHANGED <<boot, gatewayId, pullAddr, cache, call, pulls, given, net, history>>

\* Mutant of NextIndex: the item that was rejected is sent again.
SameIndex(entry) == entry.index

NextIndex(entry) == entry.index + 1

TryNext ==
    LET entry == loop.entry
    IN  /\ loop.pc = "found" /\ ~Finished(loop.ack, entry)
        /\ loop' = Receiving
        /\ call' = [call EXCEPT !["udp"] =
                       [pc |-> "cache", frame |-> entry.frame, index |-> NextIndex(entry),
                        acks |-> [entry.acks EXCEPT ![entry.index] = loop.ack.status]]]
        /\ UNCHANGED <<boot, gatewayId, pullAddr, cache, pulls, given, net, history>>

-----------------------------------------------------------------------------
(* The 60 s of an entry pass; the network and the packet forwarder         *)

Expire(t) ==
    /\ cache[t] # NoEntry /\ ~cache[t].expired
    /\ cache' = [cache EXCEPT ![t].expired = TRUE]
    /\ history' = [history EXCEPT !.expired = @ \cup {cache[t].frame}]
    /\ UNCHANGED <<boot, gatewayId, pullAddr, call, loop, pulls, given, net>>

Acks(r, status, n) ==
    IF n = 0 THEN {} ELSE {[item |-> r.item, status |-> status, copies |-> n]}

Transmit(r, n) ==
    /\ resps' = resps \ {r}
    /\ txAcks' = txAcks \cup Acks(r, "ok", n)
    /\ history' = [history EXCEPT !.air = @ \cup {r}]
    /\ UNCHANGED <<boot, gatewayId, pullAddr, cache, call, loop, pulls, given>>

\* TOO_LATE, COLLISION_PACKET and so on: nothing is transmitted.
Reject(r, n) ==
    /\ resps' = resps \ {r}
    /\ txAcks' = txAcks \cup Acks(r, "failed", n)
    /\ history' = [history EXCEPT !.rejected = @ \cup {r.item}]
    /\ UNCHANGED <<boot, gatewayId, pullAddr, cache, call, loop, pulls, given>>

-----------------------------------------------------------------------------

SendStep(c) == SetCache(c) \/ SendPullResp(c) \/ SendFails(c)

UdpStep ==
    \/ SendStep("udp")
    \/ \E id \in GatewayIds, addr \in Addrs : SetGatewayId(id, addr)
    \/ SetPullAddr
    \/ \E a \in txAcks : CleanCache(a)
    \/ LookUp \/ Finish \/ TryNext

LnsStep == SendStep("lns") \/ \E f \in Frames : LnsDownlink(f)

Environment ==
    \/ \E t \in Tokens : Expire(t)
    \/ \E r \in resps, n \in 0..MaxCopies : Transmit(r, n) \/ Reject(r, n)

Boot == SeeGatewayId \/ LnsSetup \/ CupsSetup

Next == Boot \/ LnsStep \/ UdpStep \/ Environment

Spec == Init /\ [][Next]_vars

\* The receive loop is a task of its own that never blocks but on the socket, and
\* a call of the backend does not block.
FairSpec == Spec /\ WF_vars(UdpStep) /\ WF_vars(SendStep("lns"))

-----------------------------------------------------------------------------
(* Properties                                                              *)

Item     == [frame : Frames, index : Nat]
Resp     == [item : Item, again : BOOLEAN]
Ack      == [item : Item, status : {"ok", "failed"}, copies : Nat]
Status   == {"ignored", "ok", "failed"}
AckLists == UNION {[0..(NumItems[f] - 1) -> Status] : f \in Frames}
Entries  == [frame : Frames, index : Nat, acks : AckLists, expired : BOOLEAN]
Calls    == [pc : {"cache", "send"}, frame : Frames, index : Nat, acks : AckLists]

Loops ==
    {Receiving} \cup [pc : {"pull"}, addr : Addrs] \cup [pc : {"look"}, ack : Ack]
        \cup [pc : {"found"}, ack : Ack, entry : Entries]

Histories ==
    [sent : SUBSET Item, sends : Nat, rejected : SUBSET Item, air : SUBSET Resp,
     failed : SUBSET Frames, errors : SUBSET Frames, expired : SUBSET Frames]

Ids == GatewayIds \cup {Unset}

TypeOK ==
    /\ boot \in [pc : {"wait", "lns", "cups", "run"}, lns : Ids, cups : Ids]
    /\ gatewayId \in Ids /\ pullAddr \in Addrs \cup {Unset}
    /\ cache \in [Tokens -> Entries \cup {NoEntry}]
    /\ call \in [Callers -> Calls \cup {NoCall}]
    /\ loop \in Loops
    /\ pulls \in Seq(GatewayIds) /\ given \subseteq Frames
    /\ resps \subseteq Resp /\ txAcks \subseteq Ack
    /\ history \in Histories

\* Frames that share their token with no other: no dnsched does, as all have id 0.
OwnToken == {f \in Frames : \A g \in Frames : Token(g) = Token(f) => g = f}

\* The entry under the token of a frame, which may be another frame's, and what ended
\* the 60 s of one such entry.
Entry(f) == cache[Token(f)]
Expired(f) == \E g \in history.expired : Token(g) = Token(f)

\* Something is cached under the token, and if it is the frame, at that item or a later one.
CachedFrom(f, i) == Entry(f) # NoEntry /\ (Entry(f).frame = f => Entry(f).index >= i)

\* What makes item i of a frame go out: the item before it was rejected, or, as far as
\* the token tells, an item of another frame.
Prompted(f, i) ==
    IF f \in OwnToken THEN [frame |-> f, index |-> i - 1] \in history.rejected
    ELSE \E m \in history.rejected : Token(m.frame) = Token(f)

\* Only the task that was given it knows of a frame.
Unseen(f) ==
    /\ Entry(f) # NoEntry => Entry(f).frame # f
    /\ loop.pc = "found" => loop.entry.frame # f
    /\ call["udp"] # NoCall => call["udp"].frame # f
    /\ \A m \in history.sent : m.frame # f

\* One status for each item, wherever the list is.
AcksFit(e) == e.acks \in [0..(NumItems[e.frame] - 1) -> Status]

AcksInv ==
    /\ \A t \in Tokens : cache[t] # NoEntry => AcksFit(cache[t])
    /\ \A c \in Callers : call[c] # NoCall => AcksFit(call[c])
    /\ loop.pc = "found" => AcksFit(loop.entry)

\* An entry is under its token, of a frame that was given.
EntryInv ==
    \A t \in Tokens : cache[t] # NoEntry =>
        /\ Token(cache[t].frame) = t /\ cache[t].frame \in given
        /\ cache[t].expired => cache[t].frame \in history.expired

\* What a call in progress rests on: the LNS task begins a frame that nobody knows of,
\* and the receive loop goes on with a later item of one; where frames share a token, it
\* may do so before the LNS task has sent the first.
LnsCallOK(e) ==
    /\ e.index = 0
    /\ e.pc = "cache" => Unseen(e.frame)
    /\ e.pc = "send" => Entry(e.frame) # NoEntry \/ Expired(e.frame)
    /\ e.frame \in OwnToken => \A m \in history.sent : m.frame # e.frame

UdpCallOK(e) ==
    /\ loop.pc = "recv" /\ e.index > 0 /\ Prompted(e.frame, e.index)
    /\ \A m \in history.sent : m.frame = e.frame => m.index < e.index
    /\ e.pc = "send" => CachedFrom(e.frame, e.index)

CallInv ==
    /\ \A c \in Callers : call[c] # NoCall =>
          /\ call[c].frame \in given
          /\ [frame |-> call[c].frame, index |-> call[c].index] \notin history.sent
    /\ call["lns"] # NoCall => LnsCallOK(call["lns"])
    /\ call["udp"] # NoCall => UdpCallOK(call["udp"])

AckOK(a) == a.item \in history.sent /\ (a.status = "failed" => a.item \in history.rejected)

\* An item is in flight, rejected or on the air, and one of these only.
NetInv ==
    /\ \A r \in resps : r.item \in history.sent \ history.rejected
    /\ \A r \in history.air : r.item \in history.sent \ history.rejected
    /\ \A r, s \in resps \cup history.air : r.item = s.item => r = s
    /\ resps \cap history.air = {}
    /\ history.rejected \subseteq history.sent
    /\ \A a \in txAcks : AckOK(a)

\* The entry that a TX_ACK found is under its token, and no later item was sent.
LoopInv ==
    /\ loop.pc \in {"look", "found"} => AckOK(loop.ack)
    /\ loop.pc = "found" =>
          /\ Token(loop.entry.frame) = Token(loop.ack.item.frame)
          /\ loop.entry.frame \in given
          /\ \A m \in history.sent :
                m.frame = loop.entry.frame => m.index <= loop.entry.index

\* What was sent stays cached under its token, at that item or a later one if it is not
\* displaced, until an entry of that token expires.
SentInv ==
    \A m \in history.sent :
        /\ m.frame \in given /\ m.index < NumItems[m.frame]
        /\ m.index > 0 => Prompted(m.frame, m.index)
        /\ CachedFrom(m.frame, m.index) \/ (Entry(m.frame) = NoEntry /\ Expired(m.frame))

\* A frame of its own token that ended in an error for the LNS was never sent.
ErrorInv ==
    /\ history.errors \subseteq given
    /\ \A m \in history.sent : m.frame \in OwnToken => m.frame \notin history.errors
    /\ call["lns"] # NoCall => call["lns"].frame \notin history.errors

\* What makes the properties below inductive, the type invariant with it, for frames of
\* two items at most.
SemtechInv ==
    TypeOK /\ AcksInv /\ EntryInv /\ CallInv /\ NetInv /\ LoopInv /\ SentInv /\ ErrorInv

\* What is on the network finds an entry under its token, and one that has not fallen
\* behind the item it is about: a frame is cached before its PULL_RESP leaves and stays
\* so until its 60 s have passed, however early the TX_ACK comes and whatever the other
\* task does.  The entry is the frame's own if no other frame has its token; a dnsched
\* shares token 0 with all others and with a dnmsg without diid, which displace it.
InFlightIsCached ==
    \A m \in resps \cup txAcks :
        LET f == m.item.frame
        IN  Expired(f) \/ (CachedFrom(f, m.item.index) /\ (f \in OwnToken => Entry(f).frame = f))

\* A later item goes out only after the forwarder rejected the one before it, or for a
\* frame that shares its token an item of some frame of that token; and no item goes out
\* twice, whatever tokens are shared and however often a TX_ACK comes.
RetriesFollowRejects ==
    /\ \A m \in history.sent : m.index > 0 => Prompted(m.frame, m.index)
    /\ Cardinality(history.sent) = history.sends

\* The rejected RX1 of a frame with a token of its own is followed by RX2, once its
\* TX_ACK reaches the socket and unless the entry expired or the send failed
\* (DEVELOPERS.md: "If the hardware reports an error, the next item in the items list
\* is tried").  A frame that shares its token may lose it to the other.
RejectedIsRetried ==
    \A f \in OwnToken :
        (NumItems[f] = 2 /\ \E a \in txAcks : a.item = [frame |-> f, index |-> 0]
                                              /\ a.status = "failed")
            ~> ([frame |-> f, index |-> 1] \in history.sent
                \/ f \in history.expired \cup history.failed)

\* The parts of the process that speak for the gateway have an id, and the same
\* one unless two gateways announced themselves, although every PULL_DATA sets it.
OneIdentity ==
    LET ids == {ConfGatewayId} \cup {pulls[i] : i \in DOMAIN pulls}
    IN  /\ boot.pc \in {"lns", "cups"} => gatewayId # Unset
        /\ boot.pc = "run" /\ boot.lns # boot.cups => Cardinality(ids \ {Unset}) > 1

-----------------------------------------------------------------------------
(* The backend implements DownlinkService: an answer comes before anything *)
(* is known of the radio side, but an error is final.  Frames that share a *)
(* token may have each other's items sent, once each: for them no error is *)
(* final, and each of their items may be on the air.                       *)

Answer(f) ==
    IF f \notin given THEN "none"
    ELSE IF call["lns"] # NoCall /\ call["lns"].frame = f THEN "pending"
    ELSE IF f \in history.errors THEN "error" ELSE "ok"

Air(f) == {r \in history.air : r.item.frame = f}

Answers == [f \in Frames |-> Answer(f)]
Handled == {f \in Frames : Air(f) # {} \/ \E m \in history.rejected : m.frame = f}
OnAir   == [f \in Frames |-> Cardinality(Air(f))]

Service == INSTANCE DownlinkService WITH
    MaxTx <- [f \in Frames |-> IF f \in OwnToken THEN 1 ELSE NumItems[f]],
    Confirmed <- FALSE, Definite <- OwnToken,
    answer <- Answers, handled <- Handled, air <- OnAir

\* Every frame is answered and, with a token of its own, is transmitted once at most, in
\* one of its windows, though TX_ACKs are lost, duplicated and overtaken, and not at all
\* after an error; a frame that shares its token, once at most in each window.
ServiceSpec == Service!Spec
=============================================================================
