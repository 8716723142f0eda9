------------------------------ MODULE LnsSession ------------------------------
(***************************************************************************)
(* The link to the LoRaWAN network server: lns::connection_loop with the   *)
(* WebSocket reader it runs inline (lns::websocket::run and                *)
(* handle_text_message), the write task spawned for each connection, and   *)
(* lns::send_uplink, called by the event loop of the backend.              *)
(*                                                                         *)
(* The tasks share four statics, WS_SENDER, SESSION_COUNTER, ROUTER_CONFIG *)
(* and LAST_MUX_TIME, each behind a lock of its own that is held for one   *)
(* read or one write.  An action is therefore one lock acquisition, or one *)
(* await, with the task-local computation next to it.                      *)
(***************************************************************************)
EXTENDS Integers, Sequences

CONSTANTS
    SessionMod,    \* SESSION_COUNTER is a u8: 256 in the code
    PromptAbort,   \* an aborted write task is gone before the sleep is over
    MaxAttempts,   \* bound: connection attempts
    MaxConns,      \* bound: attempts that reach an open WebSocket
    MaxUplinks,    \* bound: calls of send_uplink
    MaxDnmsgs,     \* bound: dnmsg messages of the LNS
    MaxMux         \* bound: messages of the LNS that carry a MuxTime

ASSUME BoundsAssumption ==
    /\ SessionMod \in Nat \ {0}
    /\ PromptAbort \in BOOLEAN
    /\ MaxAttempts \in Nat /\ MaxConns \in Nat
    /\ MaxUplinks \in Nat /\ MaxDnmsgs \in Nat /\ MaxMux \in Nat

None == 0                 \* Option::None of the statics
Conns == 1..MaxConns      \* connections, in the order they were opened

VARIABLES
    pc,            \* where connection_loop / run / handle_text_message is
    attempts,      \* history: attempts begun
    conn,          \* history: the latest connection opened, None before
    connSession,   \* connSession[c]: the session run() reads for c
    session,       \* SESSION_COUNTER
    wsSender,      \* WS_SENDER: None or the connection whose channel it feeds
    routerConfig,  \* ROUTER_CONFIG: None or the connection it arrived on
    lastMux,       \* LAST_MUX_TIME: None or the number of the MuxTime
    muxes,         \* history: MuxTimes received
    rx,            \* rx[c]: who owns the receiving half of c's channel
    queue,         \* queue[c]: messages in c's channel
    accepted,      \* history: messages for which send() on c returned Ok
    wire,          \* wire[c]: text messages written to c's socket
    msg,           \* msgtype in the handler
    dnmsgs,        \* history: dnmsg messages received
    up,            \* the locals of the running send_uplink
    uplinks        \* history: calls of send_uplink

connVars == <<pc, attempts, conn, connSession, session, msg, dnmsgs>>
chanVars == <<rx, queue, accepted, wire>>
upVars   == <<up, uplinks>>
vars == <<pc, attempts, conn, connSession, session, wsSender, routerConfig,
          lastMux, muxes, rx, queue, accepted, wire, msg, dnmsgs,
          up, uplinks>>

MsgTypes == {"router_config", "dnmsg", "dnsched", "timesync", "other"}

\* What the LNS can tell apart in a message of ours: the session packed into
\* its xtime, the router_config it was encoded with, the RefTime it echoes.
Message == [kind : {"version", "updf", "dntxed"}, id : Nat, config : Nat,
            session : Nat, ref : Nat]

Version == [kind |-> "version", id |-> 0, config |-> None, session |-> 0,
            ref |-> None]

\* A dntxed repeats the xtime of its dnmsg, so it has no session of ours.
Dntxed == [kind |-> "dntxed", id |-> dnmsgs, config |-> routerConfig,
           session |-> 0, ref |-> None]

Updf == [kind |-> "updf", id |-> up.id, config |-> up.config,
         session |-> up.session, ref |-> up.ref]

\* The locals of send_uplink: where it is and what it has read so far.
Locals == [pc : {"idle", "config", "mux", "session", "clear", "send"},
           id : Nat, sender : 0..MaxConns, config : 0..MaxConns,
           ref : Nat, session : 0..(SessionMod - 1)]

Idle == [pc |-> "idle", id |-> 0, sender |-> None, config |-> None,
         ref |-> None, session |-> 0]

Init ==
    /\ pc = "begin" /\ attempts = 0 /\ conn = None
    /\ session = 0
    /\ connSession = [c \in Conns |-> 0]
    /\ wsSender = None /\ routerConfig = None
    /\ lastMux = None /\ muxes = 0
    /\ rx = [c \in Conns |-> "none"]
    /\ queue = [c \in Conns |-> <<>>]
    /\ accepted = [c \in Conns |-> <<>>]
    /\ wire = [c \in Conns |-> <<>>]
    /\ msg = "other" /\ dnmsgs = 0
    /\ up = Idle /\ uplinks = 0

-----------------------------------------------------------------------------
(* The channel of a connection: an unbounded tokio mpsc channel.           *)

\* The receiving half exists: send() returns Ok.
Alive(c) == rx[c] \in {"run", "writer", "aborted"}

\* UnboundedSender::send on the channel of c.
Accept(c, m) ==
    IF Alive(c)
    THEN /\ queue' = [queue EXCEPT ![c] = Append(@, m)]
         /\ accepted' = [accepted EXCEPT ![c] = Append(@, m)]
    ELSE UNCHANGED <<queue, accepted>>

\* The receiving half is dropped, and with it what is still queued.
DropReceiver(c) ==
    /\ rx' = [rx EXCEPT ![c] = "dropped"]
    /\ queue' = [queue EXCEPT ![c] = <<>>]

-----------------------------------------------------------------------------
(* connection_loop and run                                                 *)

BeginAttempt ==
    /\ pc = "begin" /\ attempts < MaxAttempts
    /\ attempts' = attempts + 1
    /\ session' = (session + 1) % SessionMod
    /\ pc' = "discover"
    /\ UNCHANGED <<conn, connSession, wsSender, routerConfig, lastMux, muxes,
                   chanVars, msg, dnmsgs, upVars>>

\* Auth token, TLS or router discovery failed, or there is no URI.
AttemptFails ==
    /\ pc = "discover"
    /\ pc' = "sleep"
    /\ UNCHANGED <<attempts, conn, connSession, session, wsSender, routerConfig,
                   lastMux, muxes, chanVars, msg, dnmsgs, upVars>>

\* run() returns an error before the WebSocket is open.
ConnectFails ==
    /\ pc = "discover"
    /\ pc' = "clearSender"
    /\ UNCHANGED <<attempts, conn, connSession, session, wsSender, routerConfig,
                   lastMux, muxes, chanVars, msg, dnmsgs, upVars>>

Connect ==
    /\ pc = "discover" /\ conn < MaxConns
    /\ conn' = conn + 1
    /\ rx' = [rx EXCEPT ![conn + 1] = "run"]
    /\ wsSender' = conn + 1
    /\ pc' = "version"
    /\ UNCHANGED <<attempts, connSession, session, routerConfig, lastMux, muxes,
                   queue, accepted, wire, msg, dnmsgs, upVars>>

\* The write of the version message fails: run() returns and drops rx.
VersionFails ==
    /\ pc = "version"
    /\ DropReceiver(conn)
    /\ pc' = "clearSender"
    /\ UNCHANGED <<attempts, conn, connSession, session, wsSender, routerConfig,
                   lastMux, muxes, accepted, wire, msg, dnmsgs, upVars>>

SendVersion ==
    /\ pc = "version"
    /\ wire' = [wire EXCEPT ![conn] = Append(@, Version)]
    /\ pc' = "spawn"
    /\ UNCHANGED <<attempts, conn, connSession, session, wsSender, routerConfig,
                   lastMux, muxes, rx, queue, accepted, msg, dnmsgs, upVars>>

\* Read the session for the handlers, move rx into the write task.
SpawnWriter ==
    /\ pc = "spawn"
    /\ connSession' = [connSession EXCEPT ![conn] = session]
    /\ rx' = [rx EXCEPT ![conn] = "writer"]
    /\ pc' = "reading"
    /\ UNCHANGED <<attempts, conn, session, wsSender, routerConfig, lastMux,
                   muxes, queue, accepted, wire, msg, dnmsgs, upVars>>

\* Mutant of ReadEnds: the write task is not aborted.
ReadEndsNoAbort ==
    /\ pc = "reading"
    /\ pc' = "clearSender"
    /\ UNCHANGED <<attempts, conn, connSession, session, wsSender, routerConfig,
                   lastMux, muxes, chanVars, msg, dnmsgs, upVars>>

\* Close, end of stream or read error: abort the write task.  abort() only
\* asks; the task is dropped when it next yields.
ReadEnds ==
    /\ pc = "reading"
    /\ rx' = [rx EXCEPT ![conn] = IF @ = "writer" THEN "aborted" ELSE @]
    /\ pc' = "clearSender"
    /\ UNCHANGED <<attempts, conn, connSession, session, wsSender, routerConfig,
                   lastMux, muxes, queue, accepted, wire, msg, dnmsgs, upVars>>

\* Mutant of ClearSender: only a sender that is set gets cleared.
ClearSenderIfSet ==
    /\ pc = "clearSender" /\ wsSender # None
    /\ wsSender' = None
    /\ pc' = "clearConfig"
    /\ UNCHANGED <<attempts, conn, connSession, session, routerConfig, lastMux,
                   muxes, chanVars, msg, dnmsgs, upVars>>

ClearSender ==
    /\ pc = "clearSender"
    /\ wsSender' = None
    /\ pc' = "clearConfig"
    /\ UNCHANGED <<attempts, conn, connSession, session, routerConfig, lastMux,
                   muxes, chanVars, msg, dnmsgs, upVars>>

\* Mutant of ClearConfig: the configuration survives the disconnect.
KeepConfig ==
    /\ pc = "clearConfig"
    /\ pc' = "sleep"
    /\ UNCHANGED <<attempts, conn, connSession, session, wsSender, routerConfig,
                   lastMux, muxes, chanVars, msg, dnmsgs, upVars>>

ClearConfig ==
    /\ pc = "clearConfig"
    /\ routerConfig' = None
    /\ pc' = "sleep"
    /\ UNCHANGED <<attempts, conn, connSession, session, wsSender, lastMux,
                   muxes, chanVars, msg, dnmsgs, upVars>>

\* The reconnect interval is over.
Wake ==
    /\ pc = "sleep"
    /\ PromptAbort => \A c \in Conns : rx[c] # "aborted"
    /\ pc' = "begin"
    /\ UNCHANGED <<attempts, conn, connSession, session, wsSender, routerConfig,
                   lastMux, muxes, chanVars, msg, dnmsgs, upVars>>

-----------------------------------------------------------------------------
(* handle_text_message                                                     *)

\* A message of the LNS; its MuxTime, when it has one, is stored first.
ReadMessage(type, hasMux) ==
    /\ pc = "reading"
    /\ IF hasMux
       THEN /\ muxes < MaxMux
            /\ muxes' = muxes + 1
            /\ lastMux' = muxes + 1
       ELSE UNCHANGED <<muxes, lastMux>>
    /\ type = "other" => ~hasMux
    /\ msg' = type
    /\ IF type = "dnmsg"
       THEN dnmsgs < MaxDnmsgs /\ dnmsgs' = dnmsgs + 1
       ELSE UNCHANGED dnmsgs
    /\ pc' = IF type = "router_config" THEN "storeConfig"
             ELSE IF type \in {"dnmsg", "dnsched"} THEN "lookupConfig"
             ELSE "reading"
    /\ UNCHANGED <<attempts, conn, connSession, session, wsSender, routerConfig,
                   chanVars, upVars>>

StoreConfig ==
    /\ pc = "storeConfig"
    /\ routerConfig' = conn
    /\ pc' = "backend"
    /\ UNCHANGED <<attempts, conn, connSession, session, wsSender, lastMux,
                   muxes, chanVars, msg, dnmsgs, upVars>>

LookupConfig ==
    /\ pc = "lookupConfig"
    /\ pc' = IF routerConfig = None THEN "reading" ELSE "backend"
    /\ UNCHANGED <<attempts, conn, connSession, session, wsSender, routerConfig,
                   lastMux, muxes, chanVars, msg, dnmsgs, upVars>>

\* The backend failed, or there is nothing to report.
BackendQuiet ==
    /\ pc = "backend"
    /\ pc' = "reading"
    /\ UNCHANGED <<attempts, conn, connSession, session, wsSender, routerConfig,
                   lastMux, muxes, chanVars, msg, dnmsgs, upVars>>

\* handle_dnmsg returned a dntxed: it goes to the channel of this run().
BackendDntxed ==
    /\ pc = "backend" /\ msg = "dnmsg"
    /\ Accept(conn, Dntxed)
    /\ pc' = "reading"
    /\ UNCHANGED <<attempts, conn, connSession, session, wsSender, routerConfig,
                   lastMux, muxes, rx, wire, msg, dnmsgs, upVars>>

-----------------------------------------------------------------------------
(* The write task of connection c                                          *)

WriterSend(c) ==
    /\ rx[c] \in {"writer", "aborted"} /\ queue[c] # <<>>
    /\ wire' = [wire EXCEPT ![c] = Append(@, Head(queue[c]))]
    /\ queue' = [queue EXCEPT ![c] = Tail(@)]
    /\ UNCHANGED <<connVars, wsSender, routerConfig, lastMux, muxes, rx,
                   accepted, upVars>>

\* Mutant of WriterFails: a failed write loses its message, the task goes on.
WriterSkips(c) ==
    /\ rx[c] \in {"writer", "aborted"} /\ queue[c] # <<>>
    /\ queue' = [queue EXCEPT ![c] = Tail(@)]
    /\ UNCHANGED <<connVars, wsSender, routerConfig, lastMux, muxes, rx,
                   accepted, wire, upVars>>

\* A failed write ends the task; WS_SENDER keeps the dead sender.
WriterFails(c) ==
    /\ rx[c] \in {"writer", "aborted"} /\ queue[c] # <<>>
    /\ DropReceiver(c)
    /\ UNCHANGED <<connVars, wsSender, routerConfig, lastMux, muxes, accepted,
                   wire, upVars>>

WriterCancelled(c) ==
    /\ rx[c] = "aborted"
    /\ DropReceiver(c)
    /\ UNCHANGED <<connVars, wsSender, routerConfig, lastMux, muxes, accepted,
                   wire, upVars>>

-----------------------------------------------------------------------------
(* send_uplink                                                             *)

\* The call begins by cloning WS_SENDER; None drops the frame.
UplinkStart ==
    /\ up.pc = "idle" /\ uplinks < MaxUplinks
    /\ uplinks' = uplinks + 1
    /\ up' = IF wsSender = None THEN Idle
             ELSE [Idle EXCEPT !.pc = "config", !.id = uplinks + 1,
                               !.sender = wsSender]
    /\ UNCHANGED <<connVars, wsSender, routerConfig, lastMux, muxes, chanVars>>

UplinkReadConfig ==
    /\ up.pc = "config"
    /\ up' = IF routerConfig = None THEN Idle
             ELSE [up EXCEPT !.pc = "mux", !.config = routerConfig]
    /\ UNCHANGED <<connVars, wsSender, routerConfig, lastMux, muxes, chanVars,
                   uplinks>>

UplinkReadMux ==
    /\ up.pc = "mux"
    /\ up' = [up EXCEPT !.pc = "session", !.ref = lastMux]
    /\ UNCHANGED <<connVars, wsSender, routerConfig, lastMux, muxes, chanVars,
                   uplinks>>

\* Read the session, build the xtime (and cache the context under it, which
\* ContextResolution models), encode the frame.
UplinkReadSession ==
    /\ up.pc = "session"
    /\ up' = [up EXCEPT !.session = session,
                        !.pc = IF up.ref = None THEN "send" ELSE "clear"]
    /\ UNCHANGED <<connVars, wsSender, routerConfig, lastMux, muxes, chanVars,
                   uplinks>>

\* frame_to_json fails: no data rate, no phy_payload.
UplinkEncodeFails ==
    /\ up.pc = "session"
    /\ up' = Idle
    /\ UNCHANGED <<connVars, wsSender, routerConfig, lastMux, muxes, chanVars,
                   uplinks>>

\* Mutant of UplinkClearMux: the MuxTime stays for the next uplink.
UplinkKeepMux ==
    /\ up.pc = "clear"
    /\ up' = [up EXCEPT !.pc = "send"]
    /\ UNCHANGED <<connVars, wsSender, routerConfig, lastMux, muxes, chanVars,
                   uplinks>>

UplinkClearMux ==
    /\ up.pc = "clear"
    /\ lastMux' = None
    /\ up' = [up EXCEPT !.pc = "send"]
    /\ UNCHANGED <<connVars, wsSender, routerConfig, muxes, chanVars, uplinks>>

UplinkSend ==
    /\ up.pc = "send"
    /\ Accept(up.sender, Updf)
    /\ up' = Idle
    /\ UNCHANGED <<connVars, wsSender, routerConfig, lastMux, muxes, rx, wire,
                   uplinks>>

-----------------------------------------------------------------------------

LoopStep ==
    \/ BeginAttempt \/ AttemptFails \/ ConnectFails \/ Connect
    \/ VersionFails \/ SendVersion \/ SpawnWriter \/ ReadEnds
    \/ ClearSender \/ ClearConfig \/ Wake

HandlerStep ==
    \/ \E type \in MsgTypes, hasMux \in BOOLEAN : ReadMessage(type, hasMux)
    \/ StoreConfig \/ LookupConfig \/ BackendQuiet \/ BackendDntxed

WriterStep ==
    \E c \in Conns : WriterSend(c) \/ WriterFails(c) \/ WriterCancelled(c)

UplinkStep ==
    \/ UplinkStart \/ UplinkReadConfig \/ UplinkReadMux \/ UplinkReadSession
    \/ UplinkEncodeFails \/ UplinkClearMux \/ UplinkSend

Next == LoopStep \/ HandlerStep \/ WriterStep \/ UplinkStep

Spec == Init /\ [][Next]_vars

\* The runtime polls the tasks that are ready; a socket or the backend may
\* keep a task waiting, so their steps get no fairness.
Fairness ==
    /\ WF_vars(SpawnWriter) /\ WF_vars(ClearSender) /\ WF_vars(ClearConfig)
    /\ WF_vars(Wake)
    /\ \A c \in Conns : WF_vars(WriterCancelled(c))

FairSpec == Spec /\ Fairness

-----------------------------------------------------------------------------
(* Properties                                                              *)

\* Every variable keeps its type; SESSION_COUNTER stays a u8.
TypeOK ==
    /\ pc \in {"begin", "discover", "version", "spawn", "reading",
               "storeConfig", "lookupConfig", "backend", "clearSender",
               "clearConfig", "sleep"}
    /\ attempts \in Nat /\ muxes \in Nat /\ uplinks \in Nat
    /\ conn \in 0..MaxConns
    /\ connSession \in [Conns -> 0..(SessionMod - 1)]
    /\ session \in 0..(SessionMod - 1)
    /\ wsSender \in 0..MaxConns /\ routerConfig \in 0..MaxConns
    /\ lastMux \in Nat
    /\ rx \in [Conns -> {"none", "run", "writer", "aborted", "dropped"}]
    /\ queue \in [Conns -> Seq(Message)]
    /\ accepted \in [Conns -> Seq(Message)]
    /\ wire \in [Conns -> Seq(Message)]
    /\ msg \in MsgTypes /\ dnmsgs \in Nat
    /\ up \in Locals

\* What went out on c besides its version message.
Sent(c) == {wire[c][i] : i \in {j \in DOMAIN wire[c] : wire[c][j] # Version}}

\* Only an updf bears, in its xtime, a session of the station.
Stamped(m, s) == m.kind = "updf" => m.session = s

\* An uplink written to a connection bears, in its xtime, the session of that
\* connection, though send_uplink reads SESSION_COUNTER after WS_SENDER and
\* the loop may disconnect and reconnect in between (mod.rs 277-348).
StampedWithSession ==
    \A c \in Conns : \A m \in Sent(c) : Stamped(m, connSession[c])

\* A message written to a connection was encoded with the router_config of
\* that connection, never with one of an earlier or a later connection, though
\* ROUTER_CONFIG is read apart from WS_SENDER (mod.rs 277-301, 255-265).
StampedWithConfig ==
    \A c \in Conns : \A m \in Sent(c) : m.config = c

\* The program counter says whether the loop owns an open connection.
Connected == {"version", "spawn", "reading", "storeConfig", "lookupConfig",
              "backend"}

\* Only the latest connection may have a live channel, and its owner is the
\* one the position of connection_loop implies.
ChannelInv ==
    /\ \A c \in Conns : c > conn => rx[c] = "none"
    /\ \A c \in Conns : Alive(c) => c = conn /\ pc \notin {"begin", "discover"}
    /\ \A c \in Conns : rx[c] = "run" <=> (c = conn /\ pc \in {"version", "spawn"})
    /\ \A c \in Conns : rx[c] = "writer" => pc \in Connected
    /\ \A c \in Conns : rx[c] = "aborted" => pc \notin Connected
    /\ pc \in Connected => conn \in Conns
    /\ \A c \in Conns : rx[c] \in {"writer", "aborted"} => connSession[c] = session

\* WS_SENDER and ROUTER_CONFIG belong to the latest connection and are gone
\* before the next attempt.
StaticsInv ==
    /\ wsSender # None => wsSender = conn /\ pc \in Connected \cup {"clearSender"}
    /\ routerConfig # None =>
          /\ routerConfig = conn
          /\ pc \in (Connected \ {"version", "spawn"}) \cup {"clearSender", "clearConfig"}
    /\ pc = "backend" => routerConfig = conn

\* While the channel a call of send_uplink has captured is alive, what it read
\* afterwards belongs to the same connection.
UplinkInv ==
    /\ up.sender <= conn
    /\ up.pc # "idle" => up.sender \in Conns
    /\ (up.pc \in {"mux", "session", "clear", "send"} /\ Alive(up.sender))
          => up.config = up.sender
    /\ (up.pc \in {"clear", "send"} /\ Alive(up.sender)) => up.session = session

\* A dead channel is empty; what is queued in a live one fits its connection.
QueueInv ==
    \A c \in Conns : \A i \in 1..Len(queue[c]) :
        Alive(c) /\ queue[c][i].config = c /\ Stamped(queue[c][i], session)

\* So does what was written, and only the version before the write task runs.
WireInv ==
    \A c \in Conns : \A i \in 1..Len(wire[c]) :
        wire[c][i] # Version =>
            /\ rx[c] \notin {"none", "run"}
            /\ wire[c][i].config = c /\ Stamped(wire[c][i], connSession[c])

\* Together these are inductive when an aborted task is gone in time: LinkInv, with
\* the types.
LinkInv == ChannelInv /\ StaticsInv /\ UplinkInv /\ QueueInv /\ WireInv

\* Who owns the receiving half of each channel, wherever an aborted task is.
OwnerInv ==
    /\ \A c \in Conns : rx[c] = "none" <=> c > conn
    /\ \A c \in Conns : rx[c] = "run" <=> (c = conn /\ pc \in {"version", "spawn"})
    /\ pc \in Connected => conn \in Conns

\* What its write task has written to c.
Written(c) == IF wire[c] = <<>> THEN <<>> ELSE Tail(wire[c])

\* A wire carries the version and then, in order and once each, what was accepted;
\* while the channel lives the rest is queued.
CarryOf(c) ==
    /\ rx[c] = "none" => accepted[c] = <<>>
    /\ (rx[c] = "none" \/ (rx[c] = "run" /\ pc = "version")) => wire[c] = <<>>
    /\ (rx[c] = "run" /\ pc = "spawn") => wire[c] = <<Version>>
    /\ rx[c] \in {"writer", "aborted"} => wire[c] # <<>>
    /\ wire[c] # <<>> => Head(wire[c]) = Version
    /\ Len(Written(c)) <= Len(accepted[c])
    /\ \A i \in 1..Len(Written(c)) : Written(c)[i] = accepted[c][i]
    /\ Alive(c) => accepted[c] = Written(c) \o queue[c]
    /\ ~Alive(c) => queue[c] = <<>>

CarryInv == \A c \in Conns : CarryOf(c)

\* What send_uplink has captured is of its connection or a later one.
OlderInv ==
    /\ up.sender <= conn /\ up.config <= conn
    /\ up.pc # "idle" => up.sender \in Conns
    /\ up.pc \in {"mux", "session", "clear", "send"} => up.config >= up.sender
    /\ \A c \in Conns : \A i \in 1..Len(accepted[c]) : accepted[c][i].config >= c

\* Every RefTime accepted so far is older than n.
RefsBelow(n) ==
    \A c \in Conns : \A i \in 1..Len(accepted[c]) : accepted[c][i].ref < n

\* The order in which messages were accepted, for those of one send_uplink.
Before(c, i, d, j) == c < d \/ (c = d /\ i < j)

\* The MuxTime in LAST_MUX_TIME, or taken by the running send_uplink, is newer than
\* every RefTime accepted; these increase.
RefInv ==
    /\ lastMux <= muxes
    /\ RefsBelow(muxes + 1)
    /\ \A c, d \in Conns :
          \A i \in 1..Len(accepted[c]), j \in 1..Len(accepted[d]) :
             (/\ Before(c, i, d, j)
              /\ accepted[c][i].ref # None /\ accepted[d][j].ref # None)
                => accepted[c][i].ref < accepted[d][j].ref
    /\ up.pc # "idle" =>
          \A d \in Conns : \A j \in 1..Len(accepted[d]) :
             d > up.sender => accepted[d][j].ref = None
    /\ up.ref # None =>
          /\ up.pc \in {"session", "clear", "send"}
          /\ up.ref <= muxes /\ RefsBelow(up.ref)
          /\ up.pc # "send" => up.ref <= lastMux
          /\ (up.pc = "send" /\ lastMux # None) => up.ref < lastMux
    /\ (up.ref = None /\ lastMux # None) => RefsBelow(lastMux)

\* Inductive however long an aborted task lives.
TrafficInv == OwnerInv /\ StaticsInv /\ CarryInv /\ OlderInv /\ RefInv

SessionInv == TypeOK /\ LinkInv /\ TrafficInv

\* Without a bound on how long an aborted write task lives, what remains is
\* that no message uses the router_config of an earlier connection.
ConfigNotOlder ==
    \A c \in Conns : \A m \in Sent(c) : m.config >= c

\* The RefTimes sent strictly increase, on a connection and from one to the next: a
\* MuxTime, which outlives the connection it came on (mod.rs:255), is echoed by one
\* uplink only, and never after a later one (mod.rs 303-344).
RefTimesIncrease ==
    \A c, d \in Conns : \A i \in DOMAIN wire[c], j \in DOMAIN wire[d] :
        (Before(c, i, d, j) /\ wire[c][i].ref # None /\ wire[d][j].ref # None)
            => wire[c][i].ref < wire[d][j].ref

\* The channel, the write task and the statics together implement the pipe.
Pipe == INSTANCE UplinkPipe WITH
    link <- conn,
    isOpen <- conn \in Conns /\ Alive(conn),
    stamp <- session,
    accepted <- IF conn \in Conns THEN accepted[conn] ELSE <<>>,
    delivered <- IF conn \in Conns /\ wire[conn] # <<>> THEN Tail(wire[conn])
                 ELSE <<>>

PipeSpec == Pipe!Spec

\* However long an aborted write task lives, the connections implement links that
\* overlap: what each carries stays in order and whole, no configuration is older
\* than the link, and a MuxTime is echoed once (mod.rs 277-348, websocket.rs 64-88).
Late == INSTANCE LateLinks WITH
    Links <- Conns,
    phase <- [c \in Conns |-> IF Alive(c) THEN "open"
                              ELSE IF c > conn THEN "unopened" ELSE "closed"],
    delivered <- [c \in Conns |-> Written(c)]

LateSpec == Late!Spec

\* However a connection ends, or an attempt fails, connection_loop comes back
\* to a new attempt (PRD LNS-10).
KeepsTrying == (pc \in {"sleep", "clearSender"}) ~> (pc = "begin")

\* "Clear MuxTime after using it" (mod.rs:340): what send_uplink clears is the
\* MuxTime it has put in its uplink.
ClearsTheMuxTimeUsed == [][UplinkClearMux => lastMux = up.ref]_vars
=============================================================================
