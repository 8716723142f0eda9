# A verified model of rak-basicstation

rak-basicstation forwards LoRa frames between a gateway's radio software and a
LoRaWAN network server (LNS) that speaks the Basics Station protocol. This
directory holds TLA+ models of its core, the configurations TLC checks them
with, and proofs TLAPS checks. Paths below are relative to the program's own
`src/` directory (in `PROJECT.json` they start with `src/src/`); line numbers
are those of the modelled commit.

## 1. Inventory

| Part | State it keeps | Operations | Talks to |
|---|---|---|---|
| LNS link: `lns/mod.rs`, `lns/websocket.rs` | statics `WS_SENDER`, `SESSION_COUNTER`, `ROUTER_CONFIG`, `LAST_MUX_TIME`, each under its own lock; one channel and one write task per connection | `connection_loop`, `websocket::run`, `handle_text_message`, `send_uplink` | LNS by WebSocket; backend for downlinks; CUPS statics |
| Context resolution: `lns/mod.rs`, `lns/downlink.rs` | `CONTEXT_CACHE`, `LAST_SYNTHETIC_US` | `uplink_xtime`, `cache_context`, `sweep_context_cache`, `resolve_context` | `send_uplink` writes, downlink building reads |
| Router configuration: `lns/router_config.rs` | in `ROUTER_CONFIG`: the table of data rates, the transmit power | `from_router_config`, `to_gateway_configuration`, the lookups | made by the websocket reader, read by uplinks and downlinks; channels go to the backend |
| Downlink building: `lns/downlink.rs` | none | `handle_dnmsg`, `handle_dnsched`, the builders of classes A, B and C | called by the websocket reader, calls the backend |
| Uplink conversion: `lns/uplink.rs` | none | `frame_to_json` | called by `send_uplink` |
| Backend selection: `backend/mod.rs` | `BACKEND`, set once | `setup`, which waits for a gateway id, and three calls that are passed on | `main`, the LNS link, CUPS |
| Semtech UDP backend: `backend/semtech_udp/` | gateway id, pull address, downlink cache | PUSH_DATA, PULL_DATA, TX_ACK, PULL_RESP | packet forwarder by UDP (lossy, reorders) |
| Concentratord backend: `backend/concentratord.rs` | a ZeroMQ REQ socket under a lock, a SUB socket | `send_command`, `reconnect_cmd_sock`, the event loop | concentratord by ZeroMQ |
| CUPS client: `cups/` | files `tc.uri`, `tc.cred`, `cups.cred`; statics for the TC URI and token | `setup`, `update_loop`, `run_update`, `parse_response` | CUPS by HTTPS; read by `connection_loop` |
| Discovery, time synchronisation, messages, start-up, configuration, commands, metadata, logging | little or none | | see `components` in `PROJECT.json` |

The program is a handful of tokio tasks over process-wide statics. What is hard
about it is

* **interleaving**: the backend's event loop calls `send_uplink`, which reads
  four statics one lock at a time while `connection_loop` may disconnect and
  reconnect; downlink resolution probes a cache that uplinks and a sweeper
  change;
* **failure**: a connection may end at any await; UDP loses, duplicates and
  reorders; a ZeroMQ reply may be late; power may fail between or inside file
  writes;
* **ordering and timing**: delays of downlinks are counted in wrapping 32-bit
  microseconds; retries race late answers;
* **numeric edges**: frame layouts, length-prefixed binary responses, the
  session byte, 16-bit tokens.

`PROJECT.json` lists each hazard at the line where it bites with the properties
that would catch it. For each part, what makes it correct:

* **LNS link.** A message that reaches the LNS on a connection was made for it:
  its session, its router_config, in order, at most once. The loop always tries
  again. The RefTimes sent only grow, also from one connection to the next.
* **Context resolution.** The downlink that answers an uplink is sent with the
  context of that uplink, at the time the LNS asked for.
* **Router configuration and downlinks.** The answer goes out in the rate its
  uplink had, RX1 before RX2, with a power its relay accepts; a schedule is sent
  in order; the channels of a plan stay distinct.
* **Uplinks.** No index is out of bounds, fields do not overlap, wanted frames
  are forwarded once and in order.
  No byte is read that did not arrive.
* **Backends.** Every frame is answered. What an answer means differs: with
  Semtech UDP a frame goes on the air once at most and an error is final, with
  Concentratord "ok" means that it dealt with the frame and an error says nothing.
* **Semtech UDP.** A TX_ACK finds the frame it is about; the next window is tried
  after, and only after, a rejection, and what is tried can be encoded, with one
  time of transmission. The LNS and CUPS see one gateway id.
* **Concentratord.** An answer belongs to the command it was given for; a
  command ends; an older configuration does not replace a newer one that was
  answered, unless it comes from a socket that was given up.
* **CUPS.** A restart finds what was in use; a torn state repairs itself; the
  parser neither panics nor reads one segment as another.

## 2. Modules

| Module | Models | Lines of code |
|---|---|---|
| `LnsSession` | the loop, the reader, the write task and `send_uplink`; one action per lock acquisition or await | `lns/mod.rs` 23-351, `lns/websocket.rs` 27-261 |
| `UplinkPipe` | abstract: a pipe that is opened with a stamp, accepts messages and delivers a prefix of them | what `LnsSession` promises |
| `LateLinks` | abstract: links that may overlap, as when an aborted write task lives on: what each still carries, and with which configurations and RefTimes | what `LnsSession` promises without `PromptAbort` |
| `LnsSessionProofs` | TLAPS proofs about `LnsSession` | |
| `DownlinkService` | abstract: what a backend promises of a frame it is given: an answer, and so many transmissions | the trait in `backend/mod.rs` |
| `ContextResolution` | xtimes, the cache, its sweeper, the probes, the RX1 delay, the timestamp of a PULL_RESP | `lns/mod.rs` 66-175, `lns/downlink.rs` 150-302 |
| `ContextResolutionProofs` | TLAPS proofs about `ContextResolution` | |
| `SemtechUdp` | the start of `main`, the packet handlers, the downlink cache, the network and the gateway; implements `DownlinkService` | `backend/semtech_udp/mod.rs`, `backend/mod.rs` 26-62 |
| `SemtechProofs` | TLAPS proofs about `SemtechUdp` | |
| `ConcentratordCmd` | the start-up query, commands with their attempts, ZeroMQ and the peer; implements `DownlinkService` | `backend/concentratord.rs` 36-146 |
| `ConcentratordProofs` | TLAPS proofs about `ConcentratordCmd` | |
| `Cups` | `setup` and `run_update` with the server, the files, crashes, and the attempt of `connection_loop` that reads URI and token | `cups/mod.rs`, `cups/credentials.rs`, `lns/discovery.rs` 44-106 |
| `CupsProofs` | TLAPS proofs about `Cups` | |
| `CupsParse` | `parse_response` as a walk over a buffer | `cups/client.rs` 70-190 |
| `CupsParseProofs` | TLAPS proofs about `CupsParse` | |
| `RouterConfig` | operators: the table of data rates and its lookups, the transmit power, the channels | `lns/router_config.rs` |
| `Downlinks` | the configuration in force, the windows of each class, schedules, dntxed; extends `RouterConfig` | `lns/downlink.rs`, `lns/websocket.rs` 141-231 |
| `PullResp` | the txpk of the items of `Downlinks`, which it extends | `backend/semtech_udp/structs.rs` 558-685 |
| `DownlinksProofs` | TLAPS proofs about `Downlinks`, `RouterConfig` and `PullResp` | |
| `UplinkFrames` | the reception of a datagram into its buffer, frame layouts, the conversion loop, the event loops' CRC filter | `lns/uplink.rs`, both backends, `structs.rs` 244-787 |
| `UplinkFramesProofs` | TLAPS proofs about `UplinkFrames` | |

`PROJECT.json` (`map`) names the lines of every definition. Each module `M` has
`MCM`, which gives TLC its values. A definition called `Mutant of X` in its
comment is a plausible bug in X; each property of a passing run is known to
fail when its X is so replaced.

### How state and actions correspond

*LnsSession.* A static that holds a clone of a sender or a configuration is the
number of the connection it came from (`None` is 0), so "belongs to connection
c" is equality. `pc` is the await or lock at which `connection_loop`, inside it
`run`, inside that `handle_text_message`, is next; `up` holds the locals of
`send_uplink`. `rx[c]` is the owner of the receiving half of the channel of c:
`run` until the write task is spawned, then the `writer`; `aborted` after
`abort()`, until the runtime drops the task. A send on a channel whose receiver
is dropped fails, and the uplink with it. In `UplinkPipe` the link is the latest
connection; in `LateLinks` every connection is a link, open as long as its channel has a
receiver. There is one `send_uplink` at a time,
as each backend calls it from one loop. `accepted`, `attempts`, `conn`, `muxes`,
`dnmsgs` and `uplinks` are histories and bounds.

*ContextResolution.* Time is in ticks with `Sec` ticks to a second; a direct
uplink's counter is 32 bits in the code and `CountMod` here, with `Flag` above
it for synthetic counters. Each probe of the cache is its own action, as each
takes the lock again.

*SemtechUdp.* Two tasks run `send_downlink_frame`, the one that reads the LNS and
the receive loop, so its locals are `call["lns"]` and `call["udp"]`; each lock of
the shared state is an action, and `loop` is where the handler of a datagram is.
A PULL_RESP on the network carries the number of its send, so that two of one item
would be told apart; a TX_ACK carries how many copies of it may still arrive, so it
can be lost, repeated (`MaxCopies`) and reordered. The gateway transmits or
rejects. `Expire` says that the 60 s of an entry are over, which may be at any time.
`boot` is `main`: the wait for an id, then the ids that `lns::setup` and
`cups::setup` took, while the receive loop already runs.

*ConcentratordCmd.* A REQ socket has a number; a reconnect drops the old one, whose
request may still be delivered while it lingers. The peer answers each request to
the socket it came from. `setup` sends the query on the socket the commands use
afterwards; when it fails `main` ends and systemd starts the process again, with a
later socket, while the old query is still on its way. A command is a downlink or a
configuration (`Configs`); `inForce` is the request of the last configuration the
peer carried out.

*DownlinkService.* In both refinements an answer is what the history of the caller
says. `MaxTx` and whether an error is definite are given for each frame. For Semtech
UDP nothing is confirmed; a frame whose token no other frame has goes on the air once
at most and an error is definite, and for one that shares its token (section 6) `MaxTx`
is the number of its items and an error is not definite. For Concentratord `MaxTx` is
the number of attempts, "ok" is confirmed, and an error is not definite. `dntxed` repeats the answer (`LnsSession.BackendDntxed`), so this is
all the LNS learns from it.

*Cups.* The three parts of a response, and the three files, are functions of the
file's name; `update` is the step `run_update` is at, the file and the parts. Each
file system step (truncate, write) is an action, and a power cut or a failure between
them leaves an empty or a cut file: what is left of a token still parses as a header,
what is left of a certificate does not ("stub"). CRCs are taken to identify what they
are of (no collisions). An attempt of the LNS reads the URI, then the header, then
makes the discovery request with both.

*Downlinks, RouterConfig.* `config` is `ROUTER_CONFIG` and `channels` what the
backend was last told; `Configure` is the handler of a router_config and
`Disconnect` the reset in `connection_loop`, so uplinks, messages and schedules
meet one table and then another. A message says whether `resolve_context` finds a
relay's context; which one is found is `ContextResolution`. The reader handles one
message at a time, so `frames` and `reply` are of one message, until `Return`.
Uplinks come at any time, from the backend's task.

*PullResp.* Operators on the items in `frames`. The numbers that `Downlinks` leaves
out (count_us, the delay of RX1, the gpstime) are inputs, all of them for every item.

*CupsParse, UplinkFrames.* Mostly pure: the state is where a loop is and what it
has produced. Bytes that are only copied are left out. `received` is the size of the
datagram in the buffer and the set of positions that were looked at, by the receive
loop and by the `from_slice` it leads to.

## 3. Runs

| Run | Shows |
|---|---|
| `lns_session` | `StampedWithSession`, `StampedWithConfig`, `RefTimesIncrease` over all connections, the inductive `SessionInv`, and that the link implements `UplinkPipe` (`PipeSpec`), for two connections, three uplinks, a dnmsg and two MuxTimes |
| `lns_slow_abort` | when an aborted write task may outlive the 5 s sleep (`PromptAbort = FALSE`), connections overlap and a message may be stamped for a later one, but they implement `LateLinks` (`LateSpec`): each carries what it accepted in order, nothing has a configuration of an earlier one, no RefTime goes back; and `KeepsTrying` under weak fairness |
| `lns_mux_lost` (violated) | a MuxTime that arrives inside `send_uplink` is cleared unused (`ClearsTheMuxTimeUsed`) |
| `context_resolution` | `DirectOnTime`, `RightRelay`, `SyntheticKeysDistinct`, and `CacheInv`, by which no entry outlives its lifetime and a sweep |
| `semtech_udp` | a TX_ACK finds what is cached under its token (`InFlightIsCached`), retries follow rejections and no item is sent twice (`RetriesFollowRejects`), every rejection that arrives is followed if the frame has a token of its own (`RejectedIsRetried`); the inductive `SemtechInv` behind them; LNS and CUPS start with one id (`OneIdentity`); `DownlinkService` is implemented, its liveness included (`ServiceSpec`) |
| `concentratord_cmd` | replies match (`ReplyMatches`), failure only after three faults (`FailsAfterFaults`), what may be in force (`NewestInForce`), the inductive `CmdInv`, which bounds the executions, and `DownlinkService` (`ServiceSpec`): every command is answered |
| `cups` | what a restart restores is what was in use (`RestartRecovers`); a credential on disk is not fetched again (`TcCredSentOnce`); the inductive `CupsInv` behind both; after crashes, power cuts and failures the station settles on the server's URI and token together (`Settles`) |
| `cups_unsaved` (violated) | it does not, when a token could not be saved and the server goes back to the one on disk (`SettlesThoughUnsaved`) |
| `cups_parse` | segments tile the response in order (`SegmentsInOrder`); only cut responses are refused (`RefusedOnlyIfCut`); the only two places that panic (`PanicsOnlyThere`) |
| `cups_parse_panic` (violated) | the first of these (`NeverPanics`) |
| `downlinks` | answers in the uplink's rate (`AnswerInRateOfUplink`), relays get a power they accept (`RelayAccepts`), windows in time order (`ItemsInTimeOrder`), the channels of a plan stay distinct (`ChannelsDistinct`), schedules sent as a prefix (`ScheduleIsAPrefix`); every item the backend may be given becomes a PULL_RESP with one time, in step across a wrap of the counter (`FramesEncode`); the inductive `DownlinkInv`, which has the type invariant |
| `uplink_frames` | nothing is read beyond what arrived (`ReadsWhatArrived`); layouts tile (`FieldsTile`); wanted frames forwarded once and in order, a datagram whole or not at all (`ForwardedOnceInOrder`) |

A violated run states what a doc, comment or test of the repository says, and
`findings` quotes it. None of the passing properties depends on a violated one;
`Settles` names the exception that `cups_unsaved` shows to be needed.

### Bounds

* Two connections and three uplinks: a call of `send_uplink` spans at most one
  disconnect and one reconnect before it ends or finds its channel dead, and
  two messages in a channel are enough to reorder; the third uplink lets one be
  sent after both. `SessionMod = 2` makes sessions of successive connections
  differ and wrap at once; the proofs have no bound at all. `lns_slow_abort`, with liveness
  to check, has two uplinks and one MuxTime, so that an echo by the second would be seen.
* `ContextResolution` has two uplinks, as a confusion is between two contexts; a
  cell of time long enough for both windows, a sweep and a count that wraps.
* `SemtechUdp` has a frame "own" of two windows and id 6, which is token 2 after
  `TokenMod = 4`; a dnmsg "plain" without diid, of two windows, and a dnsched "sched" of
  one window, which share token 0. `MaxItems = 3` lets two of them be given, "own" or
  "plain" with "sched", in each order: a TX_ACK of either window meets a frame of the
  other kind, with the same token and with another, twice. Two gateway ids and
  two PULL_DATA are enough for the id to change once after it was learnt, at every
  step of the start. That frames which share a token need their weaker form is exact:
  with `MaxTx` 1 for them, with errors definite for them, or with `RejectedIsRetried`
  stated of them too, the same run has a counterexample.
* `ConcentratordCmd` has the code's three attempts and two commands, both
  configurations: a mix-up, or an overtaking, is between two. Two reconnects may fail,
  and the process may start twice.
* `Cups` has two URIs, two tokens and a certificate, two server changes, so that the
  server can go back to what it had, or from a token to a certificate and on, and a
  fault at any step between or inside them.
* `CupsParse` has lengths at each boundary of the five segments (0, 1, the 4
  bytes of the smallest signature, one more than what is left) and a `usize`
  (`Word`) that they can wrap.
* `Downlinks` has two configurations with the shapes that matter: US915 (a repeated
  row, FSK, two boards, offsets used on both radios, a limit below the relays'
  floor) and EU868 (a row of -1, no limit, no channels), and schedules of up to
  three entries of every kind. `Word` is large enough that no bandwidth wraps. In
  `PullResp` microseconds are exact and the counter wraps at 100 s, with counts before,
  between and after the two windows, the least and the largest delay, and a gpstime
  before the epoch.
* `UplinkFrames` has every FOptsLen with every length around the fixed header
  and MIC sizes, two frames in a datagram of every kind, and datagrams of 0 to 15 bytes of
  every type and of a wrong version.

The checks do not look for deadlock where the bounds end the run (the program
itself never ends).

### Fairness

Fairness is given only to steps the program takes by itself. `LnsSession`: the
runtime polls ready tasks, so the loop's clears, its timer and the cancellation
of an aborted task; never a read, a write or a connect, which the peer may hold
up. `SemtechUdp`: the receive loop handles what has reached the socket, and a
`send_downlink_frame` of the LNS task goes on, as its locks are held for a moment and
a UDP send does not wait; the network and the start have none. `ConcentratordCmd`: the poll has a timeout and the attempts a
bound. `Cups`: the update loop is a task of its own with timeouts; faults and
server changes are finitely many (`MaxFaults`, `MaxChanges`). That the station
reconnects again and again is no step of the program, as a connection may last for
ever: it is the hypothesis `Reconnects` of `Settles`, whose second hypothesis is
that `tc.cred` does not stay unsaved.

## 4. Proofs

`LnsSessionProofs` proves for every number of connections, uplinks and messages
and every session modulus

* `TypeCorrect`: `Spec => []TypeOK`;
* `LinkCorrect`: with `PromptAbort`, `Spec => []SessionInv`, which is `TypeOK`,
  `LinkInv` and `TrafficInv`;
* `SessionCorrect`, `ConfigCorrect`: with `PromptAbort`,
  `Spec => []StampedWithSession` and `Spec => []StampedWithConfig`;
* `TrafficCorrect`: `Spec => [](TypeOK /\ TrafficInv)`, and from it `NotOlderCorrect`
  (`ConfigNotOlder`) and `RefTimesCorrect` (`RefTimesIncrease`), all without `PromptAbort`;
* `PipeCorrect`: with `PromptAbort`, `Spec => PipeSpec`, the whole refinement, as
  `UplinkPipe` states no fairness;
* `LateCorrect`: `Spec => LateSpec`, the refinement of `LateLinks`, without `PromptAbort`.

`StampedWithSession` alone is not inductive: it speaks of what is already
written. `LinkInv` adds what makes it so, in five parts. `ChannelInv` ties the
owner of every channel to the position of the loop: only the latest connection
may have a live channel, and none is alive when the next attempt begins.
`StaticsInv`: `WS_SENDER` and `ROUTER_CONFIG` are of the latest connection, and
cleared before the next. `UplinkInv` is the heart: if the channel that
`send_uplink` captured is *still alive*, no reconnect has happened, so what it
read after it is of the same connection; if not, the send will fail. `QueueInv`
and `WireInv` carry that from the send to the wire. The proof has one lemma per
part of the step and one case per action.

`TrafficInv` is about what moves, however long an aborted task lives: what was accepted
on a connection is what was written and what is queued, unless its channel is dead
(`CarryInv`); what is queued, written or held by `send_uplink` has no older
configuration than its connection (`OlderInv`); and a RefTime is above all that were
sent before and below the MuxTime still held (`RefInv`), which needs that `send_uplink`
clears the one it used before it sends. The refinement follows: an action of the model
opens, accepts, delivers or leaves the pipe alone, and what is delivered is the head of
what was accepted by `CarryInv`, with the stamp of the connection by `SessionInv`. That of `LateLinks` has the same steps, and
only `TrafficInv` to rest on: each write task delivers and closes on its own link, also
while a later one is open, and what `send_uplink` or `handle_dnmsg` sends has a
configuration between that of the link and the latest.

The assumption `PromptAbort` (an aborted write task has been dropped when the
reconnect sleep ends) is not promised by tokio. What is left without it is `LateSpec`,
checked by `lns_slow_abort` and proved by `LateCorrect`. The constants are otherwise as weak as the code has them:
`SessionMod` positive, the bounds natural numbers.

`DownlinksProofs` proves for every router_config, schedule, message and width

* `PowerInRange`: the power is between the relays' floor and the default of the
  region, and over the limit of the LNS only to reach the floor;
* `DownlinkCorrect`: `Spec => []DownlinkInv`, and from it
* `AnswerRateCorrect`, `RelayCorrect`, `ItemsOrderCorrect`: `AnswerInRateOfUplink`,
  `RelayAccepts` and `ItemsInTimeOrder`;
* `ScheduleCorrect`, `EncodeCorrect`: `ScheduleIsAPrefix` and `FramesEncode`;
* `TwoItemsCorrect`: a frame has two items at most, the assumption `TwoItems` of
  `SemtechProofs`;
* `DistinctCorrect`: `ChannelsDistinct`, for router_configs whose plans are
  `SeparatePlans` (section 5).

`AnswerInRateOfUplink` compares the last uplink with the table in force, which may
have been replaced twice since, so what is inductive is that the rate reported was
right in the table used then (`UplinkInItsRate`). It rests on the first matching
row existing (`FirstIsMember`, by the well-foundedness of the naturals), and on
`khz * 1000` not wrapping for the radios' bandwidths, an assumption on `Radios`
that every bandwidth of LoRa satisfies at 32 bits. `RelayAccepts` needs that a
configuration in force has a power from `PowerInRange`, and the order of items one
lemma about one window and one about two.

`ScheduleIsAPrefix` counts the entries that make a frame (`Chosen`), and a step of the
loop leaves their number or adds one (`NotChosen`, `OneChosen`). It needs that between
two messages there is no frame, the first part of `HandlerInv`. The second,
`RatesInTable`, holds because the table is only replaced between two messages: the
reader handles one at a time. `FramesEncode` follows from it, from the order of items
and from arithmetic modulo the counter: the remainder may be taken before or after a
second is added (`ModPlus`), so that RX2 stays one second after RX1 wherever either wraps.

The channels of a plan are made list by list and board by board, by `FlattenSeq`. Pieces
without repetition that share nothing are joined to a sequence without repetition
(`FlattenDistinct`), which is used twice: for the channels of a list, none or one each, and
for the boards. They share nothing because two frequencies less than `Word` apart have
different remainders (`RemaindersApart`), and the lists of a board differ in kind.

`ContextResolutionProofs` proves for every lifetime, sweep period, width of a counter,
number of uplinks and set of offsets

* `CacheCorrect`: `Spec => []CacheInv`, and from it
* `KeysCorrect`, `DirectCorrect`, `RelayCorrect`: `SyntheticKeysDistinct`,
  `DirectOnTime` and `RightRelay`.

`CacheInv` has five parts beyond the types. `SweepInv` bounds the time to the next sweep, from
which the age of an entry follows (`EntriesExpire`). `KeyInv` ties every entry to the
uplink it was made for: the synthetic clock is strictly increasing, so keys differ.
`ProbeInv` and `RelayInv` say what the lookup in progress has excluded and what it found.
An xtime is a session times twice the `Flag` plus what lies below it; that it can be
taken apart again (`Decompose`) is where `RangeAssumption` is needed: counts stay clear
of the flag and of the session bits, with the largest offset added. A count is a u32 and
the flag is 2^47, which the synthetic clock, in microseconds from the start of the
process, reaches after more than four years. Expiry needs a lifetime above 0 (60 s in
the code).

`UplinkFramesProofs` proves for every set of headers, frames and datagrams

* `UplinkCorrect`: `Spec => []UplinkInv`, and from it
* `ReadsCorrect`, `TileCorrect`, `ForwardCorrect`: `ReadsWhatArrived`, `FieldsTile` and
  `ForwardedOnceInOrder`.

What was sent and what is still to do are in the order of the datagram (`OrderInv`), and
every signal of a wanted frame is in one of the two (`CompleteInv`). That this holds
when the loop begins is a fact about `FlattenSeq`, which is recursive: its value for
datagrams of any length is unfolded frame by frame (`PartialExists`, `FlattenSeqIs`).
The induction is `SetInduction`, over a set of numbers in place of a predicate, from the
library's well-foundedness of `<`.

`CupsParseProofs` proves for every size of a response, set of lengths and width of usize

* `ParseCorrect`: `Spec => []ParseInv`, and from it
* `OrderCorrect`, `RefusalCorrect`, `PanicCorrect`: `SegmentsInOrder`,
  `RefusedOnlyIfCut` and `PanicsOnlyThere`.

The cursor is where the segments taken end (`Layout`, a recursive function of which the
proof needs the six values); as a sum that does not wrap is the sum, a segment that is
taken ends inside the data (`TakenKeeps`).

`UplinkInv` and `ParseInv` were checked with TLC on the values of `MCUplinkFrames` and
`MCCupsParse` before they were proved; the runs list the properties that follow from them.

`ConcentratordProofs` proves for every number of attempts, commands, broken reconnects
and restarts, and every choice of configurations among the commands

* `CommandCorrect`: `Spec => []CmdInv`, and from it
* `ReplyCorrect`, `RunsCorrect`, `FailsCorrect`, `ConfigCorrect`: `ReplyMatches`,
  `RunsBounded`, `FailsAfterFaults`, `NewestInForce`;
* `ServiceCorrect`: the initial states and every step map to `DownlinkService`.

`ReplyMatches` rests on `SocketInv`: a socket has one request or one reply at most,
only the socket in use keeps replies, and while it is polled what it owes is of the
command in progress, because a REQ socket that owes an answer refuses to send, and one
that was answered owes nothing. `RunsBounded` needs the requests on their way to be
counted with the executions (`SendsInv`: together they are never more than the sends,
which the attempt number bounds). `NewestInForce` needs that requests of older
commands on their way are of older sockets than the answer (`ReplyInv`).
`FailsAfterFaults` needs the faults counted against the attempt (`FaultsInv`): one for
every attempt given up, and one for a socket that will refuse the next send.

Here and in `SemtechProofs`, `PromiseCorrect` is what the refinement is for:
`DownlinkService` keeps its own invariant `Promise` (`PromiseKept`), so the backend does.

`SemtechProofs` proves for every set of frames, addresses and gateways, every number of
PULL_DATA and of copies of a TX_ACK, and whatever tokens the frames share, under
`TwoItems` (section 5)

* `Invariant`: `Spec => []SemtechInv`, and from it
* `InFlightIsCachedAlways`, `RetriesFollowRejectsAlways`: `InFlightIsCached` and
  `RetriesFollowRejects`;
* `ServiceCorrect`: the initial states and every step map to `DownlinkService`;

and, without this assumption, `OneIdentityAlways`: `Spec => []OneIdentity`.

The heart is what each of the two tasks, which lock `State` step by step, knows of its
frame. The LNS task begins only frames that nobody has heard of (`LnsCallOK`), and while
its frame is not cached, or has a token of its own, the receive loop is not at the same
one (`FramesDiffer`). The receive loop sends the item after one that was rejected, of
this frame or of one with its token (`Prompted`, `UdpCallOK`); of the frame it has cloned
from the cache no later item was sent (`LoopInv`), and what is sent stays cached at its
item or a later one unless another frame displaces it (`SentInv`). `TryNextKeeps` is where
two items are needed: an entry that can be moved is at its first item, so the next one
was never sent, whichever TX_ACK moved it. That no item is sent twice then follows by
counting (`CountInv`), and that no frame with a token of its own is transmitted twice
from `NetInv`: of two items that were sent the first was rejected, and what is rejected
is not transmitted.
`OneIdentity` rests on every id the process takes being one it heard of (`BootInv`).

`CupsProofs` proves for every set of URIs and credentials and any number of faults

* `CupsCorrect`: `Spec => []CupsInv`, and from it
* `RestartCorrect`, `SentOnceCorrect`: `RestartRecovers` and `TcCredSentOnce`.

`RestartRecovers` speaks of the time between updates; `MemoryInv` says for each step of
an update which of memory and file is ahead: the URI in memory before its file is
opened, the header after its file is written. `TcCredSentOnce` needs that the
credential of a response still differs from the file while the parts before it are
written (`NewCredInv`), as only its own part changes `tc.cred`.

Left to TLC: liveness (`KeepsTrying`, `RejectedIsRetried`, `Settles` and the fairness of
`DownlinkService` in both refinements, whose steps are proved), which the provers do not
reach. The violated runs are counterexamples and need no proof.

## 5. Not modelled, and what the models assume

* TLS, HTTP, JSON and TOML encodings, logging, metadata, the config template:
  no state of the protocol is in them.
* Of a PULL_RESP, its times, power and data rate; the other fields are copied. Of a
  channel, its frequency and kind.
* Arguments, signals and the log of `main`; of the event loop of the Concentratord
  backend, its blocking poll: one event is handled before the next is read.
* Frequencies, payloads and antenna fields of downlinks, which are only copied.
* The JoinEUI and NetID filters and the frequency range of a router_config: stored
  and read by nothing.
* The GPS offset of `timesync.rs` is written and never read, and no reply is
  sent to a `timesync` message, so there is nothing to relate it to.
* `uplink.rs` cuts FOpts by FOptsLen before it knows the length of the payload,
  so in a short frame FOpts reaches into the MIC; the model does the same, and
  `FieldsTile` is stated for frames long enough.
* A PULL_RESP is not duplicated by the model's network: the gateway would
  transmit a copy whatever the station does.
* `DistinctCorrect` assumes `SeparatePlans`: the frequencies an LNS plans for the enabled
  channels of one kind differ, and by less than 2^32 Hz. A channel that is planned twice
  is configured twice. TLC evaluates it on the plans of `MCDownlinks`.
* That a frame is transmitted once at most over Semtech UDP rests on frames of two
  items at most, which `TwoItemsCorrect` proves of `Downlinks`, and on a token of its own
  (section 6): with three, a second copy of the TX_ACK of the first item would move past the second.
* No real time passes in `LnsSession`; a dead peer is noticed at some point or
  never (no keepalive in the code), so liveness is stated from the end of a
  connection on.

## 6. Observations

Where the code and its documentation differ, or where a reader would expect
something else, without a run of its own: each is a fact of one line, or of a
library. The models do what the code does.

* `lns/mod.rs:187`: the session byte counts attempts, failed ones too, and repeats
  after 256, while `docs/DEVELOPERS.md:367` lets the LNS detect a reconnection by it.
* `lns/mod.rs:197`: `lns.server` has priority over the URI of CUPS; the comment at
  `lns/mod.rs:37` has it the other way round.
* `lns/uplink.rs:177`: an uplink in a rate that is not in the table is dropped;
  `docs/DEVELOPERS.md:369` says that -1 is reported.
* `lns/downlink.rs:641`: an FSK data rate becomes LoRa of SF 0 in a dnmsg
  (`router_config.rs:59`: "SF=0 means FSK"); `handle_dnsched` leaves such an entry
  out without a word.
* `lns/downlink.rs:70`, `79`, `125`: one bad entry of a schedule drops the later ones;
  `docs/DEVELOPERS.md:385` says each entry becomes a frame. `ScheduleIsAPrefix` is
  what does hold.
* `lns/downlink.rs:43`: no dntxed after a failed send; `docs/DEVELOPERS.md:387` says
  "regardless of success or failure".
* `lns/websocket.rs:168`: a configuration the backend refuses is in force for data
  rates all the same.
* `lns/router_config.rs:161`: an absent radio counts as 0 Hz, so a channel on it with a
  negative offset wraps to just below 2^32 Hz.
* `backend/semtech_udp/mod.rs:279`: every PULL_DATA sets the gateway id; the user
  `README.md:161` says that it is discovered from the first, if not configured.
* `backend/semtech_udp/mod.rs:351`: the token is the low 16 bits of the downlink id,
  and the id is 0 for every dnsched (`lns/downlink.rs:119`) and for a dnmsg without diid;
  `docs/DEVELOPERS.md:260` calls the token random, and line 262 has a TX_ACK find the
  original frame. Of two downlinks in flight with one token the later displaces the
  entry of the earlier. The earlier loses its retry; and a late rejection of it, or
  another copy of one, sends RX2 of the later, although RX1 of that one is on the air,
  is yet to be sent, or ended in an error that the LNS was told of. So such a frame may
  be transmitted in both of its windows. The models do this: what is said of every
  frame is the weaker form, and the stronger one is said of frames with a token of
  their own (`OwnToken`).
* `backend/semtech_udp/mod.rs:227`: a frame is converted before its CRC status is
  looked at, and one that does not convert drops its datagram;
  `docs/DEVELOPERS.md:264` says unwanted frames are dropped before conversion.
* `backend/concentratord.rs:143`: the socket dropped by a reconnect may still deliver
  its request, so an older configuration can be executed after a newer one;
  `NewestInForce` is what does hold.
* `backend/concentratord.rs:164`: an answer that refuses a downlink is "ok" for dntxed:
  the status of its items is logged only.
* `cups/mod.rs:143`: a move from a token to a certificate keeps the token header in
  memory, until a restart (`HeadersFit` has the exception).
* `cups/mod.rs:18`: the comment wants the saved URI restored before the LNS connects, but
  `main` starts `lns::setup` first, so the first attempt may find no URI.
* `backend/semtech_udp/structs.rs:197`: a numeric datr that is negative or has a fraction
  ends the process in an unwrap.
* `backend/semtech_udp/structs.rs:624`: a gpstime before the epoch makes a class B frame
  fail; the LNS gets no dntxed for it.
* `backend/concentratord.rs:266`: a frame without rx_info passes the CRC filter whatever
  the flags are; `frame_to_json` then refuses it.
* `cups/mod.rs:68`: the CRC of the CUPS credentials is that of the configured files, so
  received ones are sent again at every check (`docs/DEVELOPERS.md:429`).

## 7. Plan

Done: the modules above, in this order: the link first, as everything passes
through it; then context resolution, the two backends, CUPS, conversions, the
router configuration; then the service that the backends implement, the start of the
process, what is sent as a PULL_RESP, and what is read of a datagram; the proofs about
every component that is modelled.

Every safety property of a passing run is proved, and the safety part of the four
refinements; what the two backends promise through `DownlinkService` is proved of them.

Next, if the program changes: awaiting the write task after `abort()` would make
`PromptAbort` a step of the model in place of an assumption; a keepalive or a timeout on the
read loop (`websocket.rs:92`) would extend the liveness of `LnsSession` to dead peers.
