-------------------------- MODULE ContextResolution --------------------------
(***************************************************************************)
(* How a downlink finds the concentrator context of the uplink it answers: *)
(* the xtime given to each uplink (lns::uplink_xtime), the cache of the    *)
(* contexts with its sweeper, and the lookup of the downlink path, which   *)
(* probes whole-second offsets (lns::downlink::resolve_context).           *)
(*                                                                         *)
(* Time, count_us and the synthetic counter run in ticks, Sec of them to a *)
(* second (10^6 in the code).  xtime is the integer of the code: session   *)
(* above 48 bits, of which the topmost is the synthetic flag.              *)
(***************************************************************************)
EXTENDS Integers

CONSTANTS
    Sec,           \* ticks of a second: 10^6
    CountMod,      \* count_us is a u32: 2^32
    Flag,          \* SYNTHETIC_XTIME_FLAG: 2^47
    SessionMod,    \* 256
    TTL,           \* CONTEXT_CACHE_TTL: 60 s
    SweepPeriod,   \* of the sweeper's ticker: 30 s
    MaxWindow,     \* MAX_XTIME_OFFSET_SECS: 15
    Offsets,       \* seconds the LNS may add to an xtime
    RxDelays,      \* values of RxDelay
    Bases,         \* values of the concentrator counter at time 0
    MaxTime,       \* bound: ticks
    MaxUplinks     \* bound: uplinks

ASSUME WidthAssumption ==
    /\ Sec \in Nat \ {0} /\ CountMod \in Nat \ {0} /\ Flag \in Nat
    /\ SessionMod \in Nat \ {0} /\ TTL \in Nat \ {0} /\ SweepPeriod \in Nat \ {0}
    /\ MaxWindow \in Nat /\ Offsets \subseteq Nat /\ RxDelays \subseteq Nat
    /\ Bases \subseteq 0..(CountMod - 1) /\ MaxTime \in Nat /\ MaxUplinks \in Nat

\* The counters stay clear of the flag and of the session bits: count_us is far
\* below 2^47, and 2^47 us are four years of uptime.
ASSUME RangeAssumption ==
    /\ \A o \in Offsets : CountMod + o * Sec < Flag
    /\ CountMod + 2 * MaxWindow * Sec < Flag
    /\ MaxTime + MaxUplinks + MaxWindow * Sec < Flag
    /\ \A o \in Offsets : MaxTime + MaxUplinks + (MaxWindow + o) * Sec < Flag

VARIABLES
    caching,        \* CONTEXT_CACHING_ENABLED
    base,           \* count_us when now = 0
    now,
    session,
    lastSynthetic,  \* LAST_SYNTHETIC_US
    cache,          \* CONTEXT_CACHE: its entries
    nextSweep,      \* when the ticker fires next
    uplinks,        \* history: uplinks received
    sent,           \* history: uplinks the LNS got
    probe           \* the locals of the running resolve_context

vars == <<caching, base, now, session, lastSynthetic, cache, nextSweep,
          uplinks, sent, probe>>

\* The bytes of an rx_info.context that matter: a plain one starts with count_us,
\* a mesh one names the relay and the uplink, and there may be none.
Context == [kind : {"direct"}, tag : 0..(CountMod - 1)]
           \cup [kind : {"mesh", "none"}, tag : 1..MaxUplinks]

NoDownlink == [active |-> FALSE]

Init ==
    /\ caching \in BOOLEAN /\ base \in Bases
    /\ now = 0 /\ session = 1 % SessionMod /\ lastSynthetic = 0
    /\ cache = {} /\ nextSweep = 0
    /\ uplinks = 0 /\ sent = {} /\ probe = NoDownlink

-----------------------------------------------------------------------------

Count == (base + now) % CountMod

\* The strictly increasing counter given to an uplink without count_us.
SyntheticNotStrict == LET t == now % Flag IN IF t > lastSynthetic THEN t ELSE lastSynthetic
Synthetic == LET t == now % Flag IN IF t > lastSynthetic THEN t ELSE lastSynthetic + 1

Xtime(s, counter) == s * (2 * Flag) + counter

\* send_uplink: choose the xtime, cache the context under it, send the frame.
\* The frame may still fail to encode or find no connection.
Uplink(kind, delivered) ==
    LET id      == uplinks + 1
        context == [kind |-> kind, tag |-> IF kind = "direct" THEN Count ELSE id]
        xtime   == Xtime(session, IF kind = "direct" THEN Count ELSE Flag + Synthetic)
    IN  /\ uplinks < MaxUplinks
        /\ uplinks' = id
        /\ lastSynthetic' = IF kind = "direct" THEN lastSynthetic ELSE Synthetic
        /\ cache' = IF caching /\ kind # "none"
                    THEN {e \in cache : e.xtime # xtime}
                         \cup {[xtime |-> xtime, context |-> context, at |-> now]}
                    ELSE cache
        /\ sent' = IF delivered
                   THEN sent \cup {[id |-> id, xtime |-> xtime, context |-> context, at |-> now]}
                   ELSE sent
        /\ UNCHANGED <<caching, base, now, session, nextSweep, probe>>

\* Mutant of Sweep: the comparison keeps an entry of exactly the TTL.
SweepLate ==
    /\ caching /\ now = nextSweep
    /\ cache' = {e \in cache : now - e.at <= TTL}
    /\ nextSweep' = nextSweep + SweepPeriod
    /\ UNCHANGED <<caching, base, now, session, lastSynthetic, uplinks, sent, probe>>

Sweep ==
    /\ caching /\ now = nextSweep
    /\ cache' = {e \in cache : now - e.at < TTL}
    /\ nextSweep' = nextSweep + SweepPeriod
    /\ UNCHANGED <<caching, base, now, session, lastSynthetic, uplinks, sent, probe>>

\* Time passes, but not past a tick of the sweeper.
Tick ==
    /\ now < MaxTime
    /\ caching => now < nextSweep
    /\ now' = now + 1
    /\ UNCHANGED <<caching, base, session, lastSynthetic, cache, nextSweep,
                   uplinks, sent, probe>>

NewSession ==
    /\ session' = (session + 1) % SessionMod
    /\ UNCHANGED <<caching, base, now, lastSynthetic, cache, nextSweep, uplinks,
                   sent, probe>>

-----------------------------------------------------------------------------
(* The lookup                                                              *)

\* get_cached_context: the age of the entry is not looked at.
Cached(x) == {e \in cache : e.xtime = x}

\* The largest offset in seconds that leaves a legal window.
MaxOffset(rxDelay) == IF rxDelay < MaxWindow THEN MaxWindow - rxDelay ELSE 0

\* A dnmsg of class A, or of class C with an xtime: the LNS answers uplink u
\* with the xtime moved by offset seconds and the rest of the window in RxDelay.
Downlink(u, offset, rxDelay) ==
    /\ ~probe.active
    /\ probe' = [active |-> TRUE, uplink |-> u, window |-> offset + rxDelay,
                 xtime |-> u.xtime + offset * Sec, rxDelay |-> rxDelay,
                 next |-> 0, hits |-> {}]
    /\ UNCHANGED <<caching, base, now, session, lastSynthetic, cache, nextSweep,
                   uplinks, sent>>

Probing == probe.active /\ probe.next <= MaxOffset(probe.rxDelay)
Probed  == probe.active /\ probe.next > MaxOffset(probe.rxDelay)

\* One pass of the loop: the cache is locked for this offset only.
Probe ==
    /\ Probing
    /\ probe' = [probe EXCEPT
           !.next = @ + 1,
           !.hits = @ \cup {[offset |-> probe.next, context |-> e.context] :
                             e \in Cached(probe.xtime - probe.next * Sec)}]
    /\ UNCHANGED <<caching, base, now, session, lastSynthetic, cache, nextSweep,
                   uplinks, sent>>

\* The frame goes to the backend.
DownlinkDone ==
    /\ Probed
    /\ probe' = NoDownlink
    /\ UNCHANGED <<caching, base, now, session, lastSynthetic, cache, nextSweep,
                   uplinks, sent>>

\* count_us from the low 48 bits of x, truncated to a u32.
CountOf(x) == (x % (2 * Flag)) % CountMod

Fallback == [context |-> [kind |-> "direct", tag |-> CountOf(probe.xtime)],
             offset |-> 0]

\* Mutant of Resolved: the nearest of several candidates is taken.
ResolvedNearest ==
    IF probe.hits = {} THEN Fallback
    ELSE CHOOSE h \in probe.hits : \A g \in probe.hits : h.offset <= g.offset

\* A single candidate is taken, none or several fall back to the count in x.
Resolved ==
    IF \E h \in probe.hits : probe.hits = {h}
    THEN CHOOSE h \in probe.hits : TRUE
    ELSE Fallback

\* Mutant of Rx1Delay: the offset found by the lookup is left out.
Rx1DelayPlain == probe.rxDelay

Rx1Delay == probe.rxDelay + Resolved.offset

\* The count at which the gateway transmits, as PullResp::from_proto computes it for
\* the packet forwarder and the concentratord by itself: that of the context plus
\* the delay, in 32 bits.
Instant(context, delay) == (context.tag + delay * Sec) % CountMod

Next ==
    \/ \E kind \in {"direct", "mesh", "none"}, delivered \in BOOLEAN : Uplink(kind, delivered)
    \/ Sweep \/ Tick \/ NewSession
    \/ \E u \in sent, offset \in Offsets, rxDelay \in RxDelays : Downlink(u, offset, rxDelay)
    \/ Probe \/ DownlinkDone

Spec == Init /\ [][Next]_vars

-----------------------------------------------------------------------------
(* Properties                                                              *)

Entries == [xtime : Nat, context : Context, at : 0..now]
Uplinks == [id : 1..uplinks, xtime : Nat, context : Context, at : 0..now]
Hits    == [offset : 0..MaxWindow, context : Context]
Probes  == [active : {TRUE}, uplink : sent, window : Nat, xtime : Nat,
            rxDelay : RxDelays, next : 0..(MaxWindow + 1), hits : SUBSET Hits]

TypeOK ==
    /\ caching \in BOOLEAN /\ base \in 0..(CountMod - 1)
    /\ now \in 0..MaxTime /\ nextSweep \in Nat
    /\ session \in 0..(SessionMod - 1) /\ uplinks \in 0..MaxUplinks
    /\ lastSynthetic \in 0..(MaxTime + uplinks)
    /\ cache \subseteq Entries /\ sent \subseteq Uplinks
    /\ probe \in Probes \cup {NoDownlink}

\* x was made for an uplink with this context.
Issued(x, context) ==
    \E s \in 0..(SessionMod - 1) :
        IF context.kind = "direct" THEN x = Xtime(s, context.tag)
        ELSE \E k \in 1..lastSynthetic : x = Xtime(s, Flag + k)

\* Two uplinks without a count_us never share an xtime, however close.
SyntheticKeysDistinct ==
    \A u, v \in sent :
        (u.id # v.id /\ u.context.kind # "direct" /\ v.context.kind # "direct")
            => u.xtime # v.xtime

KeyInv ==
    /\ \A e \in cache \cup sent : Issued(e.xtime, e.context)
    /\ SyntheticKeysDistinct

\* The sweeper is never late, and its next pass leaves nothing of the TTL or older.
SweepInv ==
    /\ ~caching => cache = {}
    /\ caching => now <= nextSweep /\ nextSweep <= now + SweepPeriod
    /\ \A e \in cache : nextSweep - e.at < TTL + SweepPeriod

\* What the lookup has found was given to an uplink, at the xtime it looked up.
ProbeInv ==
    probe.active =>
        /\ \E offset \in Offsets :
              /\ probe.window = offset + probe.rxDelay
              /\ probe.xtime = probe.uplink.xtime + offset * Sec
        /\ \A h \in probe.hits : Issued(probe.xtime - h.offset * Sec, h.context)
        /\ ~caching => probe.hits = {}

\* A relayed uplink is in the cache for the TTL, and the lookup for its answer finds it.
RelayInv ==
    caching =>
        /\ \A u \in sent : (u.context.kind = "mesh" /\ now - u.at < TTL) =>
              \E e \in cache : e.xtime = u.xtime /\ e.context = u.context /\ e.at = u.at
        /\ (/\ probe.active /\ probe.uplink.context.kind = "mesh"
            /\ now - probe.uplink.at < TTL
            /\ probe.window - probe.rxDelay < probe.next) =>
              [offset  |-> probe.window - probe.rxDelay,
               context |-> probe.uplink.context] \in probe.hits

\* A downlink answering a plain uplink is transmitted by this concentrator at
\* the count of that uplink plus the whole window, whether the lookup hits, is
\* ambiguous, misses, finds another uplink or is switched off, across the wrap
\* of count_us and across reconnections (downlink.rs 182-251).
DirectOnTime ==
    (Probed /\ probe.uplink.context.kind = "direct") =>
        /\ Resolved.context.kind = "direct"
        /\ Instant(Resolved.context, Rx1Delay)
             = Instant(probe.uplink.context, probe.window)

\* A downlink answering a relayed uplink within the TTL and with a legal window
\* is never given to another relay, nor scheduled against another uplink
\* (downlink.rs 156-158, 179-181).
RightRelay ==
    (/\ Probed /\ probe.uplink.context.kind = "mesh"
     /\ now - probe.uplink.at < TTL /\ probe.window <= MaxWindow
     /\ Resolved.context.kind = "mesh") =>
        /\ Resolved.context = probe.uplink.context
        /\ Rx1Delay = probe.window

\* The cache forgets, though a lookup does not look at an age: no entry gets older
\* than the TTL and one sweep (mod.rs 128-169).  CacheInv is what makes the properties
\* inductive, the types included.
EntriesExpire == \A e \in cache : now - e.at < TTL + SweepPeriod

CacheInv == TypeOK /\ EntriesExpire /\ SweepInv /\ KeyInv /\ ProbeInv /\ RelayInv
=============================================================================
