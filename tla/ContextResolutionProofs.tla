------------------------ MODULE ContextResolutionProofs ------------------------
(***************************************************************************)
(* Proofs about ContextResolution, for every width of the counters, TTL,   *)
(* window and number of uplinks: CacheInv is inductive, and from it follow *)
(* that a direct downlink is on time and that a relayed one goes to the    *)
(* relay of its uplink.                                                    *)
(***************************************************************************)
EXTENDS ContextResolution, TLAPS

-----------------------------------------------------------------------------
(* Arithmetic of the xtime and of the counters                             *)

\* The widths of the counters are numbers.
LEMMA Widths ==
    /\ Sec \in Nat \ {0} /\ CountMod \in Nat \ {0} /\ Flag \in Nat \ {0}
    /\ SessionMod \in Nat \ {0} /\ CountMod < Flag
    /\ MaxWindow * Sec \in Nat /\ MaxTime + MaxUplinks + MaxWindow * Sec < Flag
    /\ MaxTime + MaxUplinks < Flag /\ CountMod + MaxWindow * Sec < Flag
<1>1. MaxWindow * Sec \in Nat /\ 2 * MaxWindow * Sec = 2 * (MaxWindow * Sec)
  BY WidthAssumption
<1> QED BY <1>1, WidthAssumption, RangeAssumption

\* A multiple of m that is smaller than m is zero.
LEMMA SmallMultiple ==
    ASSUME NEW m \in Nat \ {0}, NEW k \in Int, k * m < m, -m < k * m
    PROVE  k = 0
<1>1. CASE k > 0
  <2>1. (k - 1) * m >= 0
    BY <1>1
  <2>2. (k - 1) * m = k * m - m
    OBVIOUS
  <2> QED BY <2>1, <2>2
<1>2. CASE k < 0
  <2>1. (-k - 1) * m >= 0
    BY <1>2
  <2>2. (-k - 1) * m = -(k * m) - m
    OBVIOUS
  <2> QED BY <2>1, <2>2
<1> QED BY <1>1, <1>2

\* The difference of two numbers that are given by multiples of m.
LEMMA Difference ==
    ASSUME NEW m \in Nat \ {0}, NEW p \in Int, NEW q \in Int, NEW x \in Int, NEW r \in Int,
           p * m + x = q * m + r
    PROVE  (p - q) * m = r - x
  OBVIOUS

\* What % leaves.
LEMMA ModFacts ==
    ASSUME NEW m \in Nat \ {0}, NEW a \in Int
    PROVE  a % m \in 0..(m - 1) /\ \E q \in Int : a = q * m + (a % m)
<1>1. a % m \in 0..(m - 1)
  OBVIOUS
<1>2. m \in Nat /\ m > 0
  OBVIOUS
<1>3. \E q \in Int : a = m * q + (a % m)
  BY <1>2
<1>4. \A q \in Int : m * q = q * m
  OBVIOUS
<1> QED BY <1>1, <1>3, <1>4

\* The remainder is unique.
LEMMA ModUnique ==
    ASSUME NEW m \in Nat \ {0}, NEW q \in Int, NEW r \in 0..(m - 1)
    PROVE  (q * m + r) % m = r
<1> DEFINE a == q * m + r
           x == a % m
<1>1. a \in Int
  OBVIOUS
<1> HIDE DEF a
<1>2. x \in 0..(m - 1)
  BY <1>1, ModFacts
<1>3. PICK p \in Int : a = p * m + x
  BY <1>1, ModFacts
<1> HIDE DEF x
<1>4. (p - q) * m = r - x
  BY <1>2, <1>3, Difference DEF a
<1>5. p - q = 0
  BY <1>2, <1>4, SmallMultiple
<1>6. x = r
  BY <1>2, <1>3, <1>5 DEF a
<1> QED BY <1>6 DEF x, a

\* Remainders may be taken of a summand first.
LEMMA ModAdd ==
    ASSUME NEW m \in Nat \ {0}, NEW a \in Int, NEW b \in Int
    PROVE  ((a % m) + b) % m = (a + b) % m
<1> DEFINE x == a % m
           y == (x + b) % m
<1>1. x \in 0..(m - 1)
  BY ModFacts
<1>2. PICK q \in Int : a = q * m + x
  BY ModFacts
<1> HIDE DEF x
<1>3. y \in 0..(m - 1)
  BY <1>1, ModFacts
<1>4. x + b \in Int
  BY <1>1
<1>5. PICK p \in Int : x + b = p * m + y
  BY <1>4, ModFacts
<1> HIDE DEF y
<1>6. p * m + q * m = (p + q) * m /\ p + q \in Int
  OBVIOUS
<1>7. a + b = (p + q) * m + y
  BY <1>1, <1>2, <1>3, <1>5, <1>6
<1>8. ((p + q) * m + y) % m = y
  BY <1>3, <1>6, ModUnique
<1> QED BY <1>7, <1>8 DEF x, y

\* A session and what lies below it determine an xtime, as long as what lies below
\* differs by less than the width of the session bits.
LEMMA Decompose ==
    ASSUME NEW s \in Int, NEW t \in Int, NEW c \in Int, NEW d \in Int,
           c - d < 2 * Flag, d - c < 2 * Flag, Xtime(s, c) = Xtime(t, d)
    PROVE  s = t /\ c = d
<1> DEFINE m == 2 * Flag
<1>1. m \in Nat \ {0}
  BY Widths
<1>2. s * m + c = t * m + d
  BY DEF Xtime
<1>0. c - d < m /\ d - c < m
  OBVIOUS
<1> HIDE DEF m
<1>3. (s - t) * m = d - c
  BY <1>1, <1>2, Difference
<1>4. s - t = 0
  BY <1>0, <1>1, <1>3, SmallMultiple
<1>5. s = t /\ s * m \in Int
  BY <1>1, <1>4
<1> QED BY <1>2, <1>5

-----------------------------------------------------------------------------
(* What an uplink is given                                                 *)

UContext(kind) == [kind |-> kind, tag |-> IF kind = "direct" THEN Count ELSE uplinks + 1]
UXtime(kind) == Xtime(session, IF kind = "direct" THEN Count ELSE Flag + Synthetic)

Kinds == {"direct", "mesh", "none"}

\* The counters fit below their flag: the synthetic one strictly increases.
LEMMA CounterFacts ==
    ASSUME TypeOK
    PROVE  /\ Count \in 0..(CountMod - 1)
           /\ Synthetic \in Nat /\ Synthetic > lastSynthetic
           /\ Synthetic <= MaxTime + uplinks + 1
           /\ lastSynthetic \in Nat /\ lastSynthetic <= MaxTime + uplinks
           /\ uplinks \in Nat /\ uplinks <= MaxUplinks /\ now \in Nat /\ now <= MaxTime
           /\ session \in Nat /\ session <= SessionMod - 1
<1>1. /\ lastSynthetic \in Nat /\ lastSynthetic <= MaxTime + uplinks /\ base \in Nat
      /\ uplinks \in Nat /\ uplinks <= MaxUplinks /\ now \in Nat /\ now <= MaxTime
      /\ session \in Nat /\ session <= SessionMod - 1
  BY WidthAssumption DEF TypeOK
<1>2. Count \in 0..(CountMod - 1)
  <2>1. CountMod \in Nat \ {0} /\ base + now \in Int
    BY <1>1, Widths
  <2>2. (base + now) % CountMod \in 0..(CountMod - 1)
    BY <2>1
  <2> QED BY <2>2 DEF Count
<1>3. now < Flag /\ Flag \in Nat \ {0}
  BY <1>1, Widths, WidthAssumption
<1>4. now % Flag = now
  <2>1. (0 * Flag + now) % Flag = now
    BY <1>1, <1>3, ModUnique
  <2>2. 0 * Flag + now = now
    BY <1>1, <1>3
  <2> QED BY <2>1, <2>2
<1>5. Synthetic = IF now > lastSynthetic THEN now ELSE lastSynthetic + 1
  BY <1>4 DEF Synthetic
<1>6. Synthetic \in Nat /\ Synthetic > lastSynthetic /\ Synthetic <= MaxTime + uplinks + 1
  BY <1>1, <1>5, WidthAssumption
<1> QED BY <1>1, <1>2, <1>6

\* An uplink is numbered, stamped and possibly cached as its kind says.
LEMMA UplinkFacts ==
    ASSUME TypeOK, NEW kind \in Kinds, NEW delivered \in BOOLEAN, Uplink(kind, delivered)
    PROVE  /\ uplinks < MaxUplinks /\ uplinks' = uplinks + 1
           /\ lastSynthetic' = IF kind = "direct" THEN lastSynthetic ELSE Synthetic
           /\ cache' = IF caching /\ kind # "none"
                       THEN {e \in cache : e.xtime # UXtime(kind)}
                            \cup {[xtime |-> UXtime(kind), context |-> UContext(kind), at |-> now]}
                       ELSE cache
           /\ sent' = IF delivered
                      THEN sent \cup {[id |-> uplinks + 1, xtime |-> UXtime(kind),
                                       context |-> UContext(kind), at |-> now]}
                      ELSE sent
           /\ caching' = caching /\ base' = base /\ now' = now /\ session' = session
           /\ nextSweep' = nextSweep /\ probe' = probe
  BY DEF Uplink, UXtime, UContext

\* It is a number, and the context one the cache may hold.
LEMMA UplinkTyped ==
    ASSUME TypeOK, NEW kind \in Kinds, uplinks < MaxUplinks
    PROVE  UXtime(kind) \in Nat /\ UContext(kind) \in Context /\ UContext(kind).kind = kind
<1>1. UXtime(kind) \in Nat
  <2>1. session * (2 * Flag) \in Nat
    BY CounterFacts, Widths
  <2>2. \A c \in Nat : Xtime(session, c) \in Nat
    BY <2>1 DEF Xtime
  <2>3. Count \in Nat /\ Flag + Synthetic \in Nat
    BY CounterFacts, Widths
  <2> QED BY <2>2, <2>3 DEF UXtime
<1>2. UContext(kind) \in Context /\ UContext(kind).kind = kind
  <2>1. uplinks + 1 \in 1..MaxUplinks /\ Count \in 0..(CountMod - 1)
    BY CounterFacts, WidthAssumption
  <2> QED BY <2>1 DEF UContext, Context, Kinds
<1> QED BY <1>1, <1>2

\* A context of the cache is of one of the kinds.
LEMMA ContextKinds ==
    ASSUME NEW c \in Context
    PROVE  /\ c.kind \in Kinds
           /\ c.kind = "direct" => c.tag \in 0..(CountMod - 1)
  BY DEF Context, Kinds

\* An xtime that was issued stays issued.
LEMMA IssuedStays ==
    ASSUME TypeOK, NEW x, NEW c, Issued(x, c), lastSynthetic' \in Nat,
           lastSynthetic' >= lastSynthetic
    PROVE  Issued(x, c)'
<1>1. lastSynthetic \in Nat
  BY CounterFacts
<1> QED BY <1>1 DEF Issued

\* The new uplink gets an xtime of its kind.
LEMMA NewIssued ==
    ASSUME TypeOK, NEW kind \in Kinds,
           lastSynthetic' = IF kind = "direct" THEN lastSynthetic ELSE Synthetic,
           NEW x, NEW c, x = UXtime(kind), c = UContext(kind)
    PROVE  Issued(x, c)'
<1>2. PICK s \in 0..(SessionMod - 1) : s = session
  BY DEF TypeOK
<1>3. c.kind = kind /\ (kind = "direct" => c.tag = Count)
  BY DEF UContext
<1>4. CASE kind = "direct"
  BY <1>2, <1>3, <1>4 DEF UXtime, Issued
<1>5. CASE kind # "direct"
  <2>1. PICK k \in 1..lastSynthetic' : k = Synthetic
    BY <1>5, CounterFacts
  <2>2. x = Xtime(s, Flag + k)
    BY <1>2, <1>5, <2>1 DEF UXtime
  <2> QED BY <1>3, <1>5, <2>1, <2>2 DEF Issued
<1> QED BY <1>4, <1>5

\* It shares it with no relayed uplink, and a relayed one with none at all.
LEMMA NewKey ==
    ASSUME TypeOK, NEW kind \in Kinds, uplinks < MaxUplinks,
           NEW x, NEW c \in Context, Issued(x, c),
           kind # "direct" \/ c.kind # "direct"
    PROVE  x # UXtime(kind)
<1> SUFFICES ASSUME x = UXtime(kind) PROVE FALSE
  OBVIOUS
<1>1. PICK s \in 0..(SessionMod - 1) :
        IF c.kind = "direct" THEN x = Xtime(s, c.tag)
        ELSE \E k \in 1..lastSynthetic : x = Xtime(s, Flag + k)
  BY DEF Issued
<1>2. /\ CountMod < Flag /\ Flag \in Nat /\ MaxTime + MaxUplinks < Flag
      /\ MaxTime \in Nat /\ MaxUplinks \in Nat /\ CountMod \in Nat
  BY Widths, WidthAssumption
<1>3. /\ Count \in 0..(CountMod - 1) /\ lastSynthetic \in Nat /\ lastSynthetic < Flag
      /\ Synthetic \in Nat /\ Synthetic > lastSynthetic /\ Synthetic < Flag
  BY <1>2, CounterFacts
<1>4. s \in Int /\ session \in Int
  BY CounterFacts
<1>5. CASE c.kind = "direct"
  <2>1. c.tag \in 0..(CountMod - 1) /\ x = Xtime(s, c.tag)
    BY <1>1, <1>5, ContextKinds
  <2>2. x = Xtime(session, Flag + Synthetic)
    BY <1>5 DEF UXtime
  <2>3. /\ c.tag \in Int /\ Flag + Synthetic \in Int /\ c.tag < Flag + Synthetic
        /\ c.tag - (Flag + Synthetic) < 2 * Flag /\ (Flag + Synthetic) - c.tag < 2 * Flag
    BY <1>2, <1>3, <2>1
  <2>4. PICK d, e : d = c.tag /\ e = Flag + Synthetic
    OBVIOUS
  <2>5. d \in Int /\ e \in Int /\ d < e /\ d - e < 2 * Flag /\ e - d < 2 * Flag
    BY <2>3, <2>4
  <2>6. Xtime(s, d) = Xtime(session, e)
    BY <2>1, <2>2, <2>4
  <2>7. d = e
    BY <1>4, <2>5, <2>6, Decompose
  <2> QED BY <2>5, <2>7
<1>6. CASE c.kind # "direct"
  <2>1. PICK k \in 1..lastSynthetic : x = Xtime(s, Flag + k)
    BY <1>1, <1>6
  <2>2. CASE kind = "direct"
    <3>1. x = Xtime(session, Count)
      BY <2>2 DEF UXtime
    <3>2. Count = Flag + k
      BY <1>2, <1>3, <1>4, <2>1, <3>1, Decompose
    <3> QED BY <1>2, <1>3, <3>2
  <2>3. CASE kind # "direct"
    <3>1. x = Xtime(session, Flag + Synthetic)
      BY <2>3 DEF UXtime
    <3>2. Flag + Synthetic = Flag + k
      BY <1>2, <1>3, <1>4, <2>1, <3>1, Decompose
    <3> QED BY <1>2, <1>3, <3>2
  <2> QED BY <2>2, <2>3
<1> QED BY <1>5, <1>6

-----------------------------------------------------------------------------
(* Types                                                                   *)

\* No lookup looks further than the window.
LEMMA MaxOffsetFacts ==
    ASSUME NEW r \in RxDelays
    PROVE  /\ MaxOffset(r) \in Nat /\ MaxOffset(r) <= MaxWindow
           /\ \A o \in Nat : o + r <= MaxWindow => o <= MaxOffset(r)
  BY WidthAssumption DEF MaxOffset

\* A running lookup has the fields of one.
LEMMA RunningProbe ==
    ASSUME TypeOK, probe.active
    PROVE  /\ probe \in Probes /\ probe.uplink \in sent /\ probe.window \in Nat
           /\ probe.xtime \in Nat /\ probe.rxDelay \in RxDelays /\ probe.rxDelay \in Nat
           /\ probe.next \in 0..(MaxWindow + 1) /\ probe.hits \subseteq Hits
<1>1. probe \in Probes
  BY DEF TypeOK, NoDownlink
<1>2. RxDelays \subseteq Nat
  BY WidthAssumption
<1> QED BY <1>1, <1>2 DEF Probes

\* The uplinks of the history and the entries of the cache are records.
LEMMA Records ==
    ASSUME TypeOK
    PROVE  /\ \A u \in sent : /\ u.id \in 1..uplinks /\ u.xtime \in Nat
                              /\ u.context \in Context /\ u.at \in 0..now
           /\ \A e \in cache : /\ e.xtime \in Nat /\ e.context \in Context
                               /\ e.at \in 0..now
  BY DEF TypeOK, Uplinks, Entries

\* Initially the cache and the history are empty.
LEMMA InitCache == Init => CacheInv
<1> SUFFICES ASSUME Init PROVE CacheInv
  OBVIOUS
<1>1. TypeOK
  <2>1. session \in 0..(SessionMod - 1)
    <3>1. SessionMod \in Nat \ {0} /\ 1 \in Int
      BY WidthAssumption
    <3>2. 1 % SessionMod \in 0..(SessionMod - 1)
      BY <3>1
    <3> QED BY <3>2 DEF Init
  <2> QED BY <2>1, WidthAssumption DEF Init, TypeOK
<1>2. ~probe.active
  BY DEF Init, NoDownlink
<1>3. EntriesExpire /\ SweepInv
  BY WidthAssumption DEF Init, EntriesExpire, SweepInv
<1>4. KeyInv
  BY DEF Init, KeyInv, SyntheticKeysDistinct
<1>5. ProbeInv /\ RelayInv
  BY <1>2 DEF Init, ProbeInv, RelayInv
<1> QED BY <1>1, <1>3, <1>4, <1>5 DEF CacheInv

\* An uplink keeps the types.
LEMMA UplinkType ==
    ASSUME TypeOK, NEW kind \in Kinds, NEW delivered \in BOOLEAN, Uplink(kind, delivered)
    PROVE  TypeOK'
<1> DEFINE e == [xtime |-> UXtime(kind), context |-> UContext(kind), at |-> now]
           u == [id |-> uplinks + 1, xtime |-> UXtime(kind), context |-> UContext(kind),
                 at |-> now]
<1>1. UXtime(kind) \in Nat /\ UContext(kind) \in Context /\ now \in 0..now
  BY UplinkFacts, UplinkTyped, CounterFacts
<1>2. uplinks' \in 0..MaxUplinks /\ uplinks' = uplinks + 1 /\ uplinks \in Nat
  BY UplinkFacts, CounterFacts, WidthAssumption
<1>3. lastSynthetic' \in 0..(MaxTime + uplinks')
  BY <1>2, UplinkFacts, CounterFacts, WidthAssumption
<1>4. cache' \subseteq Entries'
  <2>1. e \in Entries /\ cache \subseteq Entries /\ Entries' = Entries
    BY <1>1, UplinkFacts DEF TypeOK, Entries
  <2> HIDE DEF e
  <2> QED BY <2>1, UplinkFacts DEF e
<1>5. sent' \subseteq Uplinks'
  <2>1. u \in Uplinks'
    BY <1>1, <1>2, UplinkFacts DEF Uplinks
  <2>2. Uplinks \subseteq Uplinks'
    BY <1>2, UplinkFacts DEF Uplinks
  <2>3. sent \subseteq Uplinks
    BY DEF TypeOK
  <2> HIDE DEF u
  <2> QED BY <2>1, <2>2, <2>3, UplinkFacts DEF u
<1>6. probe' \in Probes' \cup {NoDownlink}
  <2>1. sent \subseteq sent'
    BY UplinkFacts
  <2>2. Probes \subseteq Probes'
    BY <2>1 DEF Probes
  <2> QED BY <2>2, UplinkFacts DEF TypeOK
<1>7. /\ caching' \in BOOLEAN /\ base' \in 0..(CountMod - 1) /\ now' \in 0..MaxTime
      /\ nextSweep' \in Nat /\ session' \in 0..(SessionMod - 1)
  BY UplinkFacts DEF TypeOK
<1> QED BY <1>2, <1>3, <1>4, <1>5, <1>6, <1>7 DEF TypeOK

\* The start of a lookup keeps the types.
LEMMA DownlinkType ==
    ASSUME TypeOK, NEW u \in sent, NEW offset \in Offsets, NEW rxDelay \in RxDelays,
           Downlink(u, offset, rxDelay)
    PROVE  TypeOK'
<1>1. offset \in Nat /\ rxDelay \in Nat /\ Sec \in Nat /\ offset * Sec \in Nat /\ u.xtime \in Nat
  BY WidthAssumption, Records
<1>2. sent' = sent /\ probe' = [active |-> TRUE, uplink |-> u, window |-> offset + rxDelay,
                 xtime |-> u.xtime + offset * Sec, rxDelay |-> rxDelay,
                 next |-> 0, hits |-> {}]
  BY DEF Downlink
<1>3. u.xtime + offset * Sec \in Nat /\ offset + rxDelay \in Nat /\ 0 \in 0..(MaxWindow + 1)
  BY <1>1, WidthAssumption
<1>4. probe' \in Probes'
  BY <1>2, <1>3 DEF Probes
<1> QED BY <1>4 DEF Downlink, TypeOK, Entries, Uplinks

\* What the lookup finds at its next offset.
Found == {[offset |-> probe.next, context |-> e.context] :
             e \in Cached(probe.xtime - probe.next * Sec)}

\* It is added to what it has found.
LEMMA ProbeFacts ==
    ASSUME TypeOK, Probe
    PROVE  /\ probe.active /\ probe.next \in 0..MaxWindow
           /\ probe' \in Probes' /\ probe'.active /\ probe'.uplink = probe.uplink
           /\ probe'.window = probe.window /\ probe'.xtime = probe.xtime
           /\ probe'.rxDelay = probe.rxDelay /\ probe'.next = probe.next + 1
           /\ probe'.hits = probe.hits \cup Found
           /\ caching' = caching /\ base' = base /\ now' = now /\ session' = session
           /\ lastSynthetic' = lastSynthetic /\ cache' = cache /\ nextSweep' = nextSweep
           /\ uplinks' = uplinks /\ sent' = sent
<1>1. probe.active /\ probe.next <= MaxOffset(probe.rxDelay)
  BY DEF Probe, Probing
<1>2. probe \in Probes /\ probe.next \in 0..MaxWindow /\ MaxWindow \in Nat
  BY <1>1, RunningProbe, MaxOffsetFacts, WidthAssumption
<1>3. Found \in SUBSET Hits
  BY <1>2, Records DEF Found, Cached, Hits
<1>4. sent' = sent /\ probe' = [probe EXCEPT !.next = @ + 1, !.hits = @ \cup Found]
  BY DEF Probe, Found
<1>5. probe'.next = probe.next + 1 /\ probe'.hits = probe.hits \cup Found
  BY <1>2, <1>4 DEF Probes
<1>6. /\ probe'.active = probe.active /\ probe'.uplink = probe.uplink
      /\ probe'.window = probe.window /\ probe'.xtime = probe.xtime
      /\ probe'.rxDelay = probe.rxDelay
  BY <1>2, <1>4 DEF Probes
<1>7. probe.next + 1 \in 0..(MaxWindow + 1) /\ probe.hits \cup Found \in SUBSET Hits
  BY <1>2, <1>3 DEF Probes
<1>8. probe' \in Probes'
  BY <1>2, <1>4, <1>7 DEF Probes, Hits
<1> QED BY <1>1, <1>2, <1>5, <1>6, <1>8 DEF Probe

\* Every step keeps the types.
LEMMA TypeStep ==
    ASSUME TypeOK, [Next]_vars
    PROVE  TypeOK'
<1>1. ASSUME NEW kind \in {"direct", "mesh", "none"}, NEW delivered \in BOOLEAN,
             Uplink(kind, delivered)
      PROVE  TypeOK'
  BY <1>1, UplinkType DEF Kinds
<1>2. CASE Sweep
  <2>1. nextSweep' \in Nat /\ cache' \subseteq cache
    BY <1>2, WidthAssumption DEF Sweep, TypeOK
  <2>2. Entries' = Entries /\ Uplinks' = Uplinks /\ Probes' = Probes
    BY <1>2 DEF Sweep, Entries, Uplinks, Probes
  <2> QED BY <1>2, <2>1, <2>2 DEF Sweep, TypeOK
<1>3. CASE Tick
  <2>1. now \in 0..MaxTime /\ now' \in 0..MaxTime /\ now' = now + 1
    BY <1>3, WidthAssumption DEF Tick, TypeOK
  <2>2. Entries \subseteq Entries' /\ Uplinks \subseteq Uplinks' /\ Probes = Probes'
    BY <1>3, <2>1 DEF Tick, Entries, Uplinks, Probes
  <2> QED BY <1>3, <2>1, <2>2 DEF Tick, TypeOK
<1>4. CASE NewSession
  <2>1. session' \in 0..(SessionMod - 1)
    <3>1. SessionMod \in Nat \ {0} /\ session + 1 \in Int
      BY WidthAssumption, CounterFacts
    <3>2. (session + 1) % SessionMod \in 0..(SessionMod - 1)
      BY <3>1
    <3> QED BY <1>4, <3>2 DEF NewSession
  <2> QED BY <1>4, <2>1 DEF NewSession, TypeOK, Entries, Uplinks, Probes
<1>5. ASSUME NEW u \in sent, NEW offset \in Offsets, NEW rxDelay \in RxDelays,
             Downlink(u, offset, rxDelay)
      PROVE  TypeOK'
  BY <1>5, DownlinkType
<1>6. CASE Probe
  <2>1. /\ probe' \in Probes' /\ Entries' = Entries /\ Uplinks' = Uplinks
    BY <1>6, ProbeFacts DEF Entries, Uplinks
  <2> QED BY <1>6, <2>1, ProbeFacts DEF TypeOK
<1>7. CASE DownlinkDone
  BY <1>7 DEF DownlinkDone, TypeOK, Entries, Uplinks
<1>8. CASE UNCHANGED vars
  BY <1>8 DEF vars, TypeOK, Entries, Uplinks, Probes, Hits
<1> QED BY <1>1, <1>2, <1>3, <1>4, <1>5, <1>6, <1>7, <1>8 DEF Next

-----------------------------------------------------------------------------
(* The cache, the keys and the lookup                                      *)

\* Every step leaves the sweeper on time.
LEMMA SweepStep ==
    ASSUME TypeOK, SweepInv, [Next]_vars
    PROVE  SweepInv'
<1>0. /\ TTL \in Nat \ {0} /\ SweepPeriod \in Nat \ {0} /\ now \in Nat /\ nextSweep \in Nat
      /\ \A e \in cache : e.at \in 0..now
  BY WidthAssumption, CounterFacts, Records DEF TypeOK
<1>1. ASSUME NEW kind \in {"direct", "mesh", "none"}, NEW delivered \in BOOLEAN,
             Uplink(kind, delivered)
      PROVE  SweepInv'
  <2>1. caching' = caching /\ now' = now /\ nextSweep' = nextSweep
    BY <1>1
       DEF Uplink
  <2>2. \A e \in cache' : e \in cache \/ (caching /\ e.at = now)
    BY <1>1, UplinkFacts DEF Kinds
  <2> QED BY <1>0, <2>1, <2>2 DEF SweepInv
<1>2. CASE Sweep
  <2>1. /\ caching' = caching /\ now' = now /\ nextSweep' = now + SweepPeriod /\ caching
        /\ \A e \in cache' : e \in cache /\ now - e.at < TTL
    BY <1>2 DEF Sweep
  <2> QED BY <1>0, <2>1 DEF SweepInv
<1>3. CASE Tick
  BY <1>0, <1>3 DEF Tick, SweepInv
<1>4. CASE UNCHANGED <<caching, cache, now, nextSweep>>
  BY <1>4 DEF SweepInv
<1> QED BY <1>1, <1>2, <1>3, <1>4
        DEF Next, vars, NewSession, Downlink, Probe, DownlinkDone

\* Every step but an uplink keeps what was issued and adds no key.
LEMMA KeyStep ==
    ASSUME TypeOK, KeyInv, [Next]_vars
    PROVE  KeyInv'
<1>1. ASSUME NEW kind \in {"direct", "mesh", "none"}, NEW delivered \in BOOLEAN,
             Uplink(kind, delivered)
      PROVE  KeyInv'
  <2> DEFINE x == UXtime(kind)
             c == UContext(kind)
  <2>1. kind \in Kinds /\ uplinks < MaxUplinks /\ uplinks \in Nat
    BY <1>1, UplinkFacts, CounterFacts DEF Kinds
  <2>2. lastSynthetic' \in Nat /\ lastSynthetic' >= lastSynthetic
        /\ lastSynthetic' = IF kind = "direct" THEN lastSynthetic ELSE Synthetic
    BY <1>1, <2>1, UplinkFacts, CounterFacts
  <2>3. \A e \in cache' : e \in cache \/ (e.xtime = x /\ e.context = c)
    BY <1>1, <2>1, UplinkFacts
  <2>4. \A u \in sent' : u \in sent \/ (u.id = uplinks + 1 /\ u.xtime = x /\ u.context = c)
    BY <1>1, <2>1, UplinkFacts
  <2>5. c.kind = kind
    BY <2>1, UplinkTyped
  <2> HIDE DEF x, c
  <2>6. ASSUME NEW y, NEW d, Issued(y, d) \/ (y = x /\ d = c)
        PROVE  Issued(y, d)'
    BY <2>1, <2>2, <2>6, IssuedStays, NewIssued DEF x, c
  <2>7. \A e \in cache' \cup sent' : Issued(e.xtime, e.context)'
    <3> SUFFICES ASSUME NEW e \in cache' \cup sent' PROVE Issued(e.xtime, e.context)'
      OBVIOUS
    <3>1. Issued(e.xtime, e.context) \/ (e.xtime = x /\ e.context = c)
      BY <2>3, <2>4 DEF KeyInv
    <3>2. PICK y, d : y = e.xtime /\ d = e.context
      OBVIOUS
    <3> QED BY <2>6, <3>1, <3>2
  <2>8. ASSUME NEW u \in sent', u \in sent, u.context.kind # "direct"
        PROVE  u.xtime # x
    <3>1. Issued(u.xtime, u.context) /\ u.context \in Context
      BY <2>8, Records DEF KeyInv
    <3>2. PICK y, d : y = u.xtime /\ d = u.context
      OBVIOUS
    <3> QED BY <2>1, <2>8, <3>1, <3>2, NewKey DEF x
  <2>9. SyntheticKeysDistinct'
    <3> SUFFICES ASSUME NEW u \in sent', NEW v \in sent', u.id # v.id,
                        u.context.kind # "direct", v.context.kind # "direct"
                 PROVE  u.xtime # v.xtime
      BY DEF SyntheticKeysDistinct
    <3>1. CASE u \in sent /\ v \in sent
      BY <3>1 DEF KeyInv, SyntheticKeysDistinct
    <3>2. CASE u \notin sent \/ v \notin sent
      BY <2>4, <2>8, <3>2
    <3> QED BY <3>1, <3>2
  <2> QED BY <2>7, <2>9 DEF KeyInv
<1>2. ASSUME lastSynthetic' = lastSynthetic, cache' \subseteq cache, sent' = sent
      PROVE  KeyInv'
  <2>1. \A e \in cache' \cup sent' : Issued(e.xtime, e.context)'
    BY <1>2 DEF KeyInv, Issued
  <2> QED BY <1>2, <2>1 DEF KeyInv, SyntheticKeysDistinct
<1>3. CASE Sweep
  BY <1>2, <1>3 DEF Sweep
<1>4. CASE UNCHANGED <<lastSynthetic, cache, sent>>
  BY <1>2, <1>4
<1> QED BY <1>1, <1>3, <1>4
        DEF Next, vars, Tick, NewSession, Downlink, Probe, DownlinkDone

\* Every step keeps the lookup on what was given to an uplink.
LEMMA ProbeStep ==
    ASSUME TypeOK, SweepInv, KeyInv, ProbeInv, [Next]_vars
    PROVE  ProbeInv'
<1>1. ASSUME lastSynthetic' \in Nat, lastSynthetic' >= lastSynthetic,
             probe' = probe, caching' = caching
      PROVE  ProbeInv'
  <2> SUFFICES ASSUME probe.active PROVE ProbeInv'
    BY <1>1 DEF ProbeInv
  <2>1. ASSUME NEW h \in probe.hits
        PROVE  Issued(probe.xtime - h.offset * Sec, h.context)'
    <3>1. PICK y, d : y = probe.xtime - h.offset * Sec /\ d = h.context
      OBVIOUS
    <3>2. Issued(y, d)
      BY <3>1 DEF ProbeInv
    <3>3. Issued(y, d)'
      BY <1>1, <3>2, IssuedStays
    <3>4. (y = probe.xtime - h.offset * Sec)'
      BY <1>1, <3>1
    <3> QED BY <3>1, <3>3, <3>4
  <2> QED BY <1>1, <2>1 DEF ProbeInv
<1>2. ASSUME NEW kind \in {"direct", "mesh", "none"}, NEW delivered \in BOOLEAN,
             Uplink(kind, delivered)
      PROVE  ProbeInv'
  BY <1>1, <1>2, UplinkFacts, CounterFacts DEF Kinds
<1>3. ASSUME NEW u \in sent, NEW offset \in Offsets, NEW rxDelay \in RxDelays,
             Downlink(u, offset, rxDelay)
      PROVE  ProbeInv'
  BY <1>3 DEF Downlink, ProbeInv
<1>4. CASE Probe
  <2>1. \A h \in Found : Issued(probe.xtime - h.offset * Sec, h.context)
    BY DEF Found, Cached, KeyInv
  <2>2. \A h \in probe'.hits : Issued(probe.xtime - h.offset * Sec, h.context)
    BY <1>4, <2>1, ProbeFacts DEF ProbeInv
  <2>3. (\A h \in probe.hits : Issued(probe.xtime - h.offset * Sec, h.context))'
    BY <1>4, <2>2, ProbeFacts DEF Issued
  <2>4. ~caching' => probe'.hits = {}
    BY <1>4, ProbeFacts DEF SweepInv, ProbeInv, Found, Cached
  <2>5. \E offset \in Offsets : /\ probe'.window = offset + probe'.rxDelay
                                /\ probe'.xtime = probe'.uplink.xtime + offset * Sec
    BY <1>4, ProbeFacts DEF ProbeInv
  <2> QED BY <2>3, <2>4, <2>5 DEF ProbeInv
<1>5. CASE DownlinkDone
  BY <1>5 DEF DownlinkDone, ProbeInv, NoDownlink
<1>6. CASE UNCHANGED <<lastSynthetic, probe, caching>>
  BY <1>1, <1>6, CounterFacts
<1> QED BY <1>2, <1>3, <1>4, <1>5, <1>6 DEF Next, vars, Sweep, Tick, NewSession

\* The uplink that an answer moves by offset seconds is found offset seconds back.
LEMMA Back ==
    ASSUME NEW x \in Nat, NEW o \in Nat
    PROVE  o * Sec \in Nat /\ (x + o * Sec) - o * Sec = x
<1>1. o * Sec \in Nat
  BY Widths
<1> QED BY <1>1

\* Every step keeps the relayed uplinks in the cache, and a lookup finds its own.
LEMMA RelayStep ==
    ASSUME TypeOK, KeyInv, ProbeInv, RelayInv, [Next]_vars
    PROVE  RelayInv'
<1> DEFINE Kept(u) == \E e \in cache : e.xtime = u.xtime /\ e.context = u.context /\ e.at = u.at
           Young(u) == u.context.kind = "mesh" /\ now - u.at < TTL
           Own == [offset  |-> probe.window - probe.rxDelay,
                   context |-> probe.uplink.context]
           Seen == (probe.active /\ Young(probe.uplink)
                    /\ probe.window - probe.rxDelay < probe.next) => Own \in probe.hits
<1>0. RelayInv <=> (caching => (\A u \in sent : Young(u) => Kept(u)) /\ Seen)
  BY DEF RelayInv
<1>1. ASSUME NEW kind \in {"direct", "mesh", "none"}, NEW delivered \in BOOLEAN,
             Uplink(kind, delivered)
      PROVE  RelayInv'
  <2> SUFFICES ASSUME caching PROVE (\A u \in sent' : Young(u)' => Kept(u)') /\ Seen'
    BY <1>0, <1>1, UplinkFacts DEF RelayInv, Kinds
  <2>1. kind \in Kinds /\ now' = now /\ probe' = probe /\ uplinks < MaxUplinks
    BY <1>1, UplinkFacts DEF Kinds
  <2>2. Seen'
    BY <1>0, <2>1
  <2>3. ASSUME NEW u \in sent', u.context.kind = "mesh", now - u.at < TTL
        PROVE  \E e \in cache' : e.xtime = u.xtime /\ e.context = u.context /\ e.at = u.at
    <3>1. CASE u \in sent
      <4>1. PICK e \in cache : e.xtime = u.xtime /\ e.context = u.context /\ e.at = u.at
        BY <1>0, <2>3, <3>1
      <4>2. PICK y, d : y = u.xtime /\ d = u.context
        OBVIOUS
      <4>3. y # UXtime(kind)
        BY <2>1, <2>3, <3>1, <4>2, NewKey, Records DEF KeyInv
      <4>4. e \in cache'
        BY <1>1, <2>1, <4>1, <4>2, <4>3, UplinkFacts
      <4> QED BY <4>1, <4>4
    <3>2. CASE u \notin sent
      <4> DEFINE e == [xtime |-> UXtime(kind), context |-> UContext(kind), at |-> now]
      <4>0. u = [id |-> uplinks + 1, xtime |-> UXtime(kind), context |-> UContext(kind),
                 at |-> now]
        BY <1>1, <2>1, <3>2, UplinkFacts
      <4>1. u.xtime = UXtime(kind) /\ u.context = UContext(kind) /\ u.at = now
        BY <4>0
      <4>2. kind = "mesh"
        BY <2>1, <2>3, <4>1, UplinkTyped
      <4>3. e \in cache'
        BY <1>1, <2>1, <4>2, UplinkFacts
      <4> QED BY <4>1, <4>3
    <3> QED BY <3>1, <3>2
  <2> QED BY <2>1, <2>2, <2>3
<1>2. CASE Sweep
  <2>1. \A e \in cache : now - e.at < TTL => e \in cache'
    BY <1>2 DEF Sweep
  <2>2. caching' = caching /\ now' = now /\ sent' = sent /\ probe' = probe
    BY <1>2 DEF Sweep
  <2> QED BY <1>0, <2>1, <2>2 DEF RelayInv
<1>3. CASE Tick
  <2>1. /\ caching' = caching /\ now' = now + 1 /\ now \in Nat /\ cache' = cache
        /\ sent' = sent /\ probe' = probe /\ TTL \in Nat
    BY <1>3, CounterFacts, WidthAssumption DEF Tick
  <2>2. \A u \in sent : Young(u)' => Young(u)
    BY <2>1, Records
  <2>3. probe.active => probe.uplink \in sent
    BY RunningProbe
  <2>4. Seen' <=> ((probe.active /\ Young(probe.uplink)'
                    /\ probe.window - probe.rxDelay < probe.next) => Own \in probe.hits)
    BY <2>1
  <2> QED BY <1>0, <2>1, <2>2, <2>3, <2>4 DEF RelayInv
<1>4. ASSUME NEW u \in sent, NEW offset \in Offsets, NEW rxDelay \in RxDelays,
             Downlink(u, offset, rxDelay)
      PROVE  RelayInv'
  <2>1. offset \in Nat /\ rxDelay \in Nat
    BY WidthAssumption
  <2>2. probe'.window = offset + rxDelay /\ probe'.rxDelay = rxDelay /\ probe'.next = 0
        /\ caching' = caching /\ now' = now /\ sent' = sent /\ cache' = cache
    BY <1>4 DEF Downlink
  <2>3. ~(probe'.window - probe'.rxDelay < probe'.next)
    BY <2>1, <2>2
  <2> QED BY <1>0, <2>2, <2>3 DEF RelayInv
<1>5. CASE Probe
  <2> SUFFICES ASSUME caching, Young(probe.uplink),
                      probe.window - probe.rxDelay < probe.next + 1
               PROVE  Own \in probe'.hits
    BY <1>0, <1>5, ProbeFacts DEF RelayInv
  <2>1. /\ probe.active /\ probe.uplink \in sent /\ probe.rxDelay \in Nat
        /\ probe.next \in Nat /\ probe.uplink.xtime \in Nat
    BY <1>5, ProbeFacts, RunningProbe, Records
  <2>2. PICK o \in Offsets : /\ probe.window = o + probe.rxDelay
                             /\ probe.xtime = probe.uplink.xtime + o * Sec
    BY <2>1 DEF ProbeInv
  <2>3. o \in Nat /\ probe.window - probe.rxDelay = o
    BY <2>1, <2>2, WidthAssumption
  <2>4. CASE o < probe.next
    BY <1>0, <1>5, <2>1, <2>3, <2>4, ProbeFacts
  <2>5. CASE o = probe.next
    <3>1. PICK e \in cache : e.xtime = probe.uplink.xtime /\ e.context = probe.uplink.context
      BY <1>0, <2>1
    <3>2. probe.xtime - o * Sec = probe.uplink.xtime
      BY <2>1, <2>2, <2>3, Back
    <3>3. e \in Cached(probe.xtime - probe.next * Sec)
      BY <2>5, <3>1, <3>2 DEF Cached
    <3>4. Own \in Found
      BY <2>3, <2>5, <3>1, <3>3 DEF Found
    <3> QED BY <1>5, <3>4, ProbeFacts
  <2> QED BY <2>1, <2>3, <2>4, <2>5
<1>6. CASE DownlinkDone
  <2>1. ~probe'.active
    BY <1>6 DEF DownlinkDone, NoDownlink
  <2> QED BY <1>0, <1>6, <2>1 DEF DownlinkDone, RelayInv
<1>7. CASE UNCHANGED <<caching, now, cache, sent, probe>>
  BY <1>7 DEF RelayInv
<1> QED BY <1>1, <1>2, <1>3, <1>4, <1>5, <1>6, <1>7 DEF Next, vars, NewSession

\* No entry of the cache outlives the TTL and one sweep, and the cache holds every
\* relayed uplink for the TTL under a key of its own.
THEOREM CacheCorrect == Spec => []CacheInv
<1>1. CacheInv /\ [Next]_vars => CacheInv'
  <2> SUFFICES ASSUME CacheInv, [Next]_vars PROVE CacheInv'
    OBVIOUS
  <2>1. TypeOK' /\ SweepInv' /\ KeyInv' /\ ProbeInv' /\ RelayInv'
    BY TypeStep, SweepStep, KeyStep, ProbeStep, RelayStep DEF CacheInv
  <2>2. EntriesExpire'
    <3>1. /\ caching' \in BOOLEAN /\ now' \in Nat /\ nextSweep' \in Nat
          /\ TTL \in Nat /\ SweepPeriod \in Nat /\ \A e \in cache' : e.at \in 0..now'
      BY <2>1, WidthAssumption DEF TypeOK, Entries
    <3>2. ASSUME NEW e \in cache' PROVE now' - e.at < TTL + SweepPeriod
      <4>1. e.at \in Nat
        BY <3>1
      <4>2. nextSweep' - e.at < TTL + SweepPeriod
        BY <2>1 DEF SweepInv
      <4>3. now' <= nextSweep'
        BY <2>1, <3>1 DEF SweepInv
      <4> QED BY <3>1, <4>1, <4>2, <4>3
    <3> QED BY <3>2 DEF EntriesExpire
  <2> QED BY <2>1, <2>2 DEF CacheInv
<1> QED BY <1>1, InitCache, PTL DEF Spec

\* Two uplinks without a count never share an xtime.
THEOREM KeysCorrect == Spec => []SyntheticKeysDistinct
<1>1. CacheInv => SyntheticKeysDistinct
  BY DEF CacheInv, KeyInv
<1> QED BY <1>1, CacheCorrect, PTL

-----------------------------------------------------------------------------
(* The end of the lookup                                                   *)

\* The lookup ends with its only hit, or with the count in the xtime.
LEMMA ResolvedCases ==
    \/ \E h \in probe.hits : probe.hits = {h} /\ Resolved = h
    \/ Resolved = Fallback
<1>1. CASE \E h \in probe.hits : probe.hits = {h}
  BY <1>1 DEF Resolved
<1>2. CASE ~ \E h \in probe.hits : probe.hits = {h}
  BY <1>2 DEF Resolved
<1> QED BY <1>1, <1>2

\* The answer to a plain uplink carries its count, moved by the offset, below the flag.
LEMMA DirectTarget ==
    ASSUME CacheInv, probe.active, probe.uplink.context.kind = "direct"
    PROVE  \E s \in Int, d \in Nat, o \in Offsets :
              /\ probe.xtime = Xtime(s, d) /\ d < Flag
              /\ d = probe.uplink.context.tag + o * Sec
              /\ probe.window = o + probe.rxDelay
<1>1. /\ probe.uplink \in sent /\ probe.uplink.context \in Context
      /\ probe.uplink.context.tag \in 0..(CountMod - 1)
  BY RunningProbe, Records, ContextKinds DEF CacheInv
<1>2. PICK o \in Offsets : /\ probe.window = o + probe.rxDelay
                           /\ probe.xtime = probe.uplink.xtime + o * Sec
  BY DEF CacheInv, ProbeInv
<1>3. PICK s \in 0..(SessionMod - 1) : probe.uplink.xtime = Xtime(s, probe.uplink.context.tag)
  <2>1. Issued(probe.uplink.xtime, probe.uplink.context)
    BY <1>1 DEF CacheInv, KeyInv
  <2> QED BY <2>1 DEF Issued
<1>4. PICK d, t : d = probe.uplink.context.tag + o * Sec /\ t = probe.uplink.context.tag
  OBVIOUS
<1>5. o * Sec \in Nat /\ CountMod + o * Sec < Flag /\ CountMod \in Nat /\ Flag \in Nat
  <2>1. o \in Nat
    BY WidthAssumption
  <2> QED BY <2>1, Back, Widths, RangeAssumption
<1>6. d \in Nat /\ d < Flag /\ t \in Int /\ d = t + o * Sec
  BY <1>1, <1>4, <1>5
<1>7. probe.xtime = Xtime(s, d)
  <2>1. s * (2 * Flag) \in Int
    BY <1>5
  <2>2. probe.xtime = (s * (2 * Flag) + t) + o * Sec
    BY <1>2, <1>3, <1>4 DEF Xtime
  <2> QED BY <1>5, <1>6, <2>1, <2>2 DEF Xtime
<1> QED BY <1>2, <1>4, <1>6, <1>7

\* The count of the uplink, moved by one part of the window and delayed by the rest.
LEMMA WholeWindow ==
    ASSUME NEW t \in Int, NEW o \in Nat, NEW r \in Nat
    PROVE  (t + o * Sec) + r * Sec = t + (o + r) * Sec
<1>1. (o + r) * Sec = o * Sec + r * Sec /\ o * Sec \in Int /\ r * Sec \in Int
  BY Widths
<1> QED BY <1>1

\* Without a hit the low bits of the xtime give the count.
LEMMA FallbackInstant ==
    ASSUME NEW s \in Int, NEW d \in Nat, d < Flag, NEW r \in Nat
    PROVE  (CountOf(Xtime(s, d)) + r * Sec) % CountMod = (d + r * Sec) % CountMod
<1> DEFINE m == 2 * Flag
<1>1. m \in Nat \ {0} /\ d \in 0..(m - 1) /\ r * Sec \in Int /\ CountMod \in Nat \ {0}
  BY Widths, Back
<1> HIDE DEF m
<1>2. (s * m + d) % m = d
  BY <1>1, ModUnique
<1>3. CountOf(Xtime(s, d)) = d % CountMod
  BY <1>2 DEF CountOf, Xtime, m
<1>4. PICK b \in Int : b = r * Sec
  BY <1>1
<1>5. ((d % CountMod) + b) % CountMod = (d + b) % CountMod
  <2>1. d \in Int
    OBVIOUS
  <2> QED BY <1>1, <2>1, ModAdd
<1> QED BY <1>3, <1>4, <1>5

\* A hit for a plain uplink is plain too, and its count is the offset further back.
LEMMA DirectHit ==
    ASSUME TypeOK, NEW s \in Int, NEW d \in Nat, d < Flag, NEW p \in 0..MaxWindow,
           NEW c \in Context, Issued(Xtime(s, d) - p * Sec, c)
    PROVE  c.kind = "direct" /\ c.tag \in Nat /\ c.tag + p * Sec = d
<1>1. /\ CountMod \in Nat /\ Flag \in Nat /\ CountMod < Flag /\ MaxWindow * Sec \in Nat
      /\ CountMod + MaxWindow * Sec < Flag
      /\ MaxTime + MaxUplinks + MaxWindow * Sec < Flag
      /\ MaxTime \in Nat /\ MaxUplinks \in Nat
  BY Widths, WidthAssumption
<1>2. p * Sec \in Nat /\ p * Sec <= MaxWindow * Sec
  <2>1. (MaxWindow - p) * Sec \in Nat /\ p * Sec \in Nat
    BY WidthAssumption
  <2>2. (MaxWindow - p) * Sec = MaxWindow * Sec - p * Sec
    BY WidthAssumption
  <2> QED BY <1>1, <2>1, <2>2
<1>3. PICK e : e = d - p * Sec
  OBVIOUS
<1>4. e \in Int /\ e < Flag /\ e + MaxWindow * Sec >= 0
  BY <1>1, <1>2, <1>3
<1>5. Xtime(s, d) - p * Sec = Xtime(s, e)
  <2>1. s * (2 * Flag) \in Int
    BY <1>1
  <2> QED BY <1>2, <1>3, <2>1 DEF Xtime
<1>6. PICK t \in 0..(SessionMod - 1) :
        IF c.kind = "direct" THEN Xtime(s, e) = Xtime(t, c.tag)
        ELSE \E k \in 1..lastSynthetic : Xtime(s, e) = Xtime(t, Flag + k)
  BY <1>5 DEF Issued
<1>7. t \in Int
  BY WidthAssumption
<1>8. CASE c.kind = "direct"
  <2>1. PICK a : a = c.tag
    OBVIOUS
  <2>2. a \in 0..(CountMod - 1) /\ Xtime(s, e) = Xtime(t, a)
    BY <1>6, <1>8, <2>1, ContextKinds
  <2>3. a \in Int /\ e - a < 2 * Flag /\ a - e < 2 * Flag
    BY <1>1, <1>4, <2>2
  <2>4. e = a
    BY <1>4, <1>7, <2>2, <2>3, Decompose
  <2> QED BY <1>1, <1>2, <1>3, <1>8, <2>1, <2>2, <2>4
<1>9. CASE c.kind # "direct"
  <2>1. PICK k \in 1..lastSynthetic : Xtime(s, e) = Xtime(t, Flag + k)
    BY <1>6, <1>9
  <2>2. k \in Nat /\ k <= MaxTime + MaxUplinks /\ k >= 1
    BY <1>1, CounterFacts
  <2>3. PICK a : a = Flag + k
    OBVIOUS
  <2>4. a \in Int /\ e - a < 2 * Flag /\ a - e < 2 * Flag /\ a > e
    BY <1>1, <1>4, <2>2, <2>3
  <2>5. e = a
    BY <1>4, <1>7, <2>1, <2>3, <2>4, Decompose
  <2> QED BY <2>4, <2>5, <1>4
<1> QED BY <1>8, <1>9

\* The answer to a plain uplink is transmitted at its count plus the whole window,
\* however the lookup ends.
THEOREM DirectCorrect == Spec => []DirectOnTime
<1>1. CacheInv => DirectOnTime
  <2> SUFFICES ASSUME CacheInv, Probed, probe.uplink.context.kind = "direct"
               PROVE  /\ Resolved.context.kind = "direct"
                      /\ Instant(Resolved.context, Rx1Delay)
                           = Instant(probe.uplink.context, probe.window)
    BY DEF DirectOnTime
  <2>1. probe.active /\ TypeOK /\ probe.rxDelay \in Nat /\ probe.hits \subseteq Hits
        /\ probe.uplink.context.tag \in 0..(CountMod - 1)
    BY RunningProbe, Records, ContextKinds DEF Probed, CacheInv
  <2>2. PICK s \in Int, d \in Nat, o \in Offsets :
              /\ probe.xtime = Xtime(s, d) /\ d < Flag
              /\ d = probe.uplink.context.tag + o * Sec
              /\ probe.window = o + probe.rxDelay
    BY <2>1, DirectTarget
  <2>3. PICK t, r : t = probe.uplink.context.tag /\ r = probe.rxDelay
    OBVIOUS
  <2>4. o \in Nat /\ r \in Nat /\ t \in Int /\ d = t + o * Sec /\ probe.window = o + r
    BY <2>1, <2>2, <2>3, WidthAssumption
  <2>5. Instant(probe.uplink.context, probe.window) = (d + r * Sec) % CountMod
    <3>1. d + r * Sec = t + (o + r) * Sec
      BY <2>4, WholeWindow
    <3> QED BY <2>3, <2>4, <3>1 DEF Instant
  <2>6. CASE Resolved = Fallback
    <3>1. /\ Resolved.context.kind = "direct" /\ Resolved.offset = 0
          /\ Resolved.context.tag = CountOf(Xtime(s, d))
      BY <2>2, <2>6 DEF Fallback
    <3>2. Rx1Delay = r
      BY <2>1, <2>3, <3>1 DEF Rx1Delay
    <3>3. (CountOf(Xtime(s, d)) + r * Sec) % CountMod = (d + r * Sec) % CountMod
      BY <2>2, <2>4, FallbackInstant
    <3> QED BY <2>5, <3>1, <3>2, <3>3 DEF Instant
  <2>7. ASSUME NEW h \in probe.hits, Resolved = h
        PROVE  /\ Resolved.context.kind = "direct"
               /\ Instant(Resolved.context, Rx1Delay) = (d + r * Sec) % CountMod
    <3>1. PICK p, c : p = h.offset /\ c = h.context
      OBVIOUS
    <3>2. p \in 0..MaxWindow /\ c \in Context
      BY <2>1, <3>1 DEF Hits
    <3>3. Issued(Xtime(s, d) - p * Sec, c)
      BY <2>1, <2>2, <3>1 DEF CacheInv, ProbeInv
    <3>4. c.kind = "direct" /\ c.tag \in Nat /\ c.tag + p * Sec = d
      BY <2>1, <2>2, <3>2, <3>3, DirectHit
    <3>5. PICK a : a = c.tag
      OBVIOUS
    <3>6. p \in Nat
      BY <3>2, WidthAssumption
    <3>7. (a + p * Sec) + r * Sec = a + (p + r) * Sec
      <4>1. a \in Int
        BY <3>4, <3>5
      <4> QED BY <2>4, <3>6, <4>1, WholeWindow
    <3>8. Rx1Delay = p + r
      BY <2>3, <2>4, <2>7, <3>1, <3>6 DEF Rx1Delay
    <3> QED BY <2>7, <3>1, <3>4, <3>5, <3>7, <3>8 DEF Instant
  <2> QED BY <2>5, <2>6, <2>7, ResolvedCases
<1> QED BY <1>1, CacheCorrect, PTL

\* The answer to a relayed uplink goes to its relay and is scheduled against it, or is
\* not given to a relay at all.
THEOREM RelayCorrect == Spec => []RightRelay
<1>1. CacheInv => RightRelay
  <2> SUFFICES ASSUME CacheInv, Probed, probe.uplink.context.kind = "mesh",
                      now - probe.uplink.at < TTL, probe.window <= MaxWindow,
                      Resolved.context.kind = "mesh"
               PROVE  Resolved.context = probe.uplink.context /\ Rx1Delay = probe.window
    BY DEF RightRelay
  <2>1. /\ probe.active /\ probe.rxDelay \in RxDelays /\ probe.rxDelay \in Nat
        /\ probe.next \in Nat /\ probe.next > MaxOffset(probe.rxDelay)
    BY RunningProbe, WidthAssumption DEF Probed, CacheInv
  <2>2. Resolved # Fallback
    BY DEF Fallback
  <2>3. PICK h \in probe.hits : probe.hits = {h} /\ Resolved = h
    BY <2>2, ResolvedCases
  <2>4. caching
    BY <2>1, <2>3 DEF CacheInv, ProbeInv
  <2>5. PICK o \in Offsets : probe.window = o + probe.rxDelay
    BY <2>1 DEF CacheInv, ProbeInv
  <2>6. o \in Nat /\ MaxWindow \in Nat
    BY WidthAssumption
  <2>7. o <= MaxOffset(probe.rxDelay) /\ MaxOffset(probe.rxDelay) \in Nat
    BY <2>1, <2>5, <2>6, MaxOffsetFacts
  <2>8. probe.window - probe.rxDelay = o /\ o < probe.next
    BY <2>1, <2>5, <2>6, <2>7
  <2>9. h = [offset |-> o, context |-> probe.uplink.context]
    BY <2>1, <2>3, <2>4, <2>8 DEF CacheInv, RelayInv
  <2> QED BY <2>1, <2>3, <2>5, <2>6, <2>9 DEF Rx1Delay
<1> QED BY <1>1, CacheCorrect, PTL

=============================================================================
