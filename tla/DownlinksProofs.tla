---------------------------- MODULE DownlinksProofs ----------------------------
(***************************************************************************)
(* Proofs about Downlinks, RouterConfig and PullResp, for every table of   *)
(* data rates, every schedule and every width of an integer.               *)
(***************************************************************************)
EXTENDS PullResp, FiniteSetTheorems, SequenceTheorems, TLAPS, WellFoundedInduction

-----------------------------------------------------------------------------
(* The operators of RouterConfig                                           *)

\* The transmit power is one that a mesh relay accepts, is never above the
\* default of the region, and is above the limit of the LNS only to reach the
\* relay's minimum (resolve_tx_power_dbm).
THEOREM PowerInRange ==
    ASSUME NEW region, NEW eirp \in Int
    PROVE  /\ TxPower(region, eirp) \in MinTxPower..RegionDefault(region)
           /\ (eirp > 0 /\ Rounded(eirp) >= MinTxPower) => TxPower(region, eirp) <= Rounded(eirp)
  BY DEF TxPower, Capped, Rounded, RegionDefault, MinTxPower

\* A set of positive numbers that is not empty has a first member.
LEMMA FirstIsMember ==
    ASSUME NEW hits, hits \subseteq Nat, hits # {}
    PROVE  First(hits) \in hits
<1> DEFINE Less == {p \in Nat \X Nat : p[1] < p[2]}
<1>1. IsWellFoundedOn(Less, Nat)
  BY NatLessThanWellFounded DEF OpToRel
<1> HIDE DEF Less
<1>2. \E k \in hits : \A j \in hits : ~(<<j, k>> \in Less)
  BY <1>1, WFMin
<1>3. PICK k \in hits : \A j \in hits : ~(<<j, k>> \in Less)
  BY <1>2
<1>4. ASSUME NEW j \in hits PROVE k <= j
  <2>1. j \in Nat /\ k \in Nat
    OBVIOUS
  <2>2. ~(j < k)
    BY <1>3, <2>1 DEF Less
  <2> QED
    BY <2>1, <2>2
<1> QED
  BY <1>4 DEF First

\* What is stored of a table is a table of u32.
LEMMA ParsedType ==
    ASSUME NEW table \in Seq(Int \X Int)
    PROVE  Parsed(table) \in Seq(Row)
<1>1. \A n \in Int : n % Word \in 0..(Word - 1)
  BY RouterConfigAssumption
<1>2. \A k \in DOMAIN table : table[k][1] \in Int /\ table[k][2] \in Int
  OBVIOUS
<1>3. Len(table) \in Nat /\ DOMAIN table = 1..Len(table)
  OBVIOUS
<1>4. \A k \in 1..Len(table) :
         [sf |-> table[k][1] % Word, khz |-> table[k][2] % Word] \in Row
  BY <1>1, <1>2, <1>3 DEF Row
<1>5. Parsed(table) \in [1..Len(table) -> Row]
  BY <1>3, <1>4 DEF Parsed
<1> QED
  BY <1>3, <1>5, SeqDef

\* A number below the width is unchanged by it.
LEMMA SmallMod ==
    ASSUME NEW w \in Nat \ {0}, NEW n \in Nat, n < w
    PROVE  n % w = n
  OBVIOUS

\* The rate reported for an uplink has the modulation of the uplink
\* (modulation_to_dr and dr_to_sf_bw are inverse to each other on LoRa rates).
LEMMA RateOfDr ==
    ASSUME NEW drs \in Seq(Row), NEW radio \in Radios, radio.sf > 0, Hits(drs, radio) # {}
    PROVE  Rate(drs, DrOf(drs, radio)) = [sf |-> radio.sf, hz |-> radio.khz * 1000]
<1> DEFINE k == First(Hits(drs, radio))
<1>1. k \in Hits(drs, radio)
  <2>1. Hits(drs, radio) \subseteq Nat
    BY DEF Hits
  <2> QED
    BY <2>1, FirstIsMember
<1>2. radio.sf \in Nat /\ radio.khz \in Nat /\ radio.khz * 1000 < Word
  BY DownlinksAssumption
<1>3. drs[k].sf = radio.sf /\ drs[k].khz = radio.khz /\ k \in Nat
  BY <1>1, <1>2 DEF Hits
<1>4. DrOf(drs, radio) + 1 = k
  BY <1>3 DEF DrOf
<1>5. (radio.khz * 1000) % Word = radio.khz * 1000
  BY <1>2, RouterConfigAssumption, SmallMod
<1> QED
  BY <1>3, <1>4, <1>5 DEF Rate

-----------------------------------------------------------------------------
(* The frames                                                              *)

Ats == {"rx1", "rx1+1s", "gps", "now"}

\* A u32, and a power a configuration may hold.
LEMMA ConfigType ==
    ASSUME NEW rc \in Configs
    PROVE  /\ StateOf(rc) \in [drs : Seq(Row), power : PowerType]
           /\ StateOf(rc).power >= MinTxPower
<1>1. rc.drs \in Seq(Int \X Int) /\ rc.eirp \in Int
  BY DownlinksAssumption
<1>2. Parsed(rc.drs) \in Seq(Row)
  BY <1>1, ParsedType
<1>3. TxPower(rc.region, rc.eirp) \in MinTxPower..RegionDefault(rc.region)
  BY <1>1, PowerInRange
<1>4. RegionDefault(rc.region) \in {14, 16}
  BY DEF RegionDefault
<1>5. TxPower(rc.region, rc.eirp) \in MinTxPower..16
  BY <1>3, <1>4 DEF MinTxPower
<1> QED
  BY <1>2, <1>5 DEF StateOf, PowerType, MinTxPower

\* At most one item, at the given time, with a power if it is for a relay.
WindowOK(window, at) ==
    \/ window = <<>>
    \/ \E item \in ItemType : /\ window = <<item>> /\ item.at = at
                              /\ item.relay => item.power >= MinTxPower

\* A window is at most one item, as it was asked for.
LEMMA WindowType ==
    ASSUME TypeOK, NEW dr \in Int, NEW at \in Ats, NEW relay \in BOOLEAN, NEW power \in PowerType,
           relay => power >= MinTxPower
    PROVE  WindowOK(Window(dr, at, relay, power), at)
<1> SUFFICES ASSUME Window(dr, at, relay, power) # <<>>
             PROVE  WindowOK(Window(dr, at, relay, power), at)
  BY DEF WindowOK
<1> DEFINE item == [rate |-> Rate(config.drs, dr), at |-> at, relay |-> relay, power |-> power]
<1>1. Known(config.drs, dr) /\ Window(dr, at, relay, power) = <<item>>
  BY DEF Window
<1>2. config.drs \in Seq(Row) /\ dr + 1 \in 1..Len(config.drs)
  BY <1>1 DEF TypeOK, Known
<1>3. config.drs[dr + 1] \in Row
  BY <1>2
<1>4. (config.drs[dr + 1].khz * 1000) % Word \in 0..(Word - 1)
  BY <1>3, RouterConfigAssumption DEF Row
<1>5. item \in ItemType /\ item.at = at /\ (item.relay => item.power >= MinTxPower)
  BY <1>3, <1>4 DEF ItemType, Rate, Row, Ats
<1> QED
  BY <1>1, <1>5 DEF WindowOK

\* What the invariant says of one frame.
FrameOK(items) ==
    /\ items \in Seq(ItemType)
    /\ \A i \in DOMAIN items : items[i].relay => items[i].power >= MinTxPower
    /\ \A i, j \in DOMAIN items : i < j => items[i].at = "rx1" /\ items[j].at = "rx1+1s"

\* Frames of one window: class B, unsolicited class C, dnsched.
LEMMA SingleOK ==
    ASSUME NEW window, NEW at, WindowOK(window, at)
    PROVE  FrameOK(window)
<1>1. CASE window = <<>>
  BY <1>1 DEF FrameOK
<1>2. CASE window # <<>>
  <2>1. PICK item \in ItemType : window = <<item>> /\ (item.relay => item.power >= MinTxPower)
    BY <1>2 DEF WindowOK
  <2>2. /\ window \in Seq(ItemType) /\ DOMAIN window = {1}
        /\ window[1] = item
    BY <2>1
  <2> QED
    BY <2>1, <2>2 DEF FrameOK
<1> QED
  BY <1>1, <1>2

\* Frames of two windows: RX1 and RX2.
LEMMA PairOK ==
    ASSUME NEW first, NEW second, WindowOK(first, "rx1"), WindowOK(second, "rx1+1s")
    PROVE  FrameOK(first \o second)
<1>1. CASE first = <<>>
  <2>1. first \o second = second
    BY <1>1 DEF WindowOK
  <2> QED
    BY <2>1, SingleOK
<1>2. CASE second = <<>>
  <2>1. first \o second = first
    BY <1>2 DEF WindowOK
  <2> QED
    BY <2>1, SingleOK
<1>3. CASE first # <<>> /\ second # <<>>
  <2>1. PICK one \in ItemType : /\ first = <<one>> /\ one.at = "rx1"
                                /\ one.relay => one.power >= MinTxPower
    BY <1>3 DEF WindowOK
  <2>2. PICK two \in ItemType : /\ second = <<two>> /\ two.at = "rx1+1s"
                                /\ two.relay => two.power >= MinTxPower
    BY <1>3 DEF WindowOK
  <2>3. first \in Seq(ItemType) /\ second \in Seq(ItemType) /\ Len(first) = 1 /\ Len(second) = 1
    BY <2>1, <2>2
  <2>4. first \o second \in Seq(ItemType) /\ DOMAIN (first \o second) = 1..2
    <3>1. first \o second \in Seq(ItemType)
      BY <2>3
    <3>2. Len(first \o second) = 2
      BY <2>3, ConcatProperties
    <3> QED
      BY <3>1, <3>2
  <2>5. (first \o second)[1] = one /\ (first \o second)[2] = two
    BY <2>1, <2>2, <2>3
  <2> QED
    BY <2>1, <2>2, <2>4, <2>5 DEF FrameOK
<1> QED
  BY <1>1, <1>2, <1>3

\* Both windows after an uplink.
LEMMA WindowsOK ==
    ASSUME RadioInv, config # NoConfig, NEW m \in Message
    PROVE  FrameOK(Windows(m))
<1>1. m.rx1 \in Int /\ m.rx2 \in Int /\ m.mesh \in BOOLEAN
  BY DEF Message, Drs, NoDr
<1>2. Power(m) \in PowerType /\ (m.mesh => Power(m) >= MinTxPower)
  BY <1>1 DEF RadioInv, TypeOK, Power, PowerType
<1>3. WindowOK(Window(m.rx1, "rx1", m.mesh, Power(m)), "rx1")
  BY <1>1, <1>2, WindowType DEF Ats, RadioInv
<1>4. WindowOK(Window(m.rx2, "rx1+1s", m.mesh, Power(m)), "rx1+1s")
  BY <1>1, <1>2, WindowType DEF Ats, RadioInv
<1> QED
  BY <1>3, <1>4, PairOK DEF Windows

\* Every frame of a dnmsg.
LEMMA ItemsOK ==
    ASSUME RadioInv, config # NoConfig, NEW m \in Message, Items(m) # NoFrame
    PROVE  FrameOK(Items(m))
<1>1. TypeOK
  BY DEF RadioInv
<1>2. m.rx2 \in Int /\ m.dr \in Int
  BY DEF Message, Drs, NoDr
<1>3. \A dr \in Int, at \in Ats : FrameOK(Window(dr, at, FALSE, 0))
  <2>1. 0 \in PowerType
    BY DEF PowerType
  <2> QED
    BY <1>1, <2>1, WindowType, SingleOK
<1> QED
  BY <1>2, <1>3, WindowsOK DEF Items, Ats

-----------------------------------------------------------------------------
(* The invariant                                                           *)

ScheduleType == [entries : Seq(EntryType), next : Nat \ {0},
                 result : {"idle", "running", "error", "done"}]

ConfigOK == /\ config \in [drs : Seq(Row), power : PowerType]
            /\ config # NoConfig => config.power >= MinTxPower

FramesOK == frames \in Seq(Seq(ItemType)) /\ \A k \in DOMAIN frames : FrameOK(frames[k])

ReplyOK == reply \in [result : Outcome \cup {"none"}, dntxed : BOOLEAN]

\* The invariant, by the variable that a part is about.
LEMMA InvParts ==
    RadioInv <=> ConfigOK /\ UplinkInItsRate /\ schedule \in ScheduleType /\ FramesOK /\ ReplyOK
<1>1. frames \in Seq(Seq(ItemType)) => \A k \in DOMAIN frames : frames[k] \in Seq(ItemType)
  OBVIOUS
<1> QED
  BY <1>1 DEF RadioInv, TypeOK, ConfigOK, FramesOK, ReplyOK, ScheduleType, FrameOK,
              RelayAccepts, ItemsInTimeOrder

\* The same of the next state.
LEMMA InvPartsNext ==
    (ConfigOK' /\ UplinkInItsRate' /\ (schedule \in ScheduleType)' /\ FramesOK' /\ ReplyOK')
      => RadioInv'
<1>1. frames' \in Seq(Seq(ItemType)) => \A k \in DOMAIN frames' : frames'[k] \in Seq(ItemType)
  OBVIOUS
<1> QED
  BY <1>1 DEF RadioInv, TypeOK, ConfigOK, FramesOK, ReplyOK, ScheduleType, FrameOK,
              RelayAccepts, ItemsInTimeOrder

\* It holds in the initial state.
LEMMA InitInv == Init => RadioInv
<1> SUFFICES ASSUME Init PROVE RadioInv
  OBVIOUS
<1>1. ConfigOK
  BY DEF Init, NoConfig, ConfigOK, PowerType
<1>2. UplinkInItsRate
  BY DEF Init, UplinkInItsRate
<1>3. schedule \in ScheduleType
  BY DEF Init, NoSchedule, ScheduleType
<1>4. FramesOK
  BY DEF Init, FramesOK
<1>5. ReplyOK
  BY DEF Init, NoReply, ReplyOK
<1> QED
  BY <1>1, <1>2, <1>3, <1>4, <1>5, InvParts

\* Moving on in a schedule keeps its type.
LEMMA ScheduleMoves ==
    ASSUME schedule \in ScheduleType, Continue \/ Abort
    PROVE  (schedule \in ScheduleType)'
  BY DEF ScheduleType, Continue, Abort

\* A frame that is added is as the others.
LEMMA FrameAdded ==
    ASSUME FramesOK, NEW items, FrameOK(items), frames' = Append(frames, items)
    PROVE  FramesOK'
<1>1. frames \in Seq(Seq(ItemType)) /\ items \in Seq(ItemType)
  BY DEF FramesOK, FrameOK
<1>2. frames' \in Seq(Seq(ItemType))
  BY <1>1
<1>3. \A k \in DOMAIN frames' : \/ k \in DOMAIN frames /\ frames'[k] = frames[k]
                             \/ frames'[k] = items
  BY <1>1
<1> QED
  BY <1>2, <1>3 DEF FramesOK, FrameOK

\* Every action keeps the part of the invariant about the radio.
LEMMA StepInv == RadioInv /\ [Next]_vars => RadioInv'
<1> SUFFICES ASSUME RadioInv, [Next]_vars PROVE RadioInv'
  OBVIOUS
<1>0. ConfigOK /\ UplinkInItsRate /\ schedule \in ScheduleType /\ FramesOK /\ ReplyOK
  BY InvParts
<1>1. CASE Return
  <2>1. (schedule \in ScheduleType)'
    BY <1>1 DEF Return, NoSchedule, ScheduleType
  <2>2. FramesOK' /\ ReplyOK'
    BY <1>1 DEF Return, FramesOK, ReplyOK, NoReply
  <2> QED
    BY <1>0, <1>1, <2>1, <2>2, InvPartsNext DEF Return, ConfigOK, UplinkInItsRate
<1>2. CASE Disconnect
  <2>1. ConfigOK'
    BY <1>2 DEF Disconnect, NoConfig, ConfigOK, PowerType
  <2> QED
    BY <1>0, <1>2, <2>1, InvPartsNext DEF Disconnect, UplinkInItsRate, FramesOK, FrameOK, ReplyOK
<1>3. ASSUME NEW rc \in Configs, NEW taken \in BOOLEAN, Configure(rc, taken) PROVE RadioInv'
  <2>1. ConfigOK'
    BY <1>3, ConfigType DEF Configure, ConfigOK
  <2> QED
    BY <1>0, <1>3, <2>1, InvPartsNext DEF Configure, UplinkInItsRate, FramesOK, FrameOK, ReplyOK
<1>4. ASSUME NEW radio \in Radios, Uplink(radio) PROVE RadioInv'
  <2>1. UplinkInItsRate'
    BY <1>0, <1>4, RateOfDr DEF Uplink, UplinkInItsRate, ConfigOK
  <2> QED
    BY <1>0, <1>4, <2>1, InvPartsNext DEF Uplink, ConfigOK, FramesOK, FrameOK, ReplyOK
<1>5. ASSUME NEW m \in Message, NEW result \in Outcome, Dnmsg(m, result) PROVE RadioInv'
  <2>1. FrameOK(Items(m)) /\ frames' = <<Items(m)>>
    BY <1>5, ItemsOK DEF Dnmsg
  <2>2. FramesOK'
    BY <2>1 DEF FramesOK, FrameOK
  <2>3. ReplyOK'
    BY <1>5 DEF Dnmsg, Confirmed, ReplyOK
  <2> QED
    BY <1>0, <1>5, <2>2, <2>3, InvPartsNext DEF Dnmsg, ConfigOK, UplinkInItsRate
<1>6. ASSUME NEW entries \in Schedules, Dnsched(entries) PROVE RadioInv'
  <2>1. (schedule \in ScheduleType)'
    BY <1>6, DownlinksAssumption DEF Dnsched, ScheduleType
  <2> QED
    BY <1>0, <1>6, <2>1, InvPartsNext
       DEF Dnsched, ConfigOK, UplinkInItsRate, FramesOK, FrameOK, ReplyOK
<1>7. CASE SkipEntry
  BY <1>0, <1>7, ScheduleMoves, InvPartsNext
     DEF SkipEntry, ConfigOK, UplinkInItsRate, FramesOK, FrameOK, ReplyOK
<1>8. CASE BadEntry
  BY <1>0, <1>8, ScheduleMoves, InvPartsNext
     DEF BadEntry, ConfigOK, UplinkInItsRate, FramesOK, FrameOK, ReplyOK
<1>9. CASE ScheduleDone
  <2>1. (schedule \in ScheduleType)'
    BY <1>0, <1>9 DEF ScheduleDone, ScheduleType
  <2> QED
    BY <1>0, <1>9, <2>1, InvPartsNext
       DEF ScheduleDone, ConfigOK, UplinkInItsRate, FramesOK, FrameOK, ReplyOK
<1>10. ASSUME NEW result \in Outcome, SendEntry(result) PROVE RadioInv'
  <2>1. (schedule \in ScheduleType)'
    BY <1>0, <1>10, ScheduleMoves DEF SendEntry, Sent
  <2>2. Entry \in EntryType
    BY <1>0, <1>10 DEF SendEntry, Running, Entry, ScheduleType
  <2>3. Entry.dr \in Int /\ 0 \in PowerType /\ TypeOK
    BY <2>2 DEF EntryType, PowerType, RadioInv
  <2>4. FrameOK(Window(Entry.dr, "gps", FALSE, 0))
    BY <2>3, WindowType, SingleOK DEF Ats
  <2>5. FramesOK'
    BY <1>0, <1>10, <2>4, FrameAdded DEF SendEntry
  <2>6. ReplyOK'
    BY <1>10 DEF SendEntry, ReplyOK
  <2> QED
    BY <1>0, <1>10, <2>1, <2>5, <2>6, InvPartsNext DEF SendEntry, ConfigOK, UplinkInItsRate
<1>11. CASE UNCHANGED vars
  BY <1>0, <1>11, InvPartsNext
     DEF vars, ConfigOK, UplinkInItsRate, FramesOK, FrameOK, ReplyOK
<1> QED
  BY <1>1, <1>2, <1>3, <1>4, <1>5, <1>6, <1>7, <1>8, <1>9, <1>10, <1>11 DEF Next

-----------------------------------------------------------------------------
(* The schedule                                                            *)

\* The numbers up to n + 1.
LEMMA UpTo ==
    ASSUME NEW n \in Nat
    PROVE  1..(n + 1) = (1..n) \cup {n + 1}
  OBVIOUS

\* A set of numbers up to n is finite.
LEMMA CountUpTo ==
    ASSUME NEW n \in Nat, NEW T, T \subseteq 1..n
    PROVE  IsFiniteSet(T) /\ Cardinality(T) \in Nat
<1>1. IsFiniteSet(1..n)
  BY FS_Interval
<1>2. IsFiniteSet(T)
  BY <1>1, FS_Subset
<1> QED BY <1>2, FS_CardinalityType

\* Where the loop looked at an entry that makes no frame, the frames chosen are the same.
LEMMA NotChosen ==
    ASSUME NEW n \in Nat, ~Sendable(schedule.entries[n + 1])
    PROVE  Chosen(n + 1) = Chosen(n)
<1>1. \A k : k \in 1..(n + 1) <=> k \in 1..n \/ k = n + 1
  BY UpTo
<1>2. \A k : k \in Chosen(n + 1) <=> k \in Chosen(n)
  BY <1>1 DEF Chosen
<1> QED BY <1>2

\* An entry that makes a frame is one more.
LEMMA OneChosen ==
    ASSUME NEW n \in Nat, Sendable(schedule.entries[n + 1])
    PROVE  /\ Chosen(n + 1) = Chosen(n) \cup {n + 1}
           /\ Cardinality(Chosen(n + 1)) = Cardinality(Chosen(n)) + 1
<1>1. \A k : k \in 1..(n + 1) <=> k \in 1..n \/ k = n + 1
  BY UpTo
<1>2. \A k : k \in Chosen(n + 1) <=> k \in Chosen(n) \/ k = n + 1
  BY <1>1 DEF Chosen
<1>3. Chosen(n + 1) = Chosen(n) \cup {n + 1}
  BY <1>2
<1>4. Chosen(n) \subseteq 1..n /\ n + 1 \notin 1..n
  BY DEF Chosen
<1>5. IsFiniteSet(Chosen(n)) /\ n + 1 \notin Chosen(n)
  BY <1>4, CountUpTo
<1>6. Cardinality(Chosen(n) \cup {n + 1}) = Cardinality(Chosen(n)) + 1
  BY <1>5, FS_AddElement
<1> QED BY <1>3, <1>6

\* The frame of an entry has a number among those of the entries up to n.
LEMMA NumberOfChosen ==
    ASSUME NEW n \in Nat, NEW k \in Chosen(n)
    PROVE  Cardinality(Chosen(k)) \in 1..Cardinality(Chosen(n)) /\ Cardinality(Chosen(n)) \in Nat
<1>1. k \in 1..n /\ k \in Nat /\ k \in 1..k
  BY DEF Chosen
<1>2. Chosen(k) \subseteq Chosen(n) /\ k \in Chosen(k) /\ Chosen(n) \subseteq 1..n
  BY <1>1 DEF Chosen
<1>3. IsFiniteSet(Chosen(n)) /\ IsFiniteSet(Chosen(k))
  BY <1>2, CountUpTo, FS_Subset
<1>4. Cardinality(Chosen(k)) <= Cardinality(Chosen(n))
  BY <1>2, <1>3, FS_Subset
<1>5. Cardinality(Chosen(k)) \in Nat /\ Cardinality(Chosen(n)) \in Nat
  BY <1>3, FS_CardinalityType
<1>6. Cardinality(Chosen(k)) # 0
  BY <1>2, <1>3, FS_EmptySet
<1> QED BY <1>4, <1>5, <1>6

-----------------------------------------------------------------------------
(* The whole invariant                                                     *)

\* The rates of one frame are rows of the table in force.
RatesOf(items) ==
    \A i \in DOMAIN items : \E r \in DOMAIN config.drs : items[i].rate = Rate(config.drs, r - 1)

\* A window is one item in the rate of a row, or none.
LEMMA WindowRates ==
    ASSUME RadioInv, NEW dr \in Int, NEW at, NEW relay, NEW power
    PROVE  RatesOf(Window(dr, at, relay, power))
<1> DEFINE w == Window(dr, at, relay, power)
           item == [rate |-> Rate(config.drs, dr), at |-> at, relay |-> relay, power |-> power]
<1>1. config.drs \in Seq(Row)
  BY DEF RadioInv, TypeOK
<1>2. CASE w = <<>>
  BY <1>2 DEF RatesOf
<1>3. CASE w # <<>>
  <2>1. Known(config.drs, dr) /\ w = <<item>>
    BY <1>3 DEF Window
  <2>2. dr + 1 \in DOMAIN config.drs /\ (dr + 1) - 1 = dr
    BY <1>1, <2>1 DEF Known
  <2>3. DOMAIN w = {1} /\ w[1] = item
    BY <2>1
  <2>4. item.rate = Rate(config.drs, dr)
    OBVIOUS
  <2> HIDE DEF item, w
  <2>5. \A i \in DOMAIN w : w[i].rate = Rate(config.drs, (dr + 1) - 1)
    BY <2>2, <2>3, <2>4
  <2>6. RatesOf(w)
    BY <2>2, <2>5 DEF RatesOf
  <2> QED BY <2>6 DEF w
<1> QED BY <1>2, <1>3

\* Two windows, one after the other.
LEMMA PairRates ==
    ASSUME NEW first, NEW second, WindowOK(first, "rx1"), WindowOK(second, "rx1+1s"),
           RatesOf(first), RatesOf(second)
    PROVE  RatesOf(first \o second)
<1>1. first \in Seq(ItemType) /\ second \in Seq(ItemType)
  BY SingleOK DEF FrameOK
<1>2. /\ first \o second \in Seq(ItemType)
      /\ \A i \in DOMAIN (first \o second) :
            \/ i \in DOMAIN first /\ (first \o second)[i] = first[i]
            \/ i - Len(first) \in DOMAIN second /\ (first \o second)[i] = second[i - Len(first)]
  <2>1. /\ first \o second \in Seq(ItemType)
        /\ Len(first \o second) = Len(first) + Len(second)
        /\ \A i \in 1..(Len(first) + Len(second)) :
              (first \o second)[i] = IF i <= Len(first) THEN first[i] ELSE second[i - Len(first)]
    BY <1>1, ConcatProperties
  <2>2. Len(first) \in Nat /\ Len(second) \in Nat /\ DOMAIN first = 1..Len(first)
        /\ DOMAIN second = 1..Len(second)
        /\ DOMAIN (first \o second) = 1..(Len(first) + Len(second))
    BY <1>1, <2>1, LenProperties
  <2> QED BY <2>1, <2>2
<1> QED BY <1>2 DEF RatesOf

\* Every frame of a dnmsg.
LEMMA ItemsRates ==
    ASSUME RadioInv, config # NoConfig, NEW m \in Message, Items(m) # NoFrame
    PROVE  RatesOf(Items(m))
<1>1. m.rx1 \in Int /\ m.rx2 \in Int /\ m.dr \in Int /\ m.mesh \in BOOLEAN /\ TypeOK
  BY DEF Message, Drs, NoDr, RadioInv
<1>2. Power(m) \in PowerType /\ (m.mesh => Power(m) >= MinTxPower)
  BY <1>1 DEF RadioInv, TypeOK, Power, PowerType
<1>3. WindowOK(Window(m.rx1, "rx1", m.mesh, Power(m)), "rx1")
  BY <1>1, <1>2, WindowType DEF Ats
<1>4. WindowOK(Window(m.rx2, "rx1+1s", m.mesh, Power(m)), "rx1+1s")
  BY <1>1, <1>2, WindowType DEF Ats
<1>5. RatesOf(Windows(m))
  BY <1>1, <1>3, <1>4, WindowRates, PairRates DEF Windows
<1>6. RatesOf(Window(m.rx2, "now", FALSE, 0)) /\ RatesOf(Window(m.dr, "gps", FALSE, 0))
  BY <1>1, WindowRates
<1> QED BY <1>5, <1>6 DEF Items

\* A step that leaves the handler as it is.
LEMMA HandlerUnchanged ==
    ASSUME HandlerInv, UNCHANGED <<config, schedule, frames, reply>>
    PROVE  HandlerInv'
<1>1. (HandlerInv)'
  BY DEF HandlerInv, Idle, RatesInTable, ScheduleIsAPrefix, Chosen, Sendable, Looked, Window
<1> QED BY <1>1

\* Between two messages there is no frame and no schedule.
LEMMA HandlerIdle ==
    ASSUME schedule' = NoSchedule, frames' = <<>>
    PROVE  HandlerInv'
  BY DEF HandlerInv, RatesInTable, ScheduleIsAPrefix, NoSchedule

\* What the schedule's loop does with the entry it is at: the table and the entries stay,
\* so the entries chosen do.
LEMMA LoopFrame ==
    ASSUME RadioInv, HandlerInv, Running, config' = config,
           \/ Continue
           \/ Abort
    PROVE  /\ schedule.next \in Nat \ {0} /\ schedule.entries # <<>> /\ schedule.result = "running"
           /\ schedule'.entries = schedule.entries
           /\ Looked = schedule.next - 1 /\ Looked \in Nat /\ Looked' = schedule.next
           /\ schedule'.next <= Len(schedule.entries) + 1
           /\ schedule'.result \in {"running", "error"}
           /\ Entry \in EntryType /\ Entry = schedule.entries[schedule.next]
<1>1. /\ schedule \in ScheduleType /\ schedule.result = "running"
      /\ schedule.next \in Nat \ {0} /\ schedule.next <= Len(schedule.entries)
      /\ schedule.entries \in Seq(EntryType)
  BY DEF RadioInv, TypeOK, Running, ScheduleType
<1>2. schedule.entries # <<>> /\ Len(schedule.entries) \in Nat
      /\ schedule.next \in 1..Len(schedule.entries)
  BY <1>1
<1>3. Looked = schedule.next - 1 /\ Looked \in Nat
  BY <1>1 DEF Looked
<1>4. /\ schedule'.entries = schedule.entries
      /\ \/ schedule'.next = schedule.next + 1 /\ schedule'.result = "running"
         \/ schedule'.next = schedule.next /\ schedule'.result = "error"
  BY <1>1 DEF Continue, Abort, ScheduleType
<1>5. Looked' = schedule.next
  BY <1>1, <1>4 DEF Looked
<1>6. Entry \in EntryType /\ Entry = schedule.entries[schedule.next]
  BY <1>1, <1>2, ElementOfSeq DEF Entry
<1> QED BY <1>1, <1>2, <1>3, <1>4, <1>5, <1>6

\* An entry that makes no frame is passed or ends the loop.
LEMMA PassedKeeps ==
    ASSUME RadioInv, HandlerInv, Running, ~Sendable(Entry), Continue \/ Abort,
           UNCHANGED <<config, frames, reply>>
    PROVE  HandlerInv'
<1> DEFINE n == schedule.next - 1
<1>1. /\ n \in Nat /\ n + 1 = schedule.next /\ schedule.entries # <<>>
      /\ schedule'.entries = schedule.entries
      /\ Looked = n /\ Looked' = n + 1 /\ ~Sendable(schedule.entries[n + 1])
      /\ schedule'.next <= Len(schedule.entries) + 1
      /\ schedule'.result \in {"running", "error"} /\ schedule.result = "running"
  BY LoopFrame
<1> HIDE DEF n
<1>2. Chosen(n + 1) = Chosen(n)
  BY <1>1, NotChosen
<1>3. \A c : Chosen(c)' = Chosen(c)
  BY <1>1 DEF Chosen, Sendable
<1>4. /\ Len(frames) = Cardinality(Chosen(n))
      /\ \A k \in Chosen(n) :
            frames[Cardinality(Chosen(k))] = Window(schedule.entries[k].dr, "gps", FALSE, 0)
      /\ reply.result # "error"
  BY <1>1 DEF HandlerInv, ScheduleIsAPrefix
<1>5. \A dr : Window(dr, "gps", FALSE, 0)' = Window(dr, "gps", FALSE, 0)
  BY DEF Window
<1>6. ScheduleIsAPrefix'
  <2>1. /\ Len(frames') = Cardinality(Chosen(n + 1))
        /\ \A k \in Chosen(n + 1) :
              frames'[Cardinality(Chosen(k))] = Window(schedule.entries[k].dr, "gps", FALSE, 0)
    BY <1>2, <1>4
  <2> QED BY <1>1, <1>3, <1>4, <1>5, <2>1 DEF ScheduleIsAPrefix
<1>7. RatesInTable'
  BY DEF HandlerInv, RatesInTable
<1>8. ~Idle'
  BY <1>1 DEF Idle, NoSchedule
<1> QED BY <1>1, <1>6, <1>7, <1>8 DEF HandlerInv

\* What an element at the end makes of a sequence.
LEMMA AppendFacts ==
    ASSUME NEW S, NEW s \in Seq(S), NEW x \in S, NEW t, t = Append(s, x)
    PROVE  /\ Len(t) = Len(s) + 1 /\ t[Len(s) + 1] = x
           /\ \A j \in 1..Len(s) : t[j] = s[j]
           /\ DOMAIN s = 1..Len(s) /\ DOMAIN t = 1..(Len(s) + 1) /\ Len(s) \in Nat
<1>1. t \in Seq(S)
  BY AppendProperties
<1> QED BY <1>1, AppendProperties, LenProperties

\* An entry that makes a frame is given to the backend, and the loop goes on unless
\* that fails.
LEMMA SentKeeps ==
    ASSUME RadioInv, HandlerInv, Running, Sendable(Entry), NEW result \in Outcome,
           frames' = Append(frames, Window(Entry.dr, "gps", FALSE, 0)),
           reply' = [result |-> result, dntxed |-> FALSE],
           IF result = "error" THEN Abort ELSE Continue, config' = config
    PROVE  HandlerInv'
<1> DEFINE n == schedule.next - 1
           w == Window(Entry.dr, "gps", FALSE, 0)
<1>1. /\ n \in Nat /\ n + 1 = schedule.next /\ schedule.entries # <<>>
      /\ schedule'.entries = schedule.entries
      /\ Looked = n /\ Looked' = n + 1 /\ Sendable(schedule.entries[n + 1])
      /\ schedule'.next <= Len(schedule.entries) + 1
      /\ schedule'.result \in {"running", "error"} /\ schedule.result = "running"
      /\ Entry = schedule.entries[n + 1] /\ Entry.dr \in Int
  BY LoopFrame DEF EntryType
<1>2. result = "error" => schedule'.result = "error"
  BY LoopFrame DEF Abort, RadioInv, TypeOK
<1> HIDE DEF n
<1>3. /\ Chosen(n + 1) = Chosen(n) \cup {n + 1}
      /\ Cardinality(Chosen(n + 1)) = Cardinality(Chosen(n)) + 1
  BY <1>1, OneChosen
<1>4. \A c : Chosen(c)' = Chosen(c)
  BY <1>1 DEF Chosen, Sendable
<1>5. /\ Len(frames) = Cardinality(Chosen(n))
      /\ \A k \in Chosen(n) :
            frames[Cardinality(Chosen(k))] = Window(schedule.entries[k].dr, "gps", FALSE, 0)
  BY <1>1 DEF HandlerInv, ScheduleIsAPrefix
<1>6. \A dr : Window(dr, "gps", FALSE, 0)' = Window(dr, "gps", FALSE, 0)
  BY DEF Window
<1>7. FrameOK(w) /\ RatesOf(w)
  <2>1. 0 \in PowerType
    BY DEF PowerType
  <2> QED BY <1>1, <2>1, WindowType, SingleOK, WindowRates DEF RadioInv, Ats
<1>8. w = Window(schedule.entries[n + 1].dr, "gps", FALSE, 0)
  BY <1>1
<1> HIDE DEF w
<1>9. /\ Len(frames') = Len(frames) + 1 /\ frames'[Len(frames) + 1] = w
      /\ \A j \in 1..Len(frames) : frames'[j] = frames[j]
      /\ DOMAIN frames = 1..Len(frames) /\ DOMAIN frames' = 1..(Len(frames) + 1)
      /\ Len(frames) \in Nat
  <2>1. frames \in Seq(Seq(ItemType)) /\ w \in Seq(ItemType) /\ frames' = Append(frames, w)
    BY <1>7 DEF RadioInv, TypeOK, FrameOK, w
  <2> QED BY <2>1, AppendFacts
<1>10. \A k \in Chosen(n + 1) :
          frames'[Cardinality(Chosen(k))] = Window(schedule.entries[k].dr, "gps", FALSE, 0)
  <2> SUFFICES ASSUME NEW k \in Chosen(n + 1)
               PROVE  frames'[Cardinality(Chosen(k))] = Window(schedule.entries[k].dr, "gps", FALSE, 0)
    OBVIOUS
  <2>1. CASE k \in Chosen(n)
    <3>1. Cardinality(Chosen(k)) \in 1..Len(frames)
      BY <1>1, <1>5, <2>1, NumberOfChosen
    <3> QED BY <1>5, <1>9, <2>1, <3>1
  <2>2. CASE k = n + 1
    BY <1>3, <1>5, <1>8, <1>9, <2>2
  <2> QED BY <1>3, <2>1, <2>2
<1>11. ScheduleIsAPrefix'
  <2>1. Len(frames') = Cardinality(Chosen(n + 1))
    BY <1>3, <1>5, <1>9
  <2>2. reply'.result = "error" => schedule'.result = "error"
    BY <1>2
  <2> QED BY <1>1, <1>4, <1>6, <1>10, <2>1, <2>2 DEF ScheduleIsAPrefix
<1>12. RatesInTable'
  <2>1. \A j \in DOMAIN frames' : RatesOf(frames'[j])
    <3>1. \A j \in DOMAIN frames : RatesOf(frames[j])
      BY DEF HandlerInv, RatesInTable, RatesOf
    <3> SUFFICES ASSUME NEW j \in DOMAIN frames' PROVE RatesOf(frames'[j])
      OBVIOUS
    <3>2. CASE j \in DOMAIN frames
      <4>1. frames'[j] = frames[j]
        BY <1>9, <3>2
      <4> QED BY <3>1, <3>2, <4>1
    <3>3. CASE j = Len(frames) + 1
      <4>1. frames'[j] = w
        BY <1>9, <3>3
      <4> QED BY <1>7, <4>1
    <3>4. DOMAIN frames' = (DOMAIN frames) \cup {Len(frames) + 1}
      BY <1>9, UpTo
    <3> QED BY <3>2, <3>3, <3>4
  <2> QED BY <2>1 DEF RatesInTable, RatesOf
<1>13. ~Idle'
  BY <1>1 DEF Idle, NoSchedule
<1> QED BY <1>1, <1>11, <1>12, <1>13 DEF HandlerInv

\* What the handlers keep holds before the first message.
LEMMA InitHandler == Init => HandlerInv
  BY DEF Init, HandlerInv, RatesInTable, ScheduleIsAPrefix, NoSchedule

\* Every action keeps it.
LEMMA StepHandler == DownlinkInv /\ [Next]_vars => HandlerInv'
<1> SUFFICES ASSUME DownlinkInv, [Next]_vars PROVE HandlerInv'
  OBVIOUS
<1>0. RadioInv /\ HandlerInv /\ schedule \in ScheduleType
  BY DEF DownlinkInv, RadioInv, TypeOK, ScheduleType
<1>1. CASE Return
  BY <1>1, HandlerIdle DEF Return
<1>2. ASSUME Idle, UNCHANGED <<schedule, frames>> PROVE HandlerInv'
  BY <1>0, <1>2, HandlerIdle DEF HandlerInv, Idle
<1>3. CASE Disconnect
  BY <1>2, <1>3 DEF Disconnect
<1>4. ASSUME NEW rc \in Configs, NEW taken \in BOOLEAN, Configure(rc, taken) PROVE HandlerInv'
  BY <1>2, <1>4 DEF Configure
<1>5. ASSUME NEW radio \in Radios, Uplink(radio) PROVE HandlerInv'
  BY <1>0, <1>5, HandlerUnchanged DEF Uplink
<1>6. ASSUME NEW m \in Message, NEW result \in Outcome, Dnmsg(m, result) PROVE HandlerInv'
  <2>1. /\ config' = config /\ schedule' = NoSchedule /\ frames' = <<Items(m)>>
        /\ reply'.result = result /\ config # NoConfig /\ Items(m) # NoFrame
    BY <1>6 DEF Dnmsg, Idle
  <2>2. ~Idle'
    BY <2>1 DEF Idle, NoReply, Outcome
  <2>3. RatesOf(Items(m))
    BY <1>0, <2>1, ItemsRates
  <2>4. DOMAIN frames' = {1} /\ frames'[1] = Items(m)
    BY <2>1
  <2>5. RatesInTable'
    BY <2>1, <2>3, <2>4 DEF RatesInTable, RatesOf
  <2>6. ScheduleIsAPrefix' /\ schedule'.next <= Len(schedule'.entries) + 1
    BY <2>1 DEF ScheduleIsAPrefix, NoSchedule
  <2> QED BY <2>2, <2>5, <2>6 DEF HandlerInv
<1>7. ASSUME NEW entries \in Schedules, Dnsched(entries) PROVE HandlerInv'
  <2>1. /\ schedule' = [entries |-> entries, next |-> 1, result |-> "running"]
        /\ frames' = <<>> /\ reply' = NoReply /\ entries \in Seq(EntryType)
    BY <1>0, <1>7, DownlinksAssumption DEF Dnsched, Idle, HandlerInv
  <2>2. Looked' = 0 /\ Len(entries) \in Nat
    BY <2>1 DEF Looked
  <2>3. Chosen(0)' = {}
    BY DEF Chosen
  <2>4. ScheduleIsAPrefix'
    BY <2>1, <2>2, <2>3, FS_EmptySet DEF ScheduleIsAPrefix, NoReply
  <2> QED BY <2>1, <2>2, <2>4 DEF HandlerInv, RatesInTable, Idle, NoSchedule
<1>8. CASE SkipEntry
  <2>1. ~Sendable(Entry)
    <3>1. CASE Entry.pdu = "none"
      BY <3>1 DEF Sendable
    <3>2. CASE Rate(config.drs, Entry.dr).sf = 0
      BY <3>2 DEF Sendable
    <3> QED BY <1>8, <3>1, <3>2 DEF SkipEntry, Skipped
  <2> QED BY <1>0, <1>8, <2>1, PassedKeeps DEF SkipEntry
<1>9. CASE BadEntry
  <2>1. ~Sendable(Entry)
    BY <1>9 DEF BadEntry, Sendable
  <2> QED BY <1>0, <1>9, <2>1, PassedKeeps DEF BadEntry
<1>10. CASE ScheduleDone
  <2>1. /\ schedule'.entries = schedule.entries /\ schedule'.next = schedule.next
        /\ schedule'.result = "done" /\ schedule.result = "running"
        /\ UNCHANGED <<config, frames, reply>>
    BY <1>0, <1>10 DEF ScheduleDone, ScheduleType
  <2>2. Looked' = Looked
    BY <2>1 DEF Looked
  <2>3. \A n : Chosen(n)' = Chosen(n)
    BY <2>1 DEF Chosen, Sendable
  <2>4. \A dr : Window(dr, "gps", FALSE, 0)' = Window(dr, "gps", FALSE, 0)
    BY <2>1 DEF Window
  <2>5. ScheduleIsAPrefix'
    BY <1>0, <2>1, <2>2, <2>3, <2>4 DEF ScheduleIsAPrefix, HandlerInv
  <2>6. RatesInTable'
    BY <1>0, <2>1 DEF RatesInTable, HandlerInv
  <2>7. ~Idle'
    BY <2>1 DEF Idle, NoSchedule
  <2> QED BY <1>0, <2>1, <2>5, <2>6, <2>7 DEF HandlerInv
<1>11. ASSUME NEW result \in Outcome, SendEntry(result) PROVE HandlerInv'
  <2>1. Sendable(Entry)
    <3>1. Entry.pdu = "hex" /\ Known(config.drs, Entry.dr) /\ Rate(config.drs, Entry.dr).sf # 0
      BY <1>11 DEF SendEntry, Skipped
    <3>2. Entry \in EntryType
      BY <1>0, <1>11 DEF SendEntry, Running, Entry, ScheduleType
    <3>3. Entry.dr + 1 \in 1..Len(config.drs) /\ config.drs \in Seq(Row)
      BY <1>0, <3>1, <3>2 DEF Known, RadioInv, TypeOK, EntryType
    <3>4. config.drs[Entry.dr + 1] \in Row
      BY <3>3
    <3>5. Rate(config.drs, Entry.dr).sf \in Nat
      BY <3>4, RouterConfigAssumption DEF Rate, Row
    <3> QED BY <3>1, <3>5 DEF Sendable
  <2> QED BY <1>0, <1>11, <2>1, SentKeeps DEF SendEntry, Sent
<1>12. CASE UNCHANGED vars
  BY <1>0, <1>12, HandlerUnchanged DEF vars
<1> QED BY <1>1, <1>3, <1>4, <1>5, <1>6, <1>7, <1>8, <1>9, <1>10, <1>11, <1>12 DEF Next

\* The inductive invariant holds in every reachable state (the router_config in
\* force, the rate of the last uplink and every frame given to the backend).
THEOREM DownlinkCorrect == Spec => []DownlinkInv
  BY InitInv, StepInv, InitHandler, StepHandler, PTL DEF Spec, DownlinkInv

\* An answer in the rate reported for an uplink has the modulation of that uplink,
\* for every table, with whatever repeated rows (modulation_to_dr, dr_to_sf_bw).
THEOREM AnswerRateCorrect == Spec => []AnswerInRateOfUplink
<1>1. DownlinkInv => AnswerInRateOfUplink
  BY DEF DownlinkInv, RadioInv, UplinkInItsRate, AnswerInRateOfUplink
<1> QED
  BY <1>1, DownlinkCorrect, PTL

\* Every frame for a mesh relay has a power the relay accepts, for every
\* router_config (downlink_power, resolve_tx_power_dbm).
THEOREM RelayCorrect == Spec => []RelayAccepts
<1>1. DownlinkInv => RelayAccepts
  BY DEF DownlinkInv, RadioInv
<1> QED
  BY <1>1, DownlinkCorrect, PTL

\* RX1 comes before RX2 in every frame, and other frames have one item (the
\* builders of classes A, B and C and of schedules).
THEOREM ItemsOrderCorrect == Spec => []ItemsInTimeOrder
<1>1. DownlinkInv => ItemsInTimeOrder
  BY DEF DownlinkInv, RadioInv
<1> QED
  BY <1>1, DownlinkCorrect, PTL

\* A frame has no third item: what SemtechProofs assumes of frames (TwoItems) holds of
\* every frame that a dnmsg or a dnsched makes.
THEOREM TwoItemsCorrect == Spec => [](\A k \in DOMAIN frames : Len(frames[k]) <= 2)
<1>1. DownlinkInv => \A k \in DOMAIN frames : Len(frames[k]) <= 2
  <2> SUFFICES ASSUME DownlinkInv, NEW k \in DOMAIN frames, ~(Len(frames[k]) <= 2) PROVE FALSE
    OBVIOUS
  <2>1. frames[k] \in Seq(ItemType)
    BY DEF DownlinkInv, RadioInv, TypeOK
  <2>2. 2 \in DOMAIN frames[k] /\ 3 \in DOMAIN frames[k] /\ 1 \in DOMAIN frames[k]
    BY <2>1, LenProperties
  <2>3. frames[k][2].at = "rx1+1s" /\ frames[k][2].at = "rx1"
    BY <2>2 DEF DownlinkInv, RadioInv, ItemsInTimeOrder
  <2> QED BY <2>3
<1> QED
  BY <1>1, DownlinkCorrect, PTL

\* The frames of a schedule are those of its entries that make one, in order, up to
\* where the loop is or was left, for every schedule and every table (handle_dnsched).
THEOREM ScheduleCorrect == Spec => []ScheduleIsAPrefix
<1>1. DownlinkInv => ScheduleIsAPrefix
  BY DEF DownlinkInv, HandlerInv
<1> QED
  BY <1>1, DownlinkCorrect, PTL

-----------------------------------------------------------------------------
(* The txpk of an item                                                     *)

\* A remainder is the only number below m that is left by a multiple of m.
LEMMA OneRemainder ==
    ASSUME NEW m \in Nat \ {0}, NEW d \in Int, NEW x \in 0..(m - 1), NEW y \in 0..(m - 1),
           m * d = x - y
    PROVE  x = y
<1>1. CASE d >= 1
  <2>1. m * (d - 1) >= 0 /\ m * (d - 1) = m * d - m
    BY <1>1
  <2> QED BY <2>1
<1>2. CASE d <= -1
  <2>1. m * (-d - 1) >= 0 /\ m * (-d - 1) = -(m * d) - m
    BY <1>2
  <2> QED BY <2>1
<1>3. CASE d = 0
  BY <1>3
<1> QED BY <1>1, <1>2, <1>3

\* What % and \div give.
LEMMA DivMod ==
    ASSUME NEW m \in Nat \ {0}, NEW a \in Int
    PROVE  a % m \in 0..(m - 1) /\ a \div m \in Int /\ a = m * (a \div m) + (a % m)
  OBVIOUS

\* A number added before or after the remainder is taken gives the same.
LEMMA ModPlus ==
    ASSUME NEW m \in Nat \ {0}, NEW a \in Int, NEW b \in Int
    PROVE  (a + b) % m = ((a % m) + b) % m
<1> DEFINE r == a % m
           q == a \div m
           x == (a + b) % m
           y == (r + b) % m
           p == (a + b) \div m
           o == (r + b) \div m
<1>1. r \in 0..(m - 1) /\ q \in Int /\ a = m * q + r
  BY DivMod
<1> HIDE DEF r, q
<1>2. x \in 0..(m - 1) /\ p \in Int /\ a + b = m * p + x
  <2>1. a + b \in Int
    OBVIOUS
  <2> QED BY <2>1, DivMod
<1>3. y \in 0..(m - 1) /\ o \in Int /\ r + b = m * o + y
  <2>1. r + b \in Int
    BY <1>1
  <2> QED BY <2>1, DivMod
<1> HIDE DEF x, y, p, o
<1>4. m * (q + o - p) = m * q + m * o - m * p
  BY <1>1, <1>2, <1>3
<1>5. m * q \in Int /\ m * o \in Int /\ m * p \in Int /\ q + o - p \in Int
  BY <1>1, <1>2, <1>3
<1>6. m * (q + o - p) = x - y
  BY <1>1, <1>2, <1>3, <1>4, <1>5
<1>7. x = y
  BY <1>2, <1>3, <1>5, <1>6, OneRemainder
<1> QED BY <1>7 DEF x, y, r

\* A time in microseconds, rounded down to the millisecond.
LEMMA Milliseconds ==
    ASSUME NEW us \in Int
    PROVE  us - 1000 < (us \div 1000) * 1000 /\ (us \div 1000) * 1000 <= us
  OBVIOUS

\* A bandwidth that fits is the one of the row.
LEMMA BandwidthBack ==
    ASSUME NEW khz \in Nat, khz * 1000 < Word
    PROVE  ((khz * 1000) % Word) \div 1000 = khz
<1>1. (khz * 1000) % Word = khz * 1000
  BY RouterConfigAssumption, SmallMod
<1>2. (khz * 1000) \div 1000 = khz
  OBVIOUS
<1> QED BY <1>1, <1>2

\* An item has one time of transmission: at once, a count or a gpstime.
LEMMA OneTime ==
    ASSUME NEW item \in ItemType, NEW t \in Timed
    PROVE  /\ (item.at = "gps" /\ t.gps < 0) \/ Encodes(item, t)
           /\ Cardinality(Txpk(item, t).tmst) + Cardinality(Txpk(item, t).tmms)
                + (IF Txpk(item, t).imme THEN 1 ELSE 0) = 1
           /\ \A ms \in Txpk(item, t).tmms : t.gps - 1000 < ms * 1000 /\ ms * 1000 <= t.gps
           /\ Txpk(item, t).powe = item.power
<1>1. /\ item.at \in {"rx1", "rx1+1s", "gps", "now"} /\ item.relay \in BOOLEAN
      /\ item.power \in PowerType /\ t.gps \in Int
  BY PullRespAssumption DEF ItemType, Timed
<1>2. (item.at = "gps" /\ t.gps < 0) \/ Encodes(item, t)
  BY <1>1 DEF Encodes, ContextLen, After
<1>3. /\ Txpk(item, t).tmst = IF After(item) THEN {Tmst(item, t)} ELSE {}
      /\ Txpk(item, t).tmms = IF item.at = "gps" THEN {t.gps \div 1000} ELSE {}
      /\ Txpk(item, t).imme = (item.at = "now")
      /\ Txpk(item, t).powe = item.power % 256
  BY DEF Txpk
<1>4. Cardinality({}) = 0 /\ \A x : Cardinality({x}) = 1
  BY FS_EmptySet, FS_Singleton
<1>5. Cardinality(Txpk(item, t).tmst) + Cardinality(Txpk(item, t).tmms)
        + (IF Txpk(item, t).imme THEN 1 ELSE 0) = 1
  <2>1. CASE After(item)
    <3>1. item.at # "gps" /\ item.at # "now"
      BY <2>1 DEF After
    <3>2. Txpk(item, t).tmst = {Tmst(item, t)} /\ Txpk(item, t).tmms = {}
      BY <1>3, <2>1, <3>1
    <3>3. Txpk(item, t).imme <=> FALSE
      BY <1>3, <2>1, <3>1
    <3>4. /\ Cardinality(Txpk(item, t).tmst) = 1
          /\ Cardinality(Txpk(item, t).tmms) = 0
      BY <1>4, <3>2
    <3> QED BY <3>3, <3>4
  <2>2. CASE item.at = "gps"
    <3>1. ~After(item)
      BY <2>2 DEF After
    <3> DEFINE ms == t.gps \div 1000
    <3>2. Txpk(item, t).tmst = {} /\ Txpk(item, t).tmms = {ms}
      BY <1>3, <2>2, <3>1
    <3> HIDE DEF ms
    <3>3. Txpk(item, t).imme <=> FALSE
      BY <1>3, <2>2, <3>1
    <3>4. /\ Cardinality(Txpk(item, t).tmst) = 0
          /\ Cardinality(Txpk(item, t).tmms) = 1
      BY <1>4, <3>2
    <3> QED BY <3>3, <3>4
  <2>3. CASE item.at = "now"
    <3>1. ~After(item)
      BY <2>3 DEF After
    <3>2. Txpk(item, t).tmst = {} /\ Txpk(item, t).tmms = {}
      BY <1>3, <2>3, <3>1
    <3>3. Txpk(item, t).imme <=> TRUE
      BY <1>3, <2>3, <3>1
    <3>4. /\ Cardinality(Txpk(item, t).tmst) = 0
          /\ Cardinality(Txpk(item, t).tmms) = 0
      BY <1>4, <3>2
    <3> QED BY <3>3, <3>4
  <2> QED BY <1>1, <2>1, <2>2, <2>3 DEF After
<1>6. \A ms \in Txpk(item, t).tmms : t.gps - 1000 < ms * 1000 /\ ms * 1000 <= t.gps
  BY <1>1, <1>3, Milliseconds
<1>7. item.power % 256 = item.power
  BY <1>1 DEF PowerType, MinTxPower
<1> QED BY <1>2, <1>3, <1>5, <1>6, <1>7

\* RX2 is one second after RX1, modulo the counter.
LEMMA OneSecondApart ==
    ASSUME NEW one \in ItemType, NEW two \in ItemType, NEW t \in Timed,
           one.at = "rx1", two.at = "rx1+1s"
    PROVE  \A a \in Txpk(one, t).tmst, b \in Txpk(two, t).tmst : b = (a + Second) % CountMod
<1> DEFINE sum == t.count + t.delay * Second
<1>1. t.count \in Int /\ t.delay \in Int /\ Second \in Int /\ CountMod \in Nat \ {0}
  <2>1. t.count \in Counts /\ t.delay \in Delays
    BY DEF Timed
  <2>2. t.count \in 0..(CountMod - 1) /\ t.delay \in Nat
    BY <2>1, PullRespAssumption
  <2> QED BY <2>2, PullRespAssumption
<1>2. /\ (t.delay + 0) * Second = t.delay * Second
      /\ (t.delay + 1) * Second = t.delay * Second + Second /\ t.delay * Second \in Int
  BY <1>1
<1>3. Tmst(one, t) = sum % CountMod
  BY <1>2 DEF Tmst
<1>4. Tmst(two, t) = (sum + Second) % CountMod
  <2>1. t.count + (t.delay * Second + Second) = sum + Second
    BY <1>1, <1>2
  <2>2. two.at # "rx1"
    OBVIOUS
  <2>3. Tmst(two, t) = (t.count + (t.delay + 1) * Second) % CountMod
    BY <2>2 DEF Tmst
  <2> HIDE DEF sum
  <2> QED BY <1>2, <2>1, <2>3
<1>5. sum \in Int
  BY <1>1, <1>2
<1> HIDE DEF sum
<1>6. (sum + Second) % CountMod = ((sum % CountMod) + Second) % CountMod
  BY <1>1, <1>5, ModPlus
<1>7. Txpk(one, t).tmst = {Tmst(one, t)} /\ Txpk(two, t).tmst = {Tmst(two, t)}
  BY DEF Txpk, After
<1> QED BY <1>3, <1>4, <1>6, <1>7

\* The data rate of the txpk is a row of the table in force.
LEMMA RowOfTable ==
    ASSUME RadioInv, NEW item, NEW t, NEW r \in DOMAIN config.drs,
           item.rate = Rate(config.drs, r - 1)
    PROVE  /\ Txpk(item, t).datr[1] = config.drs[r].sf
           /\ config.drs[r].khz * 1000 < Word => Txpk(item, t).datr[2] = config.drs[r].khz
<1>1. config.drs[r] \in Row /\ (r - 1) + 1 = r
  BY DEF RadioInv, TypeOK
<1>2. config.drs[r].khz \in Nat
  BY <1>1, RouterConfigAssumption DEF Row
<1>3. /\ item.rate.sf = config.drs[r].sf
      /\ item.rate.hz = (config.drs[r].khz * 1000) % Word
  BY <1>1 DEF Rate
<1>4. /\ Txpk(item, t).datr[1] = item.rate.sf
      /\ Txpk(item, t).datr[2] = item.rate.hz \div 1000
  BY DEF Txpk
<1> QED BY <1>2, <1>3, <1>4, BandwidthBack

\* Every item of a frame becomes a PULL_RESP with one time, for every count and delay
\* however the counter wraps, and every table (from_proto with what Downlinks gives it).
THEOREM EncodeCorrect == Spec => []FramesEncode
<1>1. DownlinkInv => FramesEncode
  <2> SUFFICES ASSUME DownlinkInv, NEW k \in DOMAIN frames, NEW t \in Timed
               PROVE  LET Of(i) == Txpk(frames[k][i], t)
                      IN  /\ \A i \in DOMAIN frames[k] :
                                /\ (frames[k][i].at = "gps" /\ t.gps < 0) \/ Encodes(frames[k][i], t)
                                /\ Cardinality(Of(i).tmst) + Cardinality(Of(i).tmms)
                                      + (IF Of(i).imme THEN 1 ELSE 0) = 1
                                /\ \A ms \in Of(i).tmms : t.gps - 1000 < ms * 1000 /\ ms * 1000 <= t.gps
                                /\ Of(i).powe = frames[k][i].power
                                /\ \E r \in DOMAIN config.drs :
                                      /\ Of(i).datr[1] = config.drs[r].sf
                                      /\ config.drs[r].khz * 1000 < Word
                                            => Of(i).datr[2] = config.drs[r].khz
                          /\ \A i, j \in DOMAIN frames[k] :
                                i < j => \A a \in Of(i).tmst, b \in Of(j).tmst :
                                            b = (a + Second) % CountMod
    BY DEF FramesEncode
  <2> DEFINE Of(i) == Txpk(frames[k][i], t)
  <2>1. \A i \in DOMAIN frames[k] : frames[k][i] \in ItemType
    BY DEF DownlinkInv, RadioInv, TypeOK
  <2>2. ASSUME NEW i \in DOMAIN frames[k]
        PROVE  \E r \in DOMAIN config.drs :
                  /\ Of(i).datr[1] = config.drs[r].sf
                  /\ config.drs[r].khz * 1000 < Word => Of(i).datr[2] = config.drs[r].khz
    <3>1. PICK r \in DOMAIN config.drs : frames[k][i].rate = Rate(config.drs, r - 1)
      BY DEF DownlinkInv, HandlerInv, RatesInTable
    <3> QED BY <3>1, RowOfTable DEF DownlinkInv
  <2>3. ASSUME NEW i \in DOMAIN frames[k], NEW j \in DOMAIN frames[k], i < j
        PROVE  \A a \in Of(i).tmst, b \in Of(j).tmst : b = (a + Second) % CountMod
    <3>1. frames[k][i].at = "rx1" /\ frames[k][j].at = "rx1+1s"
      BY <2>3 DEF DownlinkInv, RadioInv, ItemsInTimeOrder
    <3> QED BY <2>1, <3>1, OneSecondApart
  <2>4. ASSUME NEW i \in DOMAIN frames[k]
        PROVE  /\ (frames[k][i].at = "gps" /\ t.gps < 0) \/ Encodes(frames[k][i], t)
               /\ Cardinality(Of(i).tmst) + Cardinality(Of(i).tmms)
                     + (IF Of(i).imme THEN 1 ELSE 0) = 1
               /\ \A ms \in Of(i).tmms : t.gps - 1000 < ms * 1000 /\ ms * 1000 <= t.gps
               /\ Of(i).powe = frames[k][i].power
    BY <2>1, OneTime
  <2> HIDE DEF Of
  <2>5. /\ \A i \in DOMAIN frames[k] :
              /\ (frames[k][i].at = "gps" /\ t.gps < 0) \/ Encodes(frames[k][i], t)
              /\ Cardinality(Of(i).tmst) + Cardinality(Of(i).tmms)
                    + (IF Of(i).imme THEN 1 ELSE 0) = 1
              /\ \A ms \in Of(i).tmms : t.gps - 1000 < ms * 1000 /\ ms * 1000 <= t.gps
              /\ Of(i).powe = frames[k][i].power
              /\ \E r \in DOMAIN config.drs :
                    /\ Of(i).datr[1] = config.drs[r].sf
                    /\ config.drs[r].khz * 1000 < Word => Of(i).datr[2] = config.drs[r].khz
        /\ \A i, j \in DOMAIN frames[k] :
              i < j => \A a \in Of(i).tmst, b \in Of(j).tmst : b = (a + Second) % CountMod
    BY <2>2, <2>3, <2>4
  <2> QED BY <2>5 DEF Of
<1> QED
  BY <1>1, DownlinkCorrect, PTL

-----------------------------------------------------------------------------
(* Recursion over a sequence, as in UplinkFramesProofs                     *)

\* Induction: a set of numbers that holds 0 and every successor holds them all.
LEMMA SetInduction ==
    ASSUME NEW T \in SUBSET Nat, 0 \in T, \A n \in T : n + 1 \in T
    PROVE  T = Nat
<1>1. PICK R : IsWellFoundedOn(R, Nat) /\ \A x, y \in Nat : x < y => <<x, y>> \in R
  <2> DEFINE R == OpToRel(<, Nat)
  <2>1. IsWellFoundedOn(R, Nat)
    BY NatLessThanWellFounded, Zenon
  <2>2. \A x, y \in Nat : x < y => <<x, y>> \in R
    BY Zenon DEF OpToRel
  <2> HIDE DEF R
  <2> QED BY <2>1, <2>2
<1>2. ASSUME Nat \ T # {} PROVE FALSE
  <2>1. PICK x \in Nat \ T : \A y \in Nat \ T : ~ (<<y, x>> \in R)
    BY <1>1, <1>2, WFMin
  <2>2. x \in Nat /\ x # 0
    BY <2>1
  <2>3. x - 1 \in Nat /\ x - 1 < x /\ (x - 1) + 1 = x
    BY <2>2
  <2>4. x - 1 \in T
    BY <1>1, <2>1, <2>2, <2>3
  <2> QED BY <2>1, <2>3, <2>4
<1> QED BY <1>2

\* f holds the concatenations of the first 1..n of the sequences S.
Partial(S, f, n) ==
    f = [i \in 1..n |-> IF i = 1 THEN S[i] ELSE f[i - 1] \o S[i]]

\* There is such a function for every n.
LEMMA PartialExists ==
    ASSUME NEW S, NEW m \in Nat
    PROVE  \E f : Partial(S, f, m)
<1> DEFINE T == {n \in Nat : \E f : Partial(S, f, n)}
<1>1. 0 \in T
  <2>1. Partial(S, [i \in 1..0 |-> 0], 0)
    BY DEF Partial
  <2> QED BY <2>1
<1>2. ASSUME NEW n \in T PROVE n + 1 \in T
  <2>1. PICK f : Partial(S, f, n)
    OBVIOUS
  <2>2. n \in Nat /\ n + 1 \in Nat
    OBVIOUS
  <2> DEFINE next == IF n = 0 THEN S[1] ELSE f[n] \o S[n + 1]
             g == [i \in 1..(n + 1) |-> IF i = n + 1 THEN next ELSE f[i]]
  <2>3. \A i \in 1..n : f[i] = IF i = 1 THEN S[i] ELSE f[i - 1] \o S[i]
    BY <2>1 DEF Partial
  <2>4. ASSUME NEW i \in 1..(n + 1)
        PROVE  g[i] = IF i = 1 THEN S[i] ELSE g[i - 1] \o S[i]
    <3>1. CASE i = n + 1
      <4>1. g[i] = next
        BY <3>1
      <4>2. n # 0 => n \in 1..(n + 1) /\ n # n + 1
        BY <2>2
      <4>3. n # 0 => g[n] = f[n]
        BY <4>2
      <4> HIDE DEF g
      <4>4. n # 0 => g[i - 1] = f[n] /\ i # 1
        BY <2>2, <3>1, <4>3
      <4> QED BY <2>2, <3>1, <4>1, <4>4
    <3>2. CASE i # n + 1
      <4>1. i \in 1..n /\ (i # 1 => i - 1 \in 1..n /\ i - 1 \in 1..(n + 1) /\ i - 1 # n + 1)
        BY <2>2, <3>2
      <4>2. g[i] = f[i] /\ (i # 1 => g[i - 1] = f[i - 1])
        BY <3>2, <4>1
      <4> HIDE DEF g
      <4> QED BY <2>3, <4>1, <4>2
    <3> QED BY <3>1, <3>2
  <2>5. g = [i \in 1..(n + 1) |-> g[i]]
    OBVIOUS
  <2> HIDE DEF g
  <2>6. Partial(S, g, n + 1)
    BY <2>4, <2>5 DEF Partial
  <2> QED BY <2>2, <2>6
<1> HIDE DEF T
<1>3. T = Nat
  BY <1>1, <1>2, SetInduction DEF T
<1> QED BY <1>3 DEF T

\* FlattenSeq ends with the concatenation of all.
LEMMA FlattenSeqIs ==
    ASSUME NEW S, Len(S) \in Nat \ {0}
    PROVE  \E f : Partial(S, f, Len(S)) /\ FlattenSeq(S) = f[Len(S)]
<1> DEFINE f == CHOOSE g : Partial(S, g, Len(S))
<1>1. \E g : Partial(S, g, Len(S))
  BY PartialExists
<1>2. Partial(S, f, Len(S))
  BY <1>1, Zenon
<1>3. Len(S) # 0
  OBVIOUS
<1>4. FlattenSeq(S) = f[Len(S)]
  BY <1>3, Zenon DEF FlattenSeq, Partial
<1> QED BY <1>2, <1>4

\* No value occurs twice.
Injective(s) == \A i, j \in DOMAIN s : s[i] = s[j] => i = j

\* Two sequences that share no value, one behind the other.
LEMMA ConcatDistinct ==
    ASSUME NEW V, NEW s \in Seq(V), NEW t \in Seq(V), Injective(s), Injective(t),
           \A a \in DOMAIN s, b \in DOMAIN t : s[a] # t[b]
    PROVE  /\ s \o t \in Seq(V) /\ Injective(s \o t)
           /\ \A i \in DOMAIN (s \o t) : \/ \E a \in DOMAIN s : (s \o t)[i] = s[a]
                                         \/ \E b \in DOMAIN t : (s \o t)[i] = t[b]
<1> DEFINE u == s \o t
<1>1. /\ Len(s) \in Nat /\ DOMAIN s = 1..Len(s)
      /\ Len(t) \in Nat /\ DOMAIN t = 1..Len(t)
  BY LenProperties
<1>2. /\ u \in Seq(V) /\ Len(u) = Len(s) + Len(t)
      /\ \A i \in 1..(Len(s) + Len(t)) : u[i] = IF i <= Len(s) THEN s[i] ELSE t[i - Len(s)]
  BY ConcatProperties
<1> HIDE DEF u
<1>3. DOMAIN u = 1..(Len(s) + Len(t))
  BY <1>2, LenProperties
<1>4. ASSUME NEW i \in DOMAIN u
      PROVE  \/ i \in DOMAIN s /\ u[i] = s[i]
             \/ i - Len(s) \in DOMAIN t /\ i > Len(s) /\ u[i] = t[i - Len(s)]
  <2>1. i \in 1..(Len(s) + Len(t)) /\ i \in Int
    BY <1>3
  <2>2. CASE i <= Len(s)
    BY <1>1, <1>2, <2>1, <2>2
  <2>3. CASE ~(i <= Len(s))
    <3>1. i - Len(s) \in DOMAIN t /\ i > Len(s)
      BY <1>1, <2>1, <2>3
    <3> QED BY <1>2, <2>1, <2>3, <3>1
  <2> QED BY <2>2, <2>3
<1>5. ASSUME NEW i \in DOMAIN u, NEW j \in DOMAIN u, u[i] = u[j] PROVE i = j
  <2>1. i \in Int /\ j \in Int
    BY <1>3
  <2>2. CASE i \in DOMAIN s /\ u[i] = s[i]
    <3>1. j \in DOMAIN s /\ u[j] = s[j]
      BY <1>4, <1>5, <2>2
    <3> QED BY <1>5, <2>2, <3>1 DEF Injective
  <2>3. CASE i - Len(s) \in DOMAIN t /\ i > Len(s) /\ u[i] = t[i - Len(s)]
    <3>1. j - Len(s) \in DOMAIN t /\ u[j] = t[j - Len(s)]
      BY <1>4, <1>5, <2>3
    <3>2. i - Len(s) = j - Len(s)
      BY <1>5, <2>3, <3>1 DEF Injective
    <3> QED BY <1>1, <2>1, <3>2
  <2> QED BY <1>4, <2>2, <2>3
<1>6. Injective(u)
  BY <1>5 DEF Injective
<1>7. \A i \in DOMAIN u : \/ \E a \in DOMAIN s : u[i] = s[a]
                          \/ \E b \in DOMAIN t : u[i] = t[b]
  BY <1>4
<1> QED BY <1>2, <1>6, <1>7 DEF u

\* The first n sequences have the value.
Among(S, n, x) == \E k \in 1..n : \E a \in DOMAIN S[k] : x = S[k][a]

\* Sequences without a value twice, and no two with the same value.
Pieces(V, S, m) ==
    /\ \A k \in 1..m : S[k] \in Seq(V) /\ Injective(S[k])
    /\ \A k, l \in 1..m : k # l => \A a \in DOMAIN S[k], b \in DOMAIN S[l] : S[k][a] # S[l][b]

\* Their concatenation has no value twice either, and no value but theirs.
Joined(V, S, n, s) == s \in Seq(V) /\ Injective(s) /\ \A i \in DOMAIN s : Among(S, n, s[i])

\* One more behind the first n.
LEMMA JoinedNext ==
    ASSUME NEW V, NEW S, NEW m \in Nat, Pieces(V, S, m), NEW n \in Nat, n + 1 \in 1..m,
           NEW s, Joined(V, S, n, s)
    PROVE  Joined(V, S, n + 1, s \o S[n + 1])
<1> DEFINE t == S[n + 1]
           u == s \o t
<1>1. t \in Seq(V) /\ Injective(t) /\ s \in Seq(V) /\ Injective(s)
  BY DEF Pieces, Joined
<1>2. ASSUME NEW a \in DOMAIN s, NEW b \in DOMAIN t PROVE s[a] # t[b]
  <2>1. PICK k \in 1..n : \E c \in DOMAIN S[k] : s[a] = S[k][c]
    BY DEF Joined, Among
  <2>2. k \in 1..m /\ k # n + 1
    OBVIOUS
  <2> QED BY <2>1, <2>2 DEF Pieces
<1>3. /\ u \in Seq(V) /\ Injective(u)
      /\ \A i \in DOMAIN u : \/ \E a \in DOMAIN s : u[i] = s[a]
                             \/ \E b \in DOMAIN t : u[i] = t[b]
  <2> HIDE DEF t
  <2> QED BY <1>1, <1>2, ConcatDistinct
<1> HIDE DEF u
<1>4. ASSUME NEW i \in DOMAIN u PROVE Among(S, n + 1, u[i])
  <2>1. CASE \E a \in DOMAIN s : u[i] = s[a]
    <3>1. Among(S, n, u[i])
      BY <2>1 DEF Joined
    <3>2. 1..n \subseteq 1..(n + 1)
      OBVIOUS
    <3> QED BY <3>1, <3>2 DEF Among
  <2>2. CASE \E b \in DOMAIN t : u[i] = t[b]
    <3>1. n + 1 \in 1..(n + 1)
      OBVIOUS
    <3> QED BY <2>2, <3>1 DEF Among
  <2> QED BY <1>3, <2>1, <2>2
<1> QED BY <1>3, <1>4 DEF Joined, u

\* Induction along the sequences.
LEMMA PartialJoined ==
    ASSUME NEW V, NEW S, NEW m \in Nat, Pieces(V, S, m), NEW f, Partial(S, f, m)
    PROVE  \A n \in 1..m : Joined(V, S, n, f[n])
<1> DEFINE T == {n \in Nat : n \in 1..m => Joined(V, S, n, f[n])}
<1>1. \A n \in 1..m : f[n] = IF n = 1 THEN S[n] ELSE f[n - 1] \o S[n]
  BY DEF Partial
<1>2. 0 \in T
  OBVIOUS
<1>3. ASSUME NEW n \in T PROVE n + 1 \in T
  <2>1. n \in Nat /\ n + 1 \in Nat
    OBVIOUS
  <2>2. ASSUME n + 1 \in 1..m PROVE Joined(V, S, n + 1, f[n + 1])
    <3>1. CASE n = 0
      <4>1. f[1] = S[1] /\ 1 \in 1..m
        BY <1>1, <2>2, <3>1
      <4>2. Joined(V, S, 1, S[1])
        <5>1. 1 \in 1..1
          OBVIOUS
        <5> QED BY <4>1, <5>1 DEF Joined, Pieces, Among
      <4> QED BY <3>1, <4>1, <4>2
    <3>2. CASE n # 0
      <4>1. n \in 1..m /\ n + 1 # 1 /\ (n + 1) - 1 = n
        BY <2>1, <2>2, <3>2
      <4>2. Joined(V, S, n, f[n])
        BY <4>1
      <4>3. f[n + 1] = f[n] \o S[n + 1]
        BY <1>1, <2>2, <4>1
      <4>4. Joined(V, S, n + 1, f[n] \o S[n + 1])
        BY <2>1, <2>2, <4>2, JoinedNext
      <4> QED BY <4>3, <4>4
    <3> QED BY <3>1, <3>2
  <2> QED BY <2>1, <2>2
<1> HIDE DEF T
<1>4. T = Nat
  BY <1>2, <1>3, SetInduction DEF T
<1>5. ASSUME NEW n \in 1..m PROVE Joined(V, S, n, f[n])
  <2>1. n \in T
    BY <1>4
  <2> QED BY <2>1 DEF T
<1> QED BY <1>5

\* FlattenSeq of such sequences.
LEMMA FlattenDistinct ==
    ASSUME NEW V, NEW S \in Seq(Seq(V)), Pieces(V, S, Len(S))
    PROVE  Joined(V, S, Len(S), FlattenSeq(S))
<1>1. Len(S) \in Nat
  BY LenProperties
<1>2. CASE Len(S) = 0
  <2>1. FlattenSeq(S) = <<>> /\ S = <<>>
    BY <1>2, EmptySeq DEF FlattenSeq
  <2> QED BY <2>1 DEF Joined, Injective
<1>3. CASE Len(S) # 0
  <2>1. Len(S) \in Nat \ {0} /\ Len(S) \in 1..Len(S)
    BY <1>1, <1>3
  <2>2. PICK f : Partial(S, f, Len(S)) /\ FlattenSeq(S) = f[Len(S)]
    BY <2>1, FlattenSeqIs
  <2> QED BY <1>1, <2>1, <2>2, PartialJoined
<1> QED BY <1>2, <1>3

-----------------------------------------------------------------------------
(* The channels                                                            *)

\* Numbers less than a modulus apart have different remainders.
LEMMA RemaindersApart ==
    ASSUME NEW m \in Nat \ {0}, NEW x \in Int, NEW y \in Int, x # y, x - y < m, y - x < m
    PROVE  x % m # y % m
<1> SUFFICES ASSUME x % m = y % m PROVE FALSE
  OBVIOUS
<1> DEFINE r == x % m
           p == x \div m
           q == y \div m
<1>1. r \in 0..(m - 1) /\ p \in Int /\ x = m * p + r
  BY DivMod
<1>2. q \in Int /\ y = m * q + r
  BY DivMod
<1> HIDE DEF r, p, q
<1>3. m * (p - q) = m * p - m * q /\ m * p \in Int /\ m * q \in Int /\ p - q \in Int
  BY <1>1, <1>2
<1>4. m * (p - q) = x - y
  BY <1>1, <1>2, <1>3
<1> DEFINE d == p - q
<1>5. d \in Int /\ m * d = x - y
  BY <1>3, <1>4
<1> HIDE DEF d
<1>6. CASE d >= 1
  <2>1. m * (d - 1) >= 0 /\ m * (d - 1) = m * d - m
    BY <1>5, <1>6
  <2> QED BY <1>5, <2>1
<1>7. CASE d <= -1
  <2>1. m * (-d - 1) >= 0 /\ m * (-d - 1) = -(m * d) - m
    BY <1>5, <1>7
  <2> QED BY <1>5, <2>1
<1>8. CASE d = 0
  BY <1>5, <1>8
<1> QED BY <1>5, <1>6, <1>7, <1>8

ChannelType == [freq : 0..(Word - 1), kind : Kinds]

\* An enabled channel of this kind of board b makes x.
Makes(boards, b, kind, k, x) ==
    /\ k \in DOMAIN ListOf(boards[b], kind) /\ ListOf(boards[b], kind)[k].enable
    /\ x = [freq |-> Freq(boards[b], ListOf(boards[b], kind)[k]), kind |-> kind]

Comes(boards, b, kind, x) == \E k \in DOMAIN ListOf(boards[b], kind) : Makes(boards, b, kind, k, x)

\* The channels of a board are a sequence of channels.
LEMMA ListType ==
    ASSUME NEW boards \in Seq(BoardType), NEW b \in DOMAIN boards, NEW kind \in Kinds
    PROVE  /\ boards[b] \in BoardType
           /\ ListOf(boards[b], kind) \in Seq(ChanType)
           /\ \A k \in DOMAIN ListOf(boards[b], kind) :
                /\ ListOf(boards[b], kind)[k] \in ChanType
                /\ Planned(boards[b], ListOf(boards[b], kind)[k]) \in Int
                /\ Freq(boards[b], ListOf(boards[b], kind)[k]) \in 0..(Word - 1)
<1>1. boards[b] \in BoardType
  BY ElementOfSeq, LenProperties
<1> DEFINE chans == ListOf(boards[b], kind)
<1>2. chans \in Seq(ChanType)
  BY <1>1 DEF ListOf, Kinds, BoardType
<1> HIDE DEF chans
<1>3. ASSUME NEW k \in DOMAIN chans
      PROVE  /\ chans[k] \in ChanType /\ Planned(boards[b], chans[k]) \in Int
             /\ Freq(boards[b], chans[k]) \in 0..(Word - 1)
  <2>1. chans[k] \in ChanType
    BY <1>2, ElementOfSeq, LenProperties
  <2>2. /\ boards[b].radios[1] \in Nat /\ boards[b].radios[2] \in Nat
        /\ chans[k].offset \in Int
    BY <1>1, <2>1 DEF BoardType, ChanType
  <2>3. Planned(boards[b], chans[k]) \in Int
    BY <2>2 DEF Planned
  <2>4. Freq(boards[b], chans[k]) \in 0..(Word - 1)
    BY <2>3, RouterConfigAssumption, DivMod DEF Freq
  <2> QED BY <2>1, <2>3, <2>4
<1> QED BY <1>1, <1>2, <1>3 DEF chans

\* In a separate plan a channel comes from one place.
LEMMA MadeOnce ==
    ASSUME NEW boards \in Seq(BoardType), SeparatePlan(boards),
           NEW b \in DOMAIN boards, NEW c \in DOMAIN boards,
           NEW kind \in Kinds, NEW other \in Kinds, NEW i, NEW j, NEW x,
           Makes(boards, b, kind, i, x), Makes(boards, c, other, j, x)
    PROVE  b = c /\ kind = other /\ i = j
<1>1. kind = other
  BY DEF Makes
<1> DEFINE one == ListOf(boards[b], kind)[i]
           two == ListOf(boards[c], kind)[j]
<1>2. /\ i \in DOMAIN ListOf(boards[b], kind) /\ j \in DOMAIN ListOf(boards[c], kind)
      /\ one.enable /\ two.enable /\ Freq(boards[b], one) = Freq(boards[c], two)
  BY <1>1 DEF Makes
<1>3. Planned(boards[b], one) \in Int /\ Planned(boards[c], two) \in Int
  BY <1>2, ListType
<1>4. <<b, i>> # <<c, j>> => Apart(Planned(boards[b], one), Planned(boards[c], two))
  BY <1>2 DEF SeparatePlan
<1> HIDE DEF one, two
<1>5. ~Apart(Planned(boards[b], one), Planned(boards[c], two))
  BY <1>2, <1>3, RouterConfigAssumption, RemaindersApart DEF Apart, Freq
<1> QED BY <1>1, <1>4, <1>5

\* The channels of one kind of one board.
LEMMA KindDistinct ==
    ASSUME NEW boards \in Seq(BoardType), SeparatePlan(boards),
           NEW b \in DOMAIN boards, NEW kind \in Kinds
    PROVE  /\ AddedAll(boards[b], kind) \in Seq(ChannelType)
           /\ Injective(AddedAll(boards[b], kind))
           /\ \A i \in DOMAIN AddedAll(boards[b], kind) :
                 Comes(boards, b, kind, AddedAll(boards[b], kind)[i])
<1> DEFINE chans == ListOf(boards[b], kind)
           S == [k \in DOMAIN chans |-> Added(boards[b], chans[k], kind)]
           Made(k) == [freq |-> Freq(boards[b], chans[k]), kind |-> kind]
<1>1. chans \in Seq(ChanType) /\ Len(chans) \in Nat /\ DOMAIN chans = 1..Len(chans)
  BY ListType, LenProperties
<1>2. ASSUME NEW k \in DOMAIN chans
      PROVE  /\ S[k] \in Seq(ChannelType) /\ Injective(S[k])
             /\ \A a \in DOMAIN S[k] : Makes(boards, b, kind, k, S[k][a])
  <2>1. S[k] = IF chans[k].enable THEN <<Made(k)>> ELSE <<>>
    BY DEF Added
  <2>2. Made(k) \in ChannelType
    BY ListType DEF ChannelType
  <2>3. chans[k].enable => Makes(boards, b, kind, k, Made(k))
    BY DEF Makes
  <2> HIDE DEF S, Made, chans
  <2>4. CASE chans[k].enable
    <3>1. S[k] = <<Made(k)>>
      BY <2>1, <2>4
    <3>2. DOMAIN S[k] = {1} /\ S[k][1] = Made(k) /\ S[k] \in Seq(ChannelType)
      BY <2>2, <3>1
    <3> QED BY <2>3, <2>4, <3>2 DEF Injective
  <2>5. CASE ~chans[k].enable
    <3>1. S[k] = <<>>
      BY <2>1, <2>5
    <3>2. DOMAIN S[k] = {} /\ S[k] \in Seq(ChannelType)
      BY <3>1
    <3> QED BY <3>2 DEF Injective
  <2> QED BY <2>4, <2>5
<1>3. AddedAll(boards[b], kind) = FlattenSeq(S)
  BY DEF AddedAll
<1>4. S \in Seq(Seq(ChannelType)) /\ Len(S) = Len(chans)
  <2>1. \A k \in 1..Len(chans) : Added(boards[b], chans[k], kind) \in Seq(ChannelType)
    BY <1>1, <1>2
  <2> HIDE DEF chans
  <2>2. S \in [1..Len(chans) -> Seq(ChannelType)]
    BY <1>1, <2>1
  <2> HIDE DEF S
  <2> QED BY <1>1, <2>2
<1> HIDE DEF S, Made
<1>5. Pieces(ChannelType, S, Len(S))
  <2>1. \A k \in 1..Len(S) : S[k] \in Seq(ChannelType) /\ Injective(S[k])
    BY <1>1, <1>2, <1>4
  <2>2. ASSUME NEW k \in 1..Len(S), NEW l \in 1..Len(S), k # l,
               NEW a \in DOMAIN S[k], NEW c \in DOMAIN S[l]
        PROVE  S[k][a] # S[l][c]
    <3>1. Makes(boards, b, kind, k, S[k][a]) /\ Makes(boards, b, kind, l, S[l][c])
      BY <1>1, <1>2, <1>4
    <3> QED BY <2>2, <3>1, MadeOnce
  <2> QED BY <2>1, <2>2 DEF Pieces
<1>6. Joined(ChannelType, S, Len(S), FlattenSeq(S))
  BY <1>4, <1>5, FlattenDistinct
<1> DEFINE s == FlattenSeq(S)
<1>7. s = AddedAll(boards[b], kind) /\ Joined(ChannelType, S, Len(S), s)
  BY <1>3, <1>6
<1> HIDE DEF s
<1>8. ASSUME NEW i \in DOMAIN s PROVE Comes(boards, b, kind, s[i])
  <2>1. PICK k \in 1..Len(S) : \E a \in DOMAIN S[k] : s[i] = S[k][a]
    BY <1>7 DEF Joined, Among
  <2>2. Makes(boards, b, kind, k, s[i])
    BY <1>1, <1>2, <1>4, <2>1
  <2> QED BY <1>1, <1>4, <2>2 DEF Comes
<1> QED BY <1>7, <1>8 DEF Joined

\* The channels of one board.
LEMMA BoardDistinct ==
    ASSUME NEW boards \in Seq(BoardType), SeparatePlan(boards), NEW b \in DOMAIN boards
    PROVE  /\ BoardChannels(boards[b]) \in Seq(ChannelType)
           /\ Injective(BoardChannels(boards[b]))
           /\ \A i \in DOMAIN BoardChannels(boards[b]) :
                 \E kind \in Kinds : Comes(boards, b, kind, BoardChannels(boards[b])[i])
<1> DEFINE All(kind) == AddedAll(boards[b], kind)
           multi == All("multi-SF")
           std == All("LoRa")
           fsk == All("FSK")
<1>1. "multi-SF" \in Kinds /\ "LoRa" \in Kinds /\ "FSK" \in Kinds
  BY DEF Kinds
<1>2. /\ multi \in Seq(ChannelType) /\ Injective(multi)
      /\ \A i \in DOMAIN multi : Comes(boards, b, "multi-SF", multi[i])
  BY <1>1, KindDistinct
<1>3. /\ std \in Seq(ChannelType) /\ Injective(std)
      /\ \A i \in DOMAIN std : Comes(boards, b, "LoRa", std[i])
  BY <1>1, KindDistinct
<1>4. /\ fsk \in Seq(ChannelType) /\ Injective(fsk)
      /\ \A i \in DOMAIN fsk : Comes(boards, b, "FSK", fsk[i])
  BY <1>1, KindDistinct
<1>5. BoardChannels(boards[b]) = (multi \o std) \o fsk
  BY DEF BoardChannels
<1> HIDE DEF All, multi, std, fsk
<1>6. \A kind, other \in Kinds : \A x :
         Comes(boards, b, kind, x) /\ Comes(boards, b, other, x) => kind = other
  BY MadeOnce DEF Comes
<1> DEFINE two == multi \o std
<1>7. /\ two \in Seq(ChannelType) /\ Injective(two)
      /\ \A i \in DOMAIN two : \/ \E a \in DOMAIN multi : two[i] = multi[a]
                               \/ \E c \in DOMAIN std : two[i] = std[c]
  <2>1. \A a \in DOMAIN multi, c \in DOMAIN std : multi[a] # std[c]
    BY <1>1, <1>2, <1>3, <1>6
  <2> QED BY <1>2, <1>3, <2>1, ConcatDistinct
<1> HIDE DEF two
<1>8. \A i \in DOMAIN two : Comes(boards, b, "multi-SF", two[i]) \/ Comes(boards, b, "LoRa", two[i])
  BY <1>2, <1>3, <1>7
<1> DEFINE all == two \o fsk
<1>9. /\ all \in Seq(ChannelType) /\ Injective(all)
      /\ \A i \in DOMAIN all : \/ \E a \in DOMAIN two : all[i] = two[a]
                               \/ \E c \in DOMAIN fsk : all[i] = fsk[c]
  <2>1. \A a \in DOMAIN two, c \in DOMAIN fsk : two[a] # fsk[c]
    BY <1>1, <1>4, <1>6, <1>8
  <2> QED BY <1>4, <1>7, <2>1, ConcatDistinct
<1>10. BoardChannels(boards[b]) = all
  BY <1>5 DEF two
<1> HIDE DEF all
<1> QED BY <1>1, <1>4, <1>8, <1>9, <1>10

\* The channels of a separate plan.
LEMMA PlanDistinct ==
    ASSUME NEW boards \in Seq(BoardType), SeparatePlan(boards)
    PROVE  Injective(Channels(boards))
<1> DEFINE S == [b \in DOMAIN boards |-> BoardChannels(boards[b])]
<1>1. Len(boards) \in Nat /\ DOMAIN boards = 1..Len(boards)
  BY LenProperties
<1>2. ASSUME NEW b \in DOMAIN boards
      PROVE  /\ S[b] \in Seq(ChannelType) /\ Injective(S[b])
             /\ \A i \in DOMAIN S[b] : \E kind \in Kinds : Comes(boards, b, kind, S[b][i])
  <2>1. S[b] = BoardChannels(boards[b])
    OBVIOUS
  <2> HIDE DEF S
  <2> QED BY <2>1, BoardDistinct
<1>3. S \in Seq(Seq(ChannelType)) /\ Len(S) = Len(boards)
  <2>1. DOMAIN S = 1..Len(boards) /\ S = [b \in 1..Len(boards) |-> S[b]]
    BY <1>1
  <2> HIDE DEF S
  <2>2. S \in [1..Len(boards) -> Seq(ChannelType)]
    BY <1>1, <1>2, <2>1
  <2> QED BY <1>1, <2>2
<1>4. Channels(boards) = FlattenSeq(S)
  BY DEF Channels
<1> HIDE DEF S
<1>5. Pieces(ChannelType, S, Len(S))
  <2>1. \A k \in 1..Len(S) : S[k] \in Seq(ChannelType) /\ Injective(S[k])
    BY <1>1, <1>2, <1>3
  <2>2. ASSUME NEW k \in 1..Len(S), NEW l \in 1..Len(S), k # l,
               NEW a \in DOMAIN S[k], NEW c \in DOMAIN S[l], S[k][a] = S[l][c]
        PROVE  FALSE
    <3>1. PICK kind \in Kinds : Comes(boards, k, kind, S[k][a])
      BY <1>1, <1>2, <1>3
    <3>2. PICK other \in Kinds : Comes(boards, l, other, S[k][a])
      BY <1>1, <1>2, <1>3, <2>2
    <3>3. k \in DOMAIN boards /\ l \in DOMAIN boards
      BY <1>1, <1>3
    <3> QED BY <2>2, <3>1, <3>2, <3>3, MadeOnce DEF Comes
  <2> QED BY <2>1, <2>2 DEF Pieces
<1>6. Joined(ChannelType, S, Len(S), FlattenSeq(S))
  BY <1>3, <1>5, FlattenDistinct
<1> QED BY <1>4, <1>6 DEF Joined

\* Of every router_config that plans no two channels of a kind on one frequency,
\* the backend is told to listen on as many different channels as are enabled,
\* on any number of boards and for every width of a frequency.
THEOREM DistinctCorrect ==
    ASSUME SeparatePlans
    PROVE  Spec => []ChannelsDistinct
<1>1. Init => ChannelsDistinct
  BY DEF Init, ChannelsDistinct
<1>2. ChannelsDistinct /\ [Next]_vars => ChannelsDistinct'
  <2> SUFFICES ASSUME ChannelsDistinct, [Next]_vars PROVE ChannelsDistinct'
    OBVIOUS
  <2>1. CASE UNCHANGED channels
    BY <2>1 DEF ChannelsDistinct
  <2>2. ASSUME NEW rc \in Configs, channels' = Channels(rc.boards)
        PROVE  ChannelsDistinct'
    <3>1. rc.boards \in Seq(BoardType) /\ SeparatePlan(rc.boards)
      BY DownlinksAssumption DEF SeparatePlans
    <3> QED BY <2>2, <3>1, PlanDistinct DEF ChannelsDistinct, Injective
  <2>3. UNCHANGED channels \/ \E rc \in Configs : channels' = Channels(rc.boards)
    BY DEF Next, vars, Return, Disconnect, Configure, Uplink, Dnmsg, Dnsched, SkipEntry,
           BadEntry, ScheduleDone, SendEntry
  <2> QED BY <2>1, <2>2, <2>3
<1> QED BY <1>1, <1>2, PTL DEF Spec
=============================================================================
