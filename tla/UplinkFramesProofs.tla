--------------------------- MODULE UplinkFramesProofs ---------------------------
(***************************************************************************)
(* Proofs about UplinkFrames, for every set of datagrams, events and       *)
(* flags: what is read of a datagram lies in it, the fields of a message   *)
(* lie in its frame and tile it, and every signal of a wanted frame is     *)
(* forwarded once and in order.                                            *)
(*                                                                         *)
(* SetInduction is induction over the numbers without an operator          *)
(* parameter, from the library's well-foundedness of <; with it the        *)
(* recursion in FlattenSeq is unfolded for datagrams of any length.        *)
(***************************************************************************)
EXTENDS UplinkFrames, SequenceTheorems, FiniteSetTheorems, WellFoundedInduction, TLAPS

-----------------------------------------------------------------------------
(* The fields of a frame                                                   *)

\* The fields that lie in the first n bytes.
Within(n) == {x \in FieldType : x.from <= x.to /\ x.to <= n}

\* The fields that follow each other from byte a up to byte b.
Tiles(s, a, b) ==
    /\ s = <<>> => a = b
    /\ s # <<>> => s[1].from = a /\ s[Len(s)].to = b
    /\ \A i \in 1..(Len(s) - 1) : s[i].to = s[i + 1].from

\* Two tilings that meet make one.
LEMMA TilesConcat ==
    ASSUME NEW S, NEW s \in Seq(S), NEW t \in Seq(S), NEW a, NEW b, NEW c,
           Tiles(s, a, b), Tiles(t, b, c)
    PROVE  Tiles(s \o t, a, c)
<1> DEFINE u == s \o t
<1>1. /\ u \in Seq(S) /\ Len(u) = Len(s) + Len(t) /\ Len(s) \in Nat /\ Len(t) \in Nat
      /\ \A i \in 1..(Len(s) + Len(t)) : u[i] = IF i <= Len(s) THEN s[i] ELSE t[i - Len(s)]
  BY ConcatProperties, LenProperties
<1>2. /\ s = <<>> => u = t
      /\ t = <<>> => u = s
  BY ConcatEmptySeq
<1>3. CASE s = <<>> \/ t = <<>>
  BY <1>2, <1>3 DEF Tiles
<1>4. CASE s # <<>> /\ t # <<>>
  <2>1. Len(s) > 0 /\ Len(t) > 0
    BY <1>1, <1>4, EmptySeq
  <2>2. u # <<>>
    BY <1>1, <2>1, EmptySeq
  <2> HIDE DEF u
  <2>3. u[1] = s[1] /\ u[Len(u)] = t[Len(t)]
    <3>1. 1 \in 1..(Len(s) + Len(t)) /\ Len(u) \in 1..(Len(s) + Len(t)) /\ ~(Len(u) <= Len(s))
          /\ Len(u) - Len(s) = Len(t) /\ 1 <= Len(s)
      BY <1>1, <2>1
    <3> QED BY <1>1, <3>1
  <2>4. ASSUME NEW i \in 1..(Len(u) - 1)
        PROVE  u[i].to = u[i + 1].from
    <3>1. i \in Int /\ i \in 1..(Len(s) + Len(t)) /\ i + 1 \in 1..(Len(s) + Len(t))
      BY <1>1
    <3>2. CASE i + 1 <= Len(s)
      <4>1. u[i] = s[i] /\ u[i + 1] = s[i + 1] /\ i \in 1..(Len(s) - 1)
        BY <1>1, <3>1, <3>2
      <4> QED BY <4>1 DEF Tiles
    <3>3. CASE i = Len(s)
      <4>1. i + 1 - Len(s) = 1 /\ ~(i + 1 <= Len(s)) /\ i <= Len(s)
        BY <1>1, <3>3
      <4>2. u[i] = s[Len(s)] /\ u[i + 1] = t[1]
        BY <1>1, <3>1, <3>3, <4>1
      <4> QED BY <1>4, <4>2 DEF Tiles
    <3>4. CASE i > Len(s)
      <4>1. u[i] = t[i - Len(s)] /\ u[i + 1] = t[i - Len(s) + 1]
            /\ i - Len(s) \in 1..(Len(t) - 1)
        <5>1. i + 1 - Len(s) = i - Len(s) + 1 /\ ~(i <= Len(s)) /\ ~(i + 1 <= Len(s))
          BY <1>1, <3>1, <3>4
        <5> QED BY <1>1, <3>1, <3>4, <5>1
      <4> QED BY <4>1 DEF Tiles
    <3> QED BY <1>1, <3>1, <3>2, <3>3, <3>4
  <2> QED BY <1>4, <2>2, <2>3, <2>4 DEF Tiles, u
<1> QED BY <1>3, <1>4

\* A field whose range lies in the first n bytes.
LEMMA FieldWithin ==
    ASSUME NEW name \in FieldNames, NEW a \in Nat, NEW b \in Nat, NEW n \in Nat, a <= b, b <= n
    PROVE  Field(name, a, b) \in Within(n)
  BY DEF Field, Within, FieldType

\* A single field.
LEMMA OneField ==
    ASSUME NEW name \in FieldNames, NEW a \in Nat, NEW b \in Nat, NEW n \in Nat, a <= b, b <= n
    PROVE  <<Field(name, a, b)>> \in Seq(Within(n)) /\ Tiles(<<Field(name, a, b)>>, a, b)
<1> DEFINE x == Field(name, a, b)
<1>1. x \in Within(n) /\ x.from = a /\ x.to = b
  BY DEF Field, Within, FieldType
<1> HIDE DEF x
<1>2. Tiles(<<x>>, a, b)
  BY <1>1 DEF Tiles
<1> QED BY <1>1, <1>2 DEF x

\* Two of them that meet.
LEMMA TwoFields ==
    ASSUME NEW name \in FieldNames, NEW other \in FieldNames, NEW n \in Nat,
           NEW a \in Nat, NEW b \in Nat, NEW c \in Nat, a <= b, b <= c, c <= n
    PROVE  /\ <<Field(name, a, b), Field(other, b, c)>> \in Seq(Within(n))
           /\ Tiles(<<Field(name, a, b), Field(other, b, c)>>, a, c)
<1> DEFINE x == Field(name, a, b)
           y == Field(other, b, c)
<1>1. /\ x \in Within(n) /\ x.from = a /\ x.to = b
      /\ y \in Within(n) /\ y.from = b /\ y.to = c
  BY DEF Field, Within, FieldType
<1> HIDE DEF x, y
<1>2. Tiles(<<x, y>>, a, c)
  BY <1>1 DEF Tiles
<1> QED BY <1>1, <1>2 DEF x, y

\* The five fields of a join request.
LEMMA JoinFit ==
    ASSUME NEW n \in Nat, n >= 23
    PROVE  JoinFields \in Seq(Within(n)) /\ Tiles(JoinFields, 0, 23)
<1> DEFINE v == Field("MHdr", 0, 1)
           w == Field("JoinEui", 1, 9)
           x == Field("DevEui", 9, 17)
           y == Field("DevNonce", 17, 19)
           z == Field("MIC", 19, 23)
<1>1. /\ v \in Within(n) /\ w \in Within(n) /\ x \in Within(n) /\ y \in Within(n)
      /\ z \in Within(n)
  BY FieldWithin DEF FieldNames
<1>2. /\ v.from = 0 /\ v.to = w.from /\ w.to = x.from /\ x.to = y.from /\ y.to = z.from
      /\ z.to = 23
  BY DEF Field
<1> HIDE DEF v, w, x, y, z
<1>3. Tiles(<<v, w, x, y, z>>, 0, 23)
  BY <1>2 DEF Tiles
<1> QED BY <1>1, <1>3 DEF JoinFields, v, w, x, y, z

\* The first four of a data frame.
HeaderFields ==
    << Field("MHdr", 0, 1), Field("DevAddr", 1, 5), Field("FCtrl", 5, 6), Field("FCnt", 6, 8) >>

\* They lie in front of FOpts.
LEMMA HeaderFit ==
    ASSUME NEW n \in Nat, n >= 8
    PROVE  HeaderFields \in Seq(Within(n)) /\ Tiles(HeaderFields, 0, 8)
<1> DEFINE w == Field("MHdr", 0, 1)
           x == Field("DevAddr", 1, 5)
           y == Field("FCtrl", 5, 6)
           z == Field("FCnt", 6, 8)
<1>1. w \in Within(n) /\ x \in Within(n) /\ y \in Within(n) /\ z \in Within(n)
  BY FieldWithin DEF FieldNames
<1>2. w.from = 0 /\ w.to = x.from /\ x.to = y.from /\ y.to = z.from /\ z.to = 8
  BY DEF Field
<1> HIDE DEF w, x, y, z
<1>3. Tiles(<<w, x, y, z>>, 0, 8)
  BY <1>2 DEF Tiles
<1> QED BY <1>1, <1>3 DEF HeaderFields, w, x, y, z

\* The fields of a frame that is encoded lie in it, and tile it when it is well formed.
LEMMA FieldsFit ==
    ASSUME NEW f \in Frame, Encodable(f)
    PROVE  /\ Fields(f) \in Seq(Within(f.len))
           /\ WellFormed(f) => Tiles(Fields(f), IF f.mtype = 7 THEN 1 ELSE 0, f.len)
           /\ Fields(f) # <<>>
<1> DEFINE n == f.len
<1>1. n \in Nat /\ n > 0 /\ f.fopts \in 0..15
  BY DEF Frame, Encodable
<1>2. CASE f.mtype = 0
  <2>1. Fields(f) = JoinFields /\ n >= 23
    BY <1>2 DEF Fields, DataTypes, Encodable
  <2>2. JoinFields # <<>>
    BY DEF JoinFields
  <2> QED BY <1>1, <1>2, <2>1, <2>2, JoinFit DEF WellFormed
<1>3. CASE f.mtype \in DataTypes
  <2> DEFINE h == HeaderEnd(f)
             m == MicStart(f)
             mic == <<Field("MIC", m, n)>>
  <2>0. n >= 12
    BY <1>3 DEF DataTypes, Encodable
  <2>1. Fields(f) = HeaderFields \o FOpts(f) \o Payload(f) \o mic
    BY <1>3 DEF Fields, DataFields, DataTypes, HeaderFields
  <2>2. h \in Nat /\ h >= 8 /\ h = 8 + f.fopts /\ m \in Nat /\ m >= 8 /\ m < n
    BY <1>1, <2>0 DEF HeaderEnd, MicStart
  <2>3. HeaderFields \in Seq(Within(n)) /\ Tiles(HeaderFields, 0, 8)
    BY <1>1, <2>0, HeaderFit
  <2>4. FOpts(f) \in Seq(Within(n)) /\ (h <= m => Tiles(FOpts(f), 8, h))
    <3>1. CASE f.fopts > 0 /\ n >= h
      <4>1. FOpts(f) = <<Field("FOpts", 8, h)>>
        BY <3>1 DEF FOpts
      <4>2. 8 \in Nat /\ 8 <= h /\ h <= n /\ h \in Nat /\ n \in Nat /\ "FOpts" \in FieldNames
        BY <1>1, <2>2, <3>1 DEF FieldNames
      <4> HIDE DEF h, n
      <4> QED BY <4>1, <4>2, OneField
    <3>2. CASE ~(f.fopts > 0 /\ n >= h)
      <4>1. FOpts(f) = <<>>
        BY <3>2 DEF FOpts
      <4>2. h <= m => h = 8
        BY <1>1, <2>2, <3>2
      <4> QED BY <4>1, <4>2, EmptySeq DEF Tiles
    <3> QED BY <3>1, <3>2
  <2>5. Payload(f) \in Seq(Within(n)) /\ (h <= m => Tiles(Payload(f), h, m))
    <3>1. CASE h < m
      <4>1. Payload(f) = << Field("FPort", h, h + 1), Field("FRMPayload", h + 1, m) >>
        BY <3>1 DEF Payload
      <4>2. /\ h \in Nat /\ m \in Nat /\ n \in Nat /\ h + 1 \in Nat
            /\ h <= h + 1 /\ h + 1 <= m /\ m <= n
            /\ "FPort" \in FieldNames /\ "FRMPayload" \in FieldNames
        BY <1>1, <2>2, <3>1 DEF FieldNames
      <4> HIDE DEF h, m, n
      <4> QED BY <4>1, <4>2, TwoFields
    <3>2. CASE ~(h < m)
      <4>1. Payload(f) = <<>>
        BY <3>2 DEF Payload
      <4>2. h <= m => h = m
        BY <2>2, <3>2
      <4> QED BY <4>1, <4>2, EmptySeq DEF Tiles
    <3> QED BY <3>1, <3>2
  <2>6. mic \in Seq(Within(n)) /\ Tiles(mic, m, n)
    BY <1>1, <2>2, OneField DEF FieldNames
  <2>7. f.mtype # 7 /\ f.mtype # 0 /\ (WellFormed(f) => h <= m)
    BY <1>3 DEF WellFormed, DataTypes
  <2>8. mic # <<>>
    OBVIOUS
  <2> HIDE DEF h, m, mic, n
  <2> DEFINE a == HeaderFields \o FOpts(f)
             b == a \o Payload(f)
  <2>9. a \in Seq(Within(n)) /\ (h <= m => Tiles(a, 0, h))
    BY <2>3, <2>4, ConcatProperties, TilesConcat
  <2> HIDE DEF a
  <2>10. b \in Seq(Within(n)) /\ (h <= m => Tiles(b, 0, m))
    BY <2>5, <2>9, ConcatProperties, TilesConcat
  <2> HIDE DEF b
  <2>11. /\ b \o mic \in Seq(Within(n)) /\ (h <= m => Tiles(b \o mic, 0, n))
         /\ b \o mic # <<>>
    BY <2>6, <2>8, <2>10, ConcatProperties, ConcatEqualIffEmpty, TilesConcat
  <2>12. Fields(f) = b \o mic
    BY <2>1 DEF a, b
  <2> QED BY <2>7, <2>11, <2>12 DEF n
<1>4. CASE f.mtype = 7
  <2>1. Fields(f) = <<Field("FRMPayload", 1, n)>>
    BY <1>4 DEF Fields, DataTypes
  <2> QED BY <1>1, <1>4, <2>1, OneField DEF FieldNames
<1> QED BY <1>2, <1>3, <1>4 DEF Encodable

-----------------------------------------------------------------------------
(* Recursion over a sequence                                               *)

\* Induction: a set of numbers that holds 0 and every successor holds them all.
LEMMA SetInduction ==
    ASSUME NEW T \in SUBSET Nat, 0 \in T, \A n \in T : n + 1 \in T
    PROVE  T = Nat
<1>1. PICK R : IsWellFoundedOn(R, Nat) /\ \A x, y \in Nat : x < y => <<x, y>> \in R
  <2> DEFINE R == OpToRel(<, Nat)
  <2>1. IsWellFoundedOn(R, Nat)
    BY NatLessThanWellFounded, Zenon
  <2>2. \A x, y \in Nat : x < y => <<x, y>> \in R
    BY Zenon DEF OpToRel
  <2> HIDE DEF R
  <2> QED BY <2>1, <2>2
<1>2. ASSUME Nat \ T # {} PROVE FALSE
  <2>1. PICK x \in Nat \ T : \A y \in Nat \ T : ~ (<<y, x>> \in R)
    BY <1>1, <1>2, WFMin
  <2>2. x \in Nat /\ x # 0
    BY <2>1
  <2>3. x - 1 \in Nat /\ x - 1 < x /\ (x - 1) + 1 = x
    BY <2>2
  <2>4. x - 1 \in T
    BY <1>1, <2>1, <2>2, <2>3
  <2> QED BY <2>1, <2>3, <2>4
<1> QED BY <1>2

\* f holds the concatenations of the first 1..n of the sequences S.
Partial(S, f, n) ==
    f = [i \in 1..n |-> IF i = 1 THEN S[i] ELSE f[i - 1] \o S[i]]

\* There is such a function for every n.
LEMMA PartialExists ==
    ASSUME NEW S, NEW m \in Nat
    PROVE  \E f : Partial(S, f, m)
<1> DEFINE T == {n \in Nat : \E f : Partial(S, f, n)}
<1>1. 0 \in T
  <2>1. Partial(S, [i \in 1..0 |-> 0], 0)
    BY DEF Partial
  <2> QED BY <2>1
<1>2. ASSUME NEW n \in T PROVE n + 1 \in T
  <2>1. PICK f : Partial(S, f, n)
    OBVIOUS
  <2>2. n \in Nat /\ n + 1 \in Nat
    OBVIOUS
  <2> DEFINE next == IF n = 0 THEN S[1] ELSE f[n] \o S[n + 1]
             g == [i \in 1..(n + 1) |-> IF i = n + 1 THEN next ELSE f[i]]
  <2>3. \A i \in 1..n : f[i] = IF i = 1 THEN S[i] ELSE f[i - 1] \o S[i]
    BY <2>1 DEF Partial
  <2>4. ASSUME NEW i \in 1..(n + 1)
        PROVE  g[i] = IF i = 1 THEN S[i] ELSE g[i - 1] \o S[i]
    <3>1. CASE i = n + 1
      <4>1. g[i] = next
        BY <3>1
      <4>2. n # 0 => n \in 1..(n + 1) /\ n # n + 1
        BY <2>2
      <4>3. n # 0 => g[n] = f[n]
        BY <4>2
      <4> HIDE DEF g
      <4>4. n # 0 => g[i - 1] = f[n] /\ i # 1
        BY <2>2, <3>1, <4>3
      <4> QED BY <2>2, <3>1, <4>1, <4>4
    <3>2. CASE i # n + 1
      <4>1. i \in 1..n /\ (i # 1 => i - 1 \in 1..n /\ i - 1 \in 1..(n + 1) /\ i - 1 # n + 1)
        BY <2>2, <3>2
      <4>2. g[i] = f[i] /\ (i # 1 => g[i - 1] = f[i - 1])
        BY <3>2, <4>1
      <4> HIDE DEF g
      <4> QED BY <2>3, <4>1, <4>2
    <3> QED BY <3>1, <3>2
  <2>5. g = [i \in 1..(n + 1) |-> g[i]]
    OBVIOUS
  <2> HIDE DEF g
  <2>6. Partial(S, g, n + 1)
    BY <2>4, <2>5 DEF Partial
  <2> QED BY <2>2, <2>6
<1> HIDE DEF T
<1>3. T = Nat
  BY <1>1, <1>2, SetInduction DEF T
<1> QED BY <1>3 DEF T

\* FlattenSeq ends with the concatenation of all.
LEMMA FlattenSeqIs ==
    ASSUME NEW S, Len(S) \in Nat \ {0}
    PROVE  \E f : Partial(S, f, Len(S)) /\ FlattenSeq(S) = f[Len(S)]
<1> DEFINE f == CHOOSE g : Partial(S, g, Len(S))
<1>1. \E g : Partial(S, g, Len(S))
  BY PartialExists
<1>2. Partial(S, f, Len(S))
  BY <1>1, Zenon
<1>3. Len(S) # 0
  OBVIOUS
<1>4. FlattenSeq(S) = f[Len(S)]
  BY <1>3, Zenon DEF FlattenSeq, Partial
<1> QED BY <1>2, <1>4

-----------------------------------------------------------------------------
(* The frames of a PUSH_DATA, converted                                    *)

\* The signals of frame k, and of all frames.
Signals(d, k) == [s \in 1..Max1(d[k].signals) |-> <<k, s>>]
AllSignals(d) == [k \in DOMAIN d |-> Signals(d, k)]

\* g is the signals of the first n frames, each once and in order.
Listed(d, n, g) ==
    /\ g \in Seq(Nat \X Nat)
    /\ \A i \in DOMAIN g : IsSignal(d, g[i]) /\ g[i][1] <= n
    /\ \A i, j \in DOMAIN g : i < j => Earlier(g[i], g[j])
    /\ \A k \in 1..n : \A s \in 1..Max1(d[k].signals) : \E i \in DOMAIN g : g[i] = <<k, s>>

\* A frame has one signal at least.
LEMMA SignalsFacts ==
    ASSUME NEW d \in Seq(Frame), NEW k \in DOMAIN d
    PROVE  /\ Max1(d[k].signals) \in Nat \ {0} /\ k \in Nat
           /\ Signals(d, k) \in Seq(Nat \X Nat)
           /\ Len(Signals(d, k)) = Max1(d[k].signals)
           /\ \A s \in 1..Max1(d[k].signals) : Signals(d, k)[s] = <<k, s>>
<1>1. d[k] \in Frame /\ k \in Nat
  BY ElementOfSeq, LenProperties
<1>2. Max1(d[k].signals) \in Nat \ {0}
  BY <1>1 DEF Frame, Max1
<1> DEFINE m == Max1(d[k].signals)
<1>3. m \in Nat
  BY <1>2
<1> HIDE DEF m
<1>4. [s \in 1..m |-> <<k, s>>] \in [1..m -> Nat \X Nat]
  BY <1>1, <1>3
<1>5. [s \in 1..m |-> <<k, s>>] \in Seq(Nat \X Nat) /\ Len([s \in 1..m |-> <<k, s>>]) = m
  BY <1>3, <1>4
<1> QED BY <1>1, <1>2, <1>5 DEF m, Signals

\* The signals of the next frame go behind.
LEMMA ListedNext ==
    ASSUME NEW d \in Seq(Frame), NEW n \in Nat, n + 1 \in DOMAIN d, NEW g, Listed(d, n, g)
    PROVE  Listed(d, n + 1, g \o Signals(d, n + 1))
<1> DEFINE t == Signals(d, n + 1)
           m == Max1(d[n + 1].signals)
           u == g \o t
<1>1. /\ t \in Seq(Nat \X Nat) /\ Len(t) = m /\ m \in Nat \ {0}
      /\ \A s \in 1..m : t[s] = <<n + 1, s>>
  BY SignalsFacts
<1>2. g \in Seq(Nat \X Nat) /\ Len(g) \in Nat /\ DOMAIN g = 1..Len(g)
  BY LenProperties DEF Listed
<1> HIDE DEF t, m
<1>3. /\ u \in Seq(Nat \X Nat) /\ Len(u) = Len(g) + m /\ DOMAIN u = 1..(Len(g) + m)
      /\ \A i \in 1..(Len(g) + m) : u[i] = IF i <= Len(g) THEN g[i] ELSE t[i - Len(g)]
  <2>1. /\ u \in Seq(Nat \X Nat) /\ Len(u) = Len(g) + Len(t)
        /\ \A i \in 1..(Len(g) + Len(t)) : u[i] = IF i <= Len(g) THEN g[i] ELSE t[i - Len(g)]
    BY <1>1, <1>2, ConcatProperties
  <2> HIDE DEF u
  <2>2. DOMAIN u = 1..Len(u)
    BY <2>1, LenProperties
  <2> QED BY <1>1, <2>1, <2>2
<1> HIDE DEF u
<1>4. ASSUME NEW i \in DOMAIN u
      PROVE  \/ i \in DOMAIN g /\ u[i] = g[i]
             \/ i - Len(g) \in 1..m /\ i > Len(g) /\ u[i] = <<n + 1, i - Len(g)>>
  <2>1. i \in Int /\ i \in 1..(Len(g) + m)
    BY <1>3
  <2>2. CASE i <= Len(g)
    BY <1>2, <1>3, <2>1, <2>2
  <2>3. CASE i > Len(g)
    <3>1. i - Len(g) \in 1..m /\ ~(i <= Len(g))
      BY <1>1, <1>2, <2>1, <2>3
    <3> QED BY <1>1, <1>3, <2>1, <2>3, <3>1
  <2> QED BY <1>2, <2>1, <2>2, <2>3
<1>5. \A i \in DOMAIN g : IsSignal(d, g[i]) /\ g[i] \in Nat \X Nat /\ g[i][1] <= n
  BY <1>2, ElementOfSeq DEF Listed
<1>6. ASSUME NEW i \in DOMAIN u PROVE IsSignal(d, u[i]) /\ u[i][1] <= n + 1
  <2>1. CASE i \in DOMAIN g /\ u[i] = g[i]
    BY <1>5, <2>1
  <2>2. CASE i - Len(g) \in 1..m /\ u[i] = <<n + 1, i - Len(g)>>
    BY <2>2 DEF IsSignal, m
  <2> QED BY <1>4, <2>1, <2>2
<1>7. ASSUME NEW i \in DOMAIN u, NEW j \in DOMAIN u, i < j PROVE Earlier(u[i], u[j])
  <2>1. i \in Int /\ j \in Int
    BY <1>1, <1>2, <1>3
  <2>2. CASE j \in DOMAIN g /\ u[j] = g[j]
    <3>1. i \in DOMAIN g /\ ~(i > Len(g))
      BY <1>2, <1>3, <1>7, <2>1, <2>2
    <3>2. u[i] = g[i]
      BY <1>4, <3>1
    <3> QED BY <1>7, <2>2, <3>1, <3>2 DEF Listed
  <2>3. CASE j - Len(g) \in 1..m /\ j > Len(g) /\ u[j] = <<n + 1, j - Len(g)>>
    <3>1. CASE i \in DOMAIN g /\ u[i] = g[i]
      <4>1. u[i][1] \in Nat /\ u[i][1] <= n
        BY <1>5, <3>1
      <4>2. u[i][1] < u[j][1]
        BY <2>3, <4>1
      <4> QED BY <4>2 DEF Earlier
    <3>2. CASE i - Len(g) \in 1..m /\ u[i] = <<n + 1, i - Len(g)>>
      BY <1>2, <1>7, <2>1, <2>3, <3>2 DEF Earlier
    <3> QED BY <1>4, <3>1, <3>2
  <2> QED BY <1>4, <2>2, <2>3
<1>8. ASSUME NEW k \in 1..(n + 1), NEW s \in 1..Max1(d[k].signals)
      PROVE  \E i \in DOMAIN u : u[i] = <<k, s>>
  <2>1. CASE k = n + 1
    <3>1. s \in 1..m /\ s \in Int
      BY <1>1, <2>1 DEF m
    <3>2. PICK i \in Int : i = Len(g) + s
      BY <1>2, <3>1
    <3>3. i \in 1..(Len(g) + m) /\ i > Len(g) /\ i - Len(g) = s
      BY <1>1, <1>2, <3>1, <3>2
    <3>4. ~(i <= Len(g))
      BY <1>2, <3>3
    <3>5. u[i] = t[i - Len(g)]
      BY <1>3, <3>3, <3>4
    <3>6. t[s] = <<n + 1, s>>
      BY <1>1, <3>1
    <3> QED BY <1>3, <2>1, <3>3, <3>5, <3>6
  <2>2. CASE k # n + 1
    <3>1. k \in 1..n
      BY <2>2
    <3>2. PICK i \in DOMAIN g : g[i] = <<k, s>>
      BY <3>1 DEF Listed
    <3>3. i \in 1..(Len(g) + m) /\ i <= Len(g)
      BY <1>1, <1>2
    <3>4. i \in DOMAIN u /\ u[i] = g[i]
      BY <1>3, <3>3
    <3> QED BY <3>2, <3>4
  <2> QED BY <2>1, <2>2
<1> QED BY <1>3, <1>6, <1>7, <1>8 DEF Listed, u, t

\* to_proto lists every signal of every frame, once and in order.
LEMMA ConvertedListed ==
    ASSUME NEW d \in Seq(Frame)
    PROVE  Listed(d, Len(d), Converted(d))
<1> DEFINE S == AllSignals(d)
<1>1. Len(d) \in Nat /\ DOMAIN d = 1..Len(d)
  BY LenProperties
<1>2. Len(S) = Len(d) /\ \A k \in DOMAIN d : S[k] = Signals(d, k)
  BY <1>1 DEF AllSignals
<1>3. Converted(d) = FlattenSeq(S)
  BY DEF Converted, AllSignals, Signals
<1>4. Listed(d, 0, <<>>)
  BY EmptySeq DEF Listed
<1>5. CASE Len(d) = 0
  <2>1. d = <<>> /\ FlattenSeq(S) = S
    BY <1>2, <1>5, EmptySeq DEF FlattenSeq
  <2>2. S = <<>>
    BY <2>1 DEF AllSignals
  <2> QED BY <1>3, <1>4, <1>5, <2>1, <2>2
<1>6. CASE Len(d) # 0
  <2>1. PICK f : Partial(S, f, Len(d)) /\ Converted(d) = f[Len(d)]
    BY <1>1, <1>2, <1>3, <1>6, FlattenSeqIs
  <2> HIDE DEF S
  <2>2. \A i \in 1..Len(d) : f[i] = IF i = 1 THEN S[i] ELSE f[i - 1] \o S[i]
    BY <2>1 DEF Partial
  <2> DEFINE T == {n \in Nat : n \in 1..Len(d) => Listed(d, n, f[n])}
  <2>3. 0 \in T
    OBVIOUS
  <2>4. ASSUME NEW n \in T PROVE n + 1 \in T
    <3> SUFFICES ASSUME n + 1 \in 1..Len(d) PROVE Listed(d, n + 1, f[n + 1])
      OBVIOUS
    <3>1. n \in Nat /\ n + 1 \in DOMAIN d
      BY <1>1
    <3>2. S[n + 1] = Signals(d, n + 1) /\ Signals(d, n + 1) \in Seq(Nat \X Nat)
      BY <1>2, <3>1, SignalsFacts
    <3>3. CASE n = 0
      <4>1. f[n + 1] = <<>> \o Signals(d, n + 1)
        BY <1>1, <2>2, <3>1, <3>2, <3>3, ConcatEmptySeq
      <4> QED BY <1>4, <3>1, <3>3, <4>1, ListedNext
    <3>4. CASE n # 0
      <4>1. n \in 1..Len(d) /\ n + 1 # 1 /\ (n + 1) - 1 = n
        BY <1>1, <3>1, <3>4
      <4>2. f[n + 1] = f[n] \o Signals(d, n + 1)
        BY <1>1, <2>2, <3>1, <3>2, <4>1
      <4>3. Listed(d, n, f[n])
        BY <4>1
      <4> QED BY <3>1, <4>2, <4>3, ListedNext
    <3> QED BY <3>3, <3>4
  <2> HIDE DEF T
  <2>5. T = Nat
    BY <2>3, <2>4, SetInduction DEF T
  <2>6. Len(d) \in T /\ Len(d) \in 1..Len(d)
    BY <1>1, <1>6, <2>5
  <2> QED BY <2>1, <2>6 DEF T
<1> QED BY <1>5, <1>6

-----------------------------------------------------------------------------
(* The invariant                                                           *)

\* The first signal still to do, and the rest.
LEMMA TodoFacts ==
    ASSUME TypeOK, OrderInv, todo # <<>>
    PROVE  /\ 1 \in DOMAIN todo /\ DOMAIN todo = 1..Len(todo) /\ Len(todo) \in Nat \ {0}
           /\ todo[1] \in Nat \X Nat /\ todo[1][1] \in DOMAIN datagram
           /\ Current \in Frame /\ Tail(todo) \in Seq(Nat \X Nat)
           /\ DOMAIN Tail(todo) = 1..(Len(todo) - 1)
           /\ \A i \in DOMAIN Tail(todo) : i + 1 \in DOMAIN todo /\ Tail(todo)[i] = todo[i + 1]
<1>1. todo \in Seq(Nat \X Nat) /\ datagram \in Seq(Frame)
  BY DEF TypeOK
<1>2. DOMAIN todo = 1..Len(todo) /\ Len(todo) \in Nat \ {0}
  BY <1>1, EmptySeq, LenProperties
<1>3. 1 \in DOMAIN todo /\ todo[1] \in Nat \X Nat
  BY <1>1, <1>2, ElementOfSeq
<1>4. todo[1][1] \in DOMAIN datagram
  BY <1>3 DEF OrderInv, IsSignal
<1>5. Current \in Frame
  <2>1. DOMAIN datagram = 1..Len(datagram)
    BY <1>1, LenProperties
  <2> QED BY <1>1, <1>4, <2>1, ElementOfSeq DEF Current
<1>6. /\ Tail(todo) \in Seq(Nat \X Nat) /\ Len(Tail(todo)) = Len(todo) - 1
      /\ \A i \in 1..Len(Tail(todo)) : Tail(todo)[i] = todo[i + 1]
  BY <1>1, HeadTailProperties
<1>7. DOMAIN Tail(todo) = 1..(Len(todo) - 1)
  BY <1>6, LenProperties
<1> QED BY <1>2, <1>3, <1>4, <1>5, <1>6, <1>7

\* The first signal is dropped when its frame is not wanted or cannot be encoded.
LEMMA Dropped ==
    ASSUME UplinkInv, step = "loop", todo # <<>>, ~(Wanted(Current) /\ Encodable(Current)),
           todo' = Tail(todo), UNCHANGED <<received, datagram, step, acked, sent>>
    PROVE  UplinkInv'
<1>0. TypeOK /\ StepInv /\ MessageInv /\ OrderInv /\ CompleteInv
  BY DEF UplinkInv
<1>1. /\ 1 \in DOMAIN todo /\ DOMAIN todo = 1..Len(todo) /\ Len(todo) \in Nat \ {0}
      /\ Tail(todo) \in Seq(Nat \X Nat) /\ DOMAIN Tail(todo) = 1..(Len(todo) - 1)
      /\ \A i \in DOMAIN Tail(todo) : i + 1 \in DOMAIN todo /\ Tail(todo)[i] = todo[i + 1]
  BY <1>0, TodoFacts
<1>2. TypeOK'
  BY <1>0, <1>1 DEF TypeOK
<1>3. StepInv' /\ MessageInv'
  BY <1>0 DEF StepInv, MessageInv, Convertible
<1>4. OrderInv'
  <2>1. \A i \in DOMAIN todo' : IsSignal(datagram, todo'[i])
    BY <1>0, <1>1 DEF OrderInv
  <2>2. ASSUME NEW i \in DOMAIN todo', NEW j \in DOMAIN todo', i < j
        PROVE  Earlier(todo'[i], todo'[j])
    <3>1. i + 1 < j + 1
      BY <1>1, <2>2
    <3> QED BY <1>0, <1>1, <3>1 DEF OrderInv
  <2>3. \A i \in DOMAIN sent, j \in DOMAIN todo' : Earlier(sent[i].of, todo'[j])
    BY <1>0, <1>1 DEF OrderInv
  <2> QED BY <1>0, <2>1, <2>2, <2>3 DEF OrderInv
<1>5. CompleteInv'
  <2> SUFFICES ASSUME NEW k \in DOMAIN datagram, Wanted(datagram[k]), Encodable(datagram[k]),
                      NEW s \in 1..Max1(datagram[k].signals)
               PROVE  Forwarded(<<k, s>>)'
    BY DEF CompleteInv
  <2>1. Forwarded(<<k, s>>)
    BY <1>0 DEF CompleteInv
  <2>2. CASE \E i \in DOMAIN sent : sent[i].of = <<k, s>>
    BY <2>2 DEF Forwarded
  <2>3. CASE \E i \in DOMAIN todo : todo[i] = <<k, s>>
    <3>1. PICK i \in DOMAIN todo : todo[i] = <<k, s>>
      BY <2>3
    <3>2. i # 1
      BY <3>1 DEF Current
    <3>3. i - 1 \in DOMAIN Tail(todo) /\ (i - 1) + 1 = i
      BY <1>1, <3>2
    <3>4. todo'[i - 1] = <<k, s>>
      BY <1>1, <3>1, <3>3
    <3> QED BY <3>3, <3>4 DEF Forwarded
  <2> QED BY <2>1, <2>2, <2>3 DEF Forwarded
<1> QED BY <1>2, <1>3, <1>4, <1>5 DEF UplinkInv

\* The first signal becomes a message.
LEMMA SendKeeps ==
    ASSUME UplinkInv, SendUplink
    PROVE  UplinkInv'
<1> DEFINE m == [of |-> todo[1], fields |-> Fields(Current)]
           Sent == [of : Nat \X Nat, fields : Seq(FieldType)]
<1>0. TypeOK /\ StepInv /\ MessageInv /\ OrderInv /\ CompleteInv
  BY DEF UplinkInv
<1>a. /\ step = "loop" /\ todo # <<>> /\ Wanted(Current) /\ Encodable(Current)
      /\ sent' = Append(sent, m) /\ todo' = Tail(todo) /\ received' = received
      /\ datagram' = datagram /\ step' = step /\ acked' = acked
  BY DEF SendUplink
<1>1. /\ 1 \in DOMAIN todo /\ DOMAIN todo = 1..Len(todo) /\ Len(todo) \in Nat \ {0}
      /\ Tail(todo) \in Seq(Nat \X Nat) /\ DOMAIN Tail(todo) = 1..(Len(todo) - 1)
      /\ \A i \in DOMAIN Tail(todo) : i + 1 \in DOMAIN todo /\ Tail(todo)[i] = todo[i + 1]
      /\ Current \in Frame /\ todo[1] \in Nat \X Nat
  BY <1>0, <1>a, TodoFacts
<1>2. m \in Sent
  <2>1. Fields(Current) \in Seq(Within(Current.len))
    BY <1>1, <1>a, FieldsFit
  <2>2. Within(Current.len) \subseteq FieldType
    BY DEF Within
  <2>3. Fields(Current) \in Seq(FieldType)
    BY <2>1, <2>2, SeqMonotonic
  <2> QED BY <1>1, <2>3
<1>m. m.of = todo[1] /\ m.fields = Fields(Current)
  OBVIOUS
<1> HIDE DEF m, Sent
<1>3. /\ sent' \in Seq(Sent) /\ DOMAIN sent = 1..Len(sent) /\ Len(sent) \in Nat
      /\ DOMAIN sent' = 1..(Len(sent) + 1) /\ sent'[Len(sent) + 1] = m
      /\ \A i \in DOMAIN sent : sent'[i] = sent[i]
  <2>1. sent \in Seq(Sent)
    BY <1>0 DEF TypeOK, Sent
  <2>2. DOMAIN sent = 1..Len(sent) /\ Len(sent) \in Nat
    BY <2>1, LenProperties
  <2>3. /\ sent' \in Seq(Sent) /\ Len(sent') = Len(sent) + 1 /\ sent'[Len(sent) + 1] = m
        /\ \A i \in 1..Len(sent) : sent'[i] = sent[i]
    BY <1>2, <1>a, <2>1, AppendProperties
  <2>4. DOMAIN sent' = 1..(Len(sent) + 1)
    BY <2>3, LenProperties
  <2> QED BY <2>2, <2>3, <2>4
<1>4. \A i \in DOMAIN sent' : i \in DOMAIN sent \/ i = Len(sent) + 1
  BY <1>3
<1>5. TypeOK'
  BY <1>0, <1>1, <1>3, <1>a DEF TypeOK, Sent
<1>6. StepInv'
  BY <1>0, <1>a DEF StepInv, Convertible
<1>7. MessageInv'
  <2> SUFFICES ASSUME NEW i \in DOMAIN sent'
               PROVE  LET f == datagram[sent'[i].of[1]]
                      IN  IsSignal(datagram, sent'[i].of) /\ Wanted(f) /\ Encodable(f)
                            /\ sent'[i].fields = Fields(f)
    BY <1>a DEF MessageInv
  <2>1. CASE i \in DOMAIN sent
    BY <1>0, <1>3, <2>1 DEF MessageInv
  <2>2. CASE i = Len(sent) + 1
    <3>1. sent'[i].of = todo[1] /\ sent'[i].fields = Fields(Current)
      BY <1>3, <1>m, <2>2
    <3> QED BY <1>0, <1>1, <1>a, <3>1 DEF OrderInv, Current
  <2> QED BY <1>4, <2>1, <2>2
<1>8. OrderInv'
  <2>1. \A i \in DOMAIN todo' : IsSignal(datagram', todo'[i])
    BY <1>0, <1>1, <1>a DEF OrderInv
  <2>2. ASSUME NEW i \in DOMAIN todo', NEW j \in DOMAIN todo', i < j
        PROVE  Earlier(todo'[i], todo'[j])
    <3>1. i + 1 < j + 1
      BY <1>1, <1>a, <2>2
    <3> QED BY <1>0, <1>1, <1>a, <3>1 DEF OrderInv
  <2>3. ASSUME NEW i \in DOMAIN sent', NEW j \in DOMAIN todo'
        PROVE  Earlier(sent'[i].of, todo'[j])
    <3>1. j + 1 \in DOMAIN todo /\ todo'[j] = todo[j + 1] /\ 1 < j + 1
      BY <1>1, <1>a
    <3>2. CASE i \in DOMAIN sent
      BY <1>0, <1>3, <3>1, <3>2 DEF OrderInv
    <3>3. CASE i = Len(sent) + 1
      <4>1. sent'[i].of = todo[1]
        BY <1>3, <1>m, <3>3
      <4> QED BY <1>0, <1>1, <3>1, <4>1 DEF OrderInv
    <3> QED BY <1>4, <3>2, <3>3
  <2>4. ASSUME NEW i \in DOMAIN sent', NEW j \in DOMAIN sent', i < j
        PROVE  Earlier(sent'[i].of, sent'[j].of)
    <3>1. i \in DOMAIN sent
      BY <1>3, <1>4, <2>4
    <3>2. CASE j \in DOMAIN sent
      BY <1>0, <1>3, <2>4, <3>1, <3>2 DEF OrderInv
    <3>3. CASE j = Len(sent) + 1
      <4>1. sent'[j].of = todo[1]
        BY <1>3, <1>m, <3>3
      <4> QED BY <1>0, <1>1, <1>3, <3>1, <4>1 DEF OrderInv
    <3> QED BY <1>4, <3>2, <3>3
  <2> QED BY <2>1, <2>2, <2>3, <2>4 DEF OrderInv
<1>9. CompleteInv'
  <2> SUFFICES ASSUME NEW k \in DOMAIN datagram, Wanted(datagram[k]), Encodable(datagram[k]),
                      NEW s \in 1..Max1(datagram[k].signals)
               PROVE  Forwarded(<<k, s>>)'
    BY <1>a DEF CompleteInv
  <2>1. Forwarded(<<k, s>>)
    BY <1>0, <1>a DEF CompleteInv
  <2>2. CASE \E i \in DOMAIN sent : sent[i].of = <<k, s>>
    <3>1. PICK i \in DOMAIN sent : sent[i].of = <<k, s>>
      BY <2>2
    <3>2. i \in DOMAIN sent' /\ sent'[i] = sent[i]
      BY <1>3
    <3> QED BY <3>1, <3>2 DEF Forwarded
  <2>3. CASE \E i \in DOMAIN todo : todo[i] = <<k, s>>
    <3>1. PICK i \in DOMAIN todo : todo[i] = <<k, s>>
      BY <2>3
    <3>2. CASE i = 1
      <4>1. Len(sent) + 1 \in DOMAIN sent' /\ sent'[Len(sent) + 1].of = <<k, s>>
        BY <1>3, <1>m, <3>1, <3>2
      <4> QED BY <4>1 DEF Forwarded
    <3>3. CASE i # 1
      <4>1. i - 1 \in DOMAIN Tail(todo) /\ (i - 1) + 1 = i
        BY <1>1, <3>3
      <4>2. todo'[i - 1] = <<k, s>>
        BY <1>1, <1>a, <3>1, <4>1
      <4> QED BY <1>a, <4>1, <4>2 DEF Forwarded
    <3> QED BY <3>2, <3>3
  <2> QED BY <2>1, <2>2, <2>3 DEF Forwarded
<1> QED BY <1>5, <1>6, <1>7, <1>8, <1>9 DEF UplinkInv

\* What is read of a datagram lies in it.
LEMMA ReadFits ==
    ASSUME NEW b \in Header
    PROVE  Read(b) \subseteq 0..(b.size - 1) /\ Read(b) \in SUBSET Nat
<1>1. b.size \in Nat /\ b.cid \in Nat
  BY DEF Header
<1>2. ~Dispatched(b) => Read(b) = {}
  BY DEF Read, Accepted
<1>3. Dispatched(b) => b.size >= 4
  BY DEF Dispatched
<1>4. Accepted(b) => b.size >= 12
  BY <1>1 DEF Accepted, LongEnough
<1>5. \A n \in Read(b) : n \in Nat /\ n < b.size
  BY <1>1, <1>2, <1>3, <1>4 DEF Read
<1> QED BY <1>1, <1>5

\* The types, and the rest of the invariant when nothing was sent and nothing is to do.
LEMMA Quiet ==
    ASSUME TypeOK', StepInv', sent' = <<>>, todo' = <<>>, step' # "loop",
           (step' = "done" /\ Convertible') => datagram' = <<>>
    PROVE  UplinkInv'
<1>1. MessageInv' /\ OrderInv'
  BY DEF MessageInv, OrderInv
<1>2. CompleteInv'
  BY DEF CompleteInv
<1> QED BY <1>1, <1>2 DEF UplinkInv

\* Every step keeps the invariant.
LEMMA UplinkStep == UplinkInv /\ [Next]_vars => UplinkInv'
<1> SUFFICES ASSUME UplinkInv, [Next]_vars PROVE UplinkInv'
  OBVIOUS
<1> DEFINE Sent == [of : Nat \X Nat, fields : Seq(FieldType)]
<1>0. TypeOK /\ StepInv /\ MessageInv /\ OrderInv /\ CompleteInv
  BY DEF UplinkInv
<1>e. \A S : <<>> \in Seq(S)
  BY EmptySeq
<1>1. ASSUME NEW b \in {h \in Headers : IsPushData(h)}, NEW d \in Datagrams, PushData(b, d)
      PROVE  UplinkInv'
  <2>1. b \in Header /\ d \in Seq(Frame)
    BY UplinkFramesAssumption
  <2>2. /\ received' = [size |-> b.size, read |-> Read(b)]
        /\ datagram' = d /\ sent' = <<>> /\ todo' = <<>>
        /\ step' \in {"done", "received"} /\ acked' \in BOOLEAN
        /\ step' = "done" => \E k \in DOMAIN d : d[k].form = "json"
    BY <1>1 DEF PushData
  <2>3. TypeOK'
    BY <1>e, <2>1, <2>2, ReadFits DEF TypeOK, Header
  <2>a. step' = "received" => \A k \in DOMAIN d : d[k].form # "json"
    BY <1>1 DEF PushData
  <2>4. StepInv'
    BY <2>1, <2>2, <2>a, ReadFits DEF StepInv
  <2>5. step' = "done" => ~Convertible'
    BY <2>2 DEF Convertible
  <2> QED BY <2>2, <2>3, <2>4, <2>5, Quiet
<1>2. ASSUME NEW b \in Headers, Receive(b)
      PROVE  UplinkInv'
  <2>1. b \in Header
    BY UplinkFramesAssumption
  <2>2. /\ received' = [size |-> b.size, read |-> Read(b)] /\ step = "idle"
        /\ datagram' = datagram /\ sent' = sent /\ todo' = todo
        /\ step' = "done" /\ acked' \in BOOLEAN
    BY <1>2 DEF Receive
  <2>3. datagram = <<>> /\ sent = <<>> /\ todo = <<>>
    BY <1>0, <2>2 DEF StepInv
  <2>4. TypeOK'
    BY <1>0, <2>1, <2>2, ReadFits DEF TypeOK, Header
  <2>5. StepInv'
    BY <2>1, <2>2, <2>3, ReadFits DEF StepInv
  <2> QED BY <2>2, <2>3, <2>4, <2>5, Quiet
<1>3. ASSUME NEW f \in Events, Event(f)
      PROVE  UplinkInv'
  <2>1. f \in Frame /\ f.signals = 0 /\ Max1(f.signals) = 1
    BY UplinkFramesAssumption DEF Max1
  <2>2. /\ datagram' = <<f>> /\ sent' = <<>> /\ todo' = << <<1, 1>> >>
        /\ step' = "loop" /\ acked' = FALSE /\ received' = received
    BY <1>3 DEF Event
  <2>3. TypeOK'
    <3>1. <<f>> \in Seq(Frame)
      BY <2>1
    <3>2. << <<1, 1>> >> \in Seq(Nat \X Nat)
      OBVIOUS
    <3>3. <<>> \in Seq(Sent)
      BY <1>e
    <3> QED BY <1>0, <2>2, <3>1, <3>2, <3>3 DEF TypeOK
  <2>a. Convertible'
    BY <2>2, UplinkFramesAssumption DEF Convertible
  <2>4. StepInv' /\ MessageInv'
    BY <1>0, <2>2, <2>a DEF StepInv, MessageInv
  <2>5. OrderInv'
    BY <2>1, <2>2 DEF OrderInv, IsSignal
  <2>6. CompleteInv'
    BY <2>1, <2>2 DEF CompleteInv, Forwarded
  <2> QED BY <2>3, <2>4, <2>5, <2>6 DEF UplinkInv
<1>4. CASE Convert
  <2>1. /\ step = "received" /\ received' = received /\ datagram' = datagram
        /\ acked' = acked /\ sent' = sent /\ sent = <<>> /\ datagram \in Seq(Frame)
    BY <1>0, <1>4 DEF Convert, StepInv, TypeOK
  <2>2. CASE \E k \in DOMAIN datagram : datagram[k].form = "codr"
    <3>1. step' = "done" /\ todo' = <<>>
      BY <1>4, <2>2 DEF Convert
    <3>2. TypeOK' /\ StepInv'
      BY <1>0, <1>e, <2>1, <3>1 DEF TypeOK, StepInv
    <3>3. ~Convertible'
      BY <2>1, <2>2 DEF Convertible
    <3> QED BY <2>1, <3>1, <3>2, <3>3, Quiet
  <2>3. CASE ~ \E k \in DOMAIN datagram : datagram[k].form = "codr"
    <3>1. step' = "loop" /\ todo' = Converted(datagram)
      BY <1>4, <2>3 DEF Convert
    <3>2. Listed(datagram, Len(datagram), todo') /\ DOMAIN datagram = 1..Len(datagram)
      BY <2>1, <3>1, ConvertedListed, LenProperties
    <3>a. Convertible'
      <4> SUFFICES ASSUME NEW k \in DOMAIN datagram PROVE datagram[k].form = "good"
        BY <2>1 DEF Convertible
      <4>1. datagram[k] \in Frame
        BY <2>1, <3>2, ElementOfSeq
      <4>2. datagram[k].form \in {"json", "codr", "good"}
        BY <4>1 DEF Frame
      <4> QED BY <1>0, <2>1, <2>3, <4>2 DEF StepInv
    <3>3. TypeOK' /\ StepInv' /\ MessageInv'
      BY <1>0, <2>1, <3>1, <3>2, <3>a DEF TypeOK, StepInv, MessageInv, Listed
    <3>4. OrderInv'
      BY <2>1, <3>2 DEF OrderInv, Listed
    <3>5. CompleteInv'
      BY <2>1, <3>2 DEF CompleteInv, Forwarded, Listed
    <3> QED BY <3>3, <3>4, <3>5 DEF UplinkInv
  <2> QED BY <2>2, <2>3
<1>5. CASE Ignore
  BY <1>5, Dropped DEF Ignore
<1>6. CASE Refuse
  BY <1>6, Dropped DEF Refuse
<1>7. CASE SendUplink
  BY <1>7, SendKeeps
<1>8. CASE LoopDone
  <2>1. /\ step = "loop" /\ todo = <<>> /\ step' = "done" /\ received' = received
        /\ datagram' = datagram /\ todo' = todo /\ acked' = acked /\ sent' = sent
    BY <1>8 DEF LoopDone
  <2>2. TypeOK' /\ StepInv' /\ MessageInv' /\ OrderInv'
    BY <1>0, <2>1 DEF TypeOK, StepInv, MessageInv, OrderInv, Convertible
  <2>3. CompleteInv'
    BY <1>0, <2>1 DEF CompleteInv, Forwarded
  <2> QED BY <2>2, <2>3 DEF UplinkInv
<1>9. CASE Return
  <2>1. /\ received' = [size |-> 0, read |-> {}] /\ datagram' = <<>> /\ todo' = <<>>
        /\ step' = "idle" /\ acked' = FALSE /\ sent' = <<>>
    BY <1>9 DEF Return, Nothing
  <2>2. TypeOK' /\ StepInv'
    BY <1>e, <2>1 DEF TypeOK, StepInv
  <2> QED BY <2>1, <2>2, Quiet
<1>10. CASE UNCHANGED vars
  <2>1. /\ received' = received /\ datagram' = datagram /\ todo' = todo /\ step' = step
        /\ acked' = acked /\ sent' = sent
    BY <1>10 DEF vars
  <2>2. TypeOK' /\ StepInv' /\ MessageInv' /\ OrderInv'
    BY <1>0, <2>1 DEF TypeOK, StepInv, MessageInv, OrderInv, Convertible
  <2>3. CompleteInv'
    BY <1>0, <2>1 DEF CompleteInv, Forwarded, Convertible
  <2> QED BY <2>2, <2>3 DEF UplinkInv
<1> QED BY <1>1, <1>2, <1>3, <1>4, <1>5, <1>6, <1>7, <1>8, <1>9, <1>10 DEF Next

\* While a datagram is handled, what was sent and what is to do are its signals, in
\* their order and complete.
THEOREM UplinkCorrect == Spec => []UplinkInv
<1>1. Init => UplinkInv
  <2> SUFFICES ASSUME Init PROVE UplinkInv
    OBVIOUS
  <2>1. /\ received = [size |-> 0, read |-> {}] /\ datagram = <<>> /\ todo = <<>>
        /\ step = "idle" /\ acked = FALSE /\ sent = <<>>
    BY DEF Init, Nothing
  <2>2. TypeOK /\ StepInv
    BY <2>1, EmptySeq DEF TypeOK, StepInv
  <2>3. MessageInv /\ OrderInv /\ CompleteInv
    BY <2>1 DEF MessageInv, OrderInv, CompleteInv
  <2> QED BY <2>2, <2>3 DEF UplinkInv
<1> QED BY <1>1, UplinkStep, PTL DEF Spec

-----------------------------------------------------------------------------
(* What follows from it                                                    *)

\* The frame of a message, and its fields.
LEMMA MessageFacts ==
    ASSUME UplinkInv, NEW k \in DOMAIN sent
    PROVE  /\ datagram[sent[k].of[1]] \in Frame /\ Encodable(datagram[sent[k].of[1]])
           /\ Wanted(datagram[sent[k].of[1]])
           /\ sent[k].fields = Fields(datagram[sent[k].of[1]])
           /\ IsSignal(datagram, sent[k].of)
           /\ \E a, b \in Nat : sent[k].of = <<a, b>>
<1> DEFINE Sent == [of : Nat \X Nat, fields : Seq(FieldType)]
<1>1. /\ IsSignal(datagram, sent[k].of) /\ Wanted(datagram[sent[k].of[1]])
      /\ Encodable(datagram[sent[k].of[1]])
      /\ sent[k].fields = Fields(datagram[sent[k].of[1]])
  BY DEF UplinkInv, MessageInv
<1>2. datagram \in Seq(Frame) /\ sent \in Seq(Sent)
  BY DEF UplinkInv, TypeOK
<1> HIDE DEF Sent
<1>3. sent[k] \in Sent
  BY <1>2, LenProperties, ElementOfSeq
<1>4. \E a, b \in Nat : sent[k].of = <<a, b>>
  BY <1>3 DEF Sent
<1>5. datagram[sent[k].of[1]] \in Frame
  BY <1>1, <1>2, LenProperties, ElementOfSeq DEF IsSignal
<1> QED BY <1>1, <1>4, <1>5

\* No byte is read that was not received, of a datagram or of a frame.
THEOREM ReadsCorrect == Spec => []ReadsWhatArrived
<1>1. UplinkInv => ReadsWhatArrived
  <2> SUFFICES ASSUME UplinkInv PROVE ReadsWhatArrived
    OBVIOUS
  <2>1. received.read \subseteq 0..(received.size - 1)
    BY DEF UplinkInv, StepInv
  <2>2. ASSUME NEW k \in DOMAIN sent, NEW i \in DOMAIN sent[k].fields
        PROVE  /\ 0 <= sent[k].fields[i].from
               /\ sent[k].fields[i].from <= sent[k].fields[i].to
               /\ sent[k].fields[i].to <= datagram[sent[k].of[1]].len
    <3>1. PICK f : f = datagram[sent[k].of[1]]
      OBVIOUS
    <3>2. f \in Frame /\ Encodable(f) /\ sent[k].fields = Fields(f)
      BY <3>1, MessageFacts
    <3>3. Fields(f) \in Seq(Within(f.len))
      BY <3>2, FieldsFit
    <3>4. Fields(f)[i] \in Within(f.len)
      BY <2>2, <3>2, <3>3, LenProperties, ElementOfSeq
    <3>5. PICK x \in FieldType : x = Fields(f)[i] /\ x.from <= x.to /\ x.to <= f.len
      BY <3>4 DEF Within
    <3>6. 0 <= x.from
      BY DEF FieldType
    <3> QED BY <3>1, <3>2, <3>5, <3>6
  <2> QED BY <2>1, <2>2 DEF ReadsWhatArrived
<1> QED BY <1>1, UplinkCorrect, PTL

\* The fields of a well-formed frame follow each other from its first byte to its last.
THEOREM TileCorrect == Spec => []FieldsTile
<1>1. UplinkInv => FieldsTile
  <2> SUFFICES ASSUME UplinkInv, NEW k \in DOMAIN sent, NEW f, NEW fs,
                      f = datagram[sent[k].of[1]], fs = sent[k].fields, WellFormed(f)
               PROVE  /\ fs[1].from = (IF f.mtype = 7 THEN 1 ELSE 0)
                      /\ fs[Len(fs)].to = f.len
                      /\ \A i \in 1..(Len(fs) - 1) : fs[i].to = fs[i + 1].from
    BY DEF FieldsTile
  <2>1. f \in Frame /\ Encodable(f) /\ fs = Fields(f)
    BY MessageFacts
  <2>2. Tiles(fs, IF f.mtype = 7 THEN 1 ELSE 0, f.len) /\ fs # <<>>
    BY <2>1, FieldsFit
  <2> QED BY <2>2 DEF Tiles
<1> QED BY <1>1, UplinkCorrect, PTL

\* Every signal of a wanted frame is forwarded once and in order, and no other;
\* nothing is when one frame of the datagram does not convert.
THEOREM ForwardCorrect == Spec => []ForwardedOnceInOrder
<1>1. UplinkInv => ForwardedOnceInOrder
  <2> SUFFICES ASSUME UplinkInv PROVE ForwardedOnceInOrder
    OBVIOUS
  <2>0. datagram \in Seq(Frame) /\ DOMAIN sent = 1..Len(sent) /\ Len(sent) \in Nat
    BY LenProperties DEF UplinkInv, TypeOK
  <2>1. \A i \in DOMAIN sent : datagram[sent[i].of[1]].crc \in Forward
    BY MessageFacts DEF Wanted, Encodable
  <2>2. \A i, j \in DOMAIN sent : i < j => Earlier(sent[i].of, sent[j].of)
    BY DEF UplinkInv, OrderInv
  <2>a. ~Convertible => sent = <<>>
    BY DEF UplinkInv, StepInv
  <2>3. ASSUME step = "done", Convertible, NEW k \in DOMAIN datagram,
               datagram[k].crc \in Forward, Encodable(datagram[k])
        PROVE  Cardinality({i \in DOMAIN sent : sent[i].of[1] = k})
                 = Max1(datagram[k].signals)
    <3> DEFINE n == Max1(datagram[k].signals)
               S == {i \in DOMAIN sent : sent[i].of[1] = k}
               g == [s \in 1..n |-> CHOOSE i \in DOMAIN sent : sent[i].of = <<k, s>>]
    <3>1. n \in Nat
      BY <2>0, SignalsFacts
    <3>2. \A s \in 1..n : \E i \in DOMAIN sent : sent[i].of = <<k, s>>
      <4>1. todo = <<>>
        BY <2>3 DEF UplinkInv, StepInv
      <4>2. \A s \in 1..n : Forwarded(<<k, s>>)
        BY <2>3 DEF UplinkInv, CompleteInv, Wanted
      <4> HIDE DEF n
      <4>3. ASSUME NEW s \in 1..n PROVE \E i \in DOMAIN sent : sent[i].of = <<k, s>>
        <5>1. Forwarded(<<k, s>>)
          BY <4>2
        <5>2. ~ \E i \in DOMAIN todo : todo[i] = <<k, s>>
          BY <4>1
        <5> QED BY <5>1, <5>2 DEF Forwarded
      <4> QED BY <4>3
    <3>3. ASSUME NEW i \in S PROVE \E s \in 1..n : sent[i].of = <<k, s>>
      <4>1. PICK a, b \in Nat : sent[i].of = <<a, b>>
        BY MessageFacts
      <4>2. a = k /\ b \in 1..n
        BY <4>1, MessageFacts DEF IsSignal
      <4> QED BY <4>1, <4>2
    <3> HIDE DEF n
    <3>4. \A s \in 1..n : g[s] \in DOMAIN sent /\ sent[g[s]].of = <<k, s>>
      BY <3>2
    <3>5. g \in [1..n -> S]
      <4>1. ASSUME NEW s \in 1..n PROVE g[s] \in S
        <5> HIDE DEF g
        <5>1. PICK j \in DOMAIN sent : j = g[s] /\ sent[j].of = <<k, s>>
          BY <3>4
        <5>2. sent[j].of[1] = k
          BY <5>1
        <5> QED BY <5>1, <5>2
      <4>2. g = [s \in 1..n |-> g[s]]
        OBVIOUS
      <4> HIDE DEF g, S
      <4> QED BY <4>1, <4>2
    <3> HIDE DEF g
    <3>6. ASSUME NEW s \in 1..n, NEW t \in 1..n, g[s] = g[t] PROVE s = t
      <4>1. <<k, s>> = <<k, t>>
        BY <3>4, <3>6
      <4> QED BY <4>1
    <3>7. ASSUME NEW i \in S PROVE \E s \in 1..n : g[s] = i
      <4>1. PICK s \in 1..n : sent[i].of = <<k, s>>
        BY <3>3
      <4>2. g[s] \in DOMAIN sent /\ sent[g[s]].of = <<k, s>>
        BY <3>4
      <4>3. PICK j \in DOMAIN sent : j = g[s] /\ sent[j].of = sent[i].of
        BY <4>1, <4>2
      <4>4. s \in Int /\ ~Earlier(<<k, s>>, <<k, s>>)
        <5>1. s \in Int /\ k \in Int
          BY <2>0, <3>1, LenProperties
        <5> QED BY <5>1 DEF Earlier
      <4>5. ~(i < j) /\ ~(j < i)
        BY <2>2, <4>1, <4>3, <4>4
      <4>6. i = j
        BY <2>0, <4>5
      <4> QED BY <4>3, <4>6
    <3> HIDE DEF S
    <3>8. g \in Bijection(1..n, S)
      BY <3>5, <3>6, <3>7 DEF Bijection, Injection, Surjection, IsInjective
    <3>9. Cardinality(S) = n
      BY <3>1, <3>8, FS_CountingElements DEF ExistsBijection
    <3> QED BY <3>9 DEF S, n
  <2> QED BY <2>1, <2>2, <2>3, <2>a DEF ForwardedOnceInOrder, Earlier
<1> QED BY <1>1, UplinkCorrect, PTL

=============================================================================
