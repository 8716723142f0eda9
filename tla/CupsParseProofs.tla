---------------------------- MODULE CupsParseProofs ----------------------------
(***************************************************************************)
(* Proofs about CupsParse, for every size of a response, every length its  *)
(* prefixes may declare and every width of usize that has room for the     *)
(* response: where the cursor is, why a response is refused, and which two *)
(* kinds of it make the parser panic.                                      *)
(***************************************************************************)
EXTENDS CupsParse, SequenceTheorems, TLAPS

\* The prefixes have one to four bytes, the first two of them one.
LEMMA Prefixes ==
    PrefixWidth[1] = 1 /\ PrefixWidth[2] = 1 /\ \A k \in 1..6 : PrefixWidth[k] \in 1..4
  BY DEF PrefixWidth

\* The layout is the sum it is defined to be.
LEMMA LayoutIs ==
    /\ Layout[0] = 0
    /\ \A k \in 1..6 : Layout[k] = Layout[k - 1] + PrefixWidth[k] + segments[k].length
<1> DEFINE Sum(k, before) == before + PrefixWidth[k] + segments[k].length
           a1 == Sum(1, 0)
           a2 == Sum(2, a1)
           a3 == Sum(3, a2)
           a4 == Sum(4, a3)
           a5 == Sum(5, a4)
           a6 == Sum(6, a5)
           g == [k \in 0..6 |-> IF k = 0 THEN 0 ELSE IF k = 1 THEN a1 ELSE IF k = 2 THEN a2
                                ELSE IF k = 3 THEN a3 ELSE IF k = 4 THEN a4
                                ELSE IF k = 5 THEN a5 ELSE a6]
           Solves(f) == f = [k \in 0..6 |-> IF k = 0 THEN 0
                                ELSE f[k - 1] + PrefixWidth[k] + segments[k].length]
           F == CHOOSE f : Solves(f)
<1> HIDE DEF Sum
<1>1. /\ g[0] = 0 /\ g[1] = a1 /\ g[2] = a2 /\ g[3] = a3 /\ g[4] = a4 /\ g[5] = a5
      /\ g[6] = a6 /\ g = [k \in 0..6 |-> g[k]]
  OBVIOUS
<1> HIDE DEF g
<1>2. \A k \in 1..6 : g[k] = Sum(k, g[k - 1])
  <2>1. g[1] = Sum(1, g[0]) /\ g[2] = Sum(2, g[1]) /\ g[3] = Sum(3, g[2])
    BY <1>1
  <2>2. g[4] = Sum(4, g[3]) /\ g[5] = Sum(5, g[4]) /\ g[6] = Sum(6, g[5])
    BY <1>1
  <2>3. \A k \in 1..6 : \/ k = 1 /\ k - 1 = 0
                        \/ k = 2 /\ k - 1 = 1
                        \/ k = 3 /\ k - 1 = 2
                        \/ k = 4 /\ k - 1 = 3
                        \/ k = 5 /\ k - 1 = 4
                        \/ k = 6 /\ k - 1 = 5
    OBVIOUS
  <2> HIDE DEF a1, a2, a3, a4, a5, a6
  <2> QED BY <2>1, <2>2, <2>3
<1> HIDE DEF a1, a2, a3, a4, a5, a6
<1>3. Solves(g)
  <2>1. \A k \in 0..6 : k # 0 => k \in 1..6
    OBVIOUS
  <2>2. \A k \in 0..6 : g[k] = IF k = 0 THEN 0
                                ELSE g[k - 1] + PrefixWidth[k] + segments[k].length
    BY <1>1, <1>2, <2>1 DEF Sum
  <2> QED BY <1>1, <2>2
<1>4. Solves(F)
  BY <1>3, Zenon
<1>5. Layout = F
  BY Zenon DEF Layout
<1>6. \A k \in 0..6 : F[k] = IF k = 0 THEN 0
                              ELSE F[k - 1] + PrefixWidth[k] + segments[k].length
  BY <1>4
<1> HIDE DEF F
<1>7. 0 \in 0..6 /\ \A k \in 1..6 : k \in 0..6 /\ k # 0
  OBVIOUS
<1> QED BY <1>5, <1>6, <1>7

\* In the next state too.
LEMMA LayoutIsNext ==
    /\ Layout'[0] = 0
    /\ \A k \in 1..6 : Layout'[k] = Layout'[k - 1] + PrefixWidth[k] + segments'[k].length
<1>1. (/\ Layout[0] = 0
       /\ \A k \in 1..6 : Layout[k] = Layout[k - 1] + PrefixWidth[k] + segments[k].length)'
  BY LayoutIs, PTL
<1> QED BY <1>1

\* A new segment leaves the layout of those before it and ends behind its prefix.
LEMMA LayoutGrows ==
    ASSUME NEW S, segments \in Seq(S), Len(segments) < 6, NEW x \in S,
           segments' = Append(segments, x)
    PROVE  /\ \A k \in 0..Len(segments) : Layout'[k] = Layout[k]
           /\ Layout'[Len(segments) + 1]
                = Layout[Len(segments)] + PrefixWidth[Len(segments) + 1] + x.length
<1> DEFINE n == Len(segments)
<1>1. /\ n \in Nat /\ n < 6 /\ segments'[n + 1] = x
      /\ \A k \in 1..n : segments'[k] = segments[k]
  BY LenProperties, AppendProperties
<1> HIDE DEF n
<1> DEFINE old == Layout
           new == Layout'
<1>2. new[0] = 0 /\ \A k \in 1..6 : new[k] = new[k - 1] + PrefixWidth[k] + segments'[k].length
  BY LayoutIsNext
<1>3. old[0] = 0 /\ \A k \in 1..6 : old[k] = old[k - 1] + PrefixWidth[k] + segments[k].length
  BY LayoutIs
<1> HIDE DEF old, new
<1>4. ASSUME NEW k \in 1..6, k - 1 <= n => new[k - 1] = old[k - 1], k <= n
      PROVE  new[k] = old[k]
  <2>1. k - 1 <= n /\ k \in 1..n
    BY <1>1, <1>4
  <2> QED BY <1>1, <1>2, <1>3, <1>4, <2>1
<1>5. new[0] = old[0]
  BY <1>2, <1>3
<1>6. 1 <= n => new[1] = old[1]
  BY <1>4, <1>5
<1>7. 2 <= n => new[2] = old[2]
  BY <1>4, <1>6
<1>8. 3 <= n => new[3] = old[3]
  BY <1>4, <1>7
<1>9. 4 <= n => new[4] = old[4]
  BY <1>4, <1>8
<1>10. 5 <= n => new[5] = old[5]
  BY <1>4, <1>9
<1>11. \A k \in 0..n : k = 0 \/ k = 1 \/ k = 2 \/ k = 3 \/ k = 4 \/ k = 5
  BY <1>1
<1>12. \A k \in 0..n : new[k] = old[k]
  BY <1>1, <1>5, <1>6, <1>7, <1>8, <1>9, <1>10, <1>11
<1>13. new[n + 1] = old[n] + PrefixWidth[n + 1] + x.length
  <2>1. n + 1 \in 1..6 /\ (n + 1) - 1 = n /\ n \in 0..n
    BY <1>1
  <2> QED BY <1>1, <1>2, <1>12, <2>1
<1> QED BY <1>12, <1>13 DEF n, old, new

\* A number below the width of usize is its own remainder, and no remainder is more
\* than its number.
LEMMA Wrap ==
    ASSUME NEW a \in Nat, NEW w \in Nat \ {0}
    PROVE  /\ a % w \in Nat /\ a % w <= a
           /\ a < w => a % w = a
<1>1. CASE a < w
  <2>1. a % w = a
    BY <1>1
  <2> QED BY <2>1
<1>2. CASE a >= w
  <2>1. a % w \in 0..(w - 1)
    OBVIOUS
  <2> QED BY <1>2, <2>1
<1> QED BY <1>1, <1>2

\* The field that is parsed has a number from one to seven.
LEMMA FieldFacts ==
    ASSUME TypeOK
    PROVE  /\ Len(segments) \in Nat /\ Field = Len(segments) + 1 /\ Field \in 1..7
           /\ Field <= 6 => PrefixWidth[Field] \in 1..4 /\ pos + PrefixWidth[Field] \in Nat
           /\ size \in Nat /\ size <= MaxSize /\ pos \in Nat /\ pos <= MaxSize
<1>1. Len(segments) \in Nat /\ Len(segments) <= 6
  BY LenProperties DEF TypeOK
<1>2. size \in Nat /\ size <= MaxSize /\ pos \in Nat /\ pos <= MaxSize
  BY ParseAssumption DEF TypeOK
<1>3. Field \in 1..7 /\ Field = Len(segments) + 1
  BY <1>1 DEF Field
<1>4. Field <= 6 => PrefixWidth[Field] \in 1..4
  BY <1>3, Prefixes
<1>5. Field <= 6 => pos + PrefixWidth[Field] \in Nat
  BY <1>2, <1>4
<1> QED BY <1>1, <1>2, <1>3, <1>4, <1>5

\* A segment is taken.
LEMMA TakenKeeps ==
    ASSUME ParseInv, Parsing, NEW at, at = pos + PrefixWidth[Field], at <= size,
           NEW declared \in Lengths, declared > 0 => Fits(at, declared),
           at + declared < Word,
           segments' = Append(segments, [from |-> at, length |-> declared]),
           pos' = at + declared, UNCHANGED <<size, refused, outcome>>
    PROVE  ParseInv'
<1> DEFINE x == [from |-> at, length |-> declared]
           n == Len(segments)
<1>0. declared \in Nat /\ Word \in Nat \ {0} /\ outcome = "parsing" /\ Field <= 6
  BY ParseAssumption DEF Parsing
<1>1. /\ TypeOK /\ n \in Nat /\ n < 6 /\ Field = n + 1 /\ Field \in 1..6
      /\ at \in Nat /\ size \in Nat /\ size <= MaxSize /\ pos \in Nat
      /\ PrefixWidth[Field] \in 1..4
  BY <1>0, FieldFacts DEF ParseInv
<1>2. x \in SegmentType /\ segments \in Seq(SegmentType) /\ x.length = declared /\ x.from = at
  BY <1>1 DEF SegmentType, TypeOK, ParseInv
<1> HIDE DEF x
<1>3. segments' = Append(segments, x)
  BY DEF x
<1>4. /\ segments' \in Seq(SegmentType) /\ Len(segments') = n + 1 /\ segments'[n + 1] = x
      /\ \A k \in 1..n : segments'[k] = segments[k]
      /\ DOMAIN segments = 1..n /\ DOMAIN segments' = 1..(n + 1)
  <2>1. /\ segments' \in Seq(SegmentType) /\ Len(segments') = n + 1 /\ segments'[n + 1] = x
        /\ \A k \in 1..n : segments'[k] = segments[k]
    BY <1>2, <1>3, AppendProperties
  <2> QED BY <1>2, <2>1, LenProperties
<1>5. at + declared \in Nat /\ at + declared <= size
  <2>1. CASE declared = 0
    BY <1>1, <2>1
  <2>2. CASE declared > 0
    <3>1. at + declared \in Nat
      BY <1>0, <1>1
    <3>2. (at + declared) % Word = at + declared
      BY <1>0, <3>1, Wrap
    <3> QED BY <2>2, <3>1, <3>2 DEF Fits
  <2> QED BY <1>0, <2>1, <2>2
<1>6. TypeOK'
  <2>1. at + declared \in 0..MaxSize
    BY <1>1, <1>5, ParseAssumption
  <2> QED BY <1>1, <1>4, <2>1 DEF TypeOK
<1>7. /\ \A k \in 0..n : Layout'[k] = Layout[k]
      /\ Layout'[n + 1] = Layout[n] + PrefixWidth[n + 1] + declared
  BY <1>1, <1>2, <1>3, LayoutGrows
<1>8. pos' = Layout'[n + 1]
  BY <1>1, <1>7 DEF ParseInv
<1>9. pos' = Layout'[Len(segments')]
  BY <1>4, <1>8
<1>10. SegmentsInOrder'
  <2>1. pos' \in Layout'[Len(segments')]..size'
    BY <1>1, <1>5, <1>9
  <2>2. ASSUME NEW k \in DOMAIN segments'
        PROVE  segments'[k].from + segments'[k].length = Layout'[k]
    <3>1. CASE k \in 1..n
      <4>1. k \in 0..n /\ segments'[k] = segments[k]
        BY <1>1, <1>4, <3>1
      <4> QED BY <1>4, <1>7, <3>1, <4>1 DEF ParseInv, SegmentsInOrder
    <3>2. CASE k = n + 1
      BY <1>2, <1>4, <1>8, <3>2
    <3> QED BY <1>1, <1>4, <3>1, <3>2
  <2> QED BY <2>1, <2>2 DEF SegmentsInOrder
<1>11. RefusedOnlyIfCut' /\ PanicsOnlyThere'
  BY <1>0 DEF RefusedOnlyIfCut, PanicsOnlyThere
<1>12. size' >= MinSize
  BY <1>0 DEF ParseInv
<1> QED BY <1>6, <1>9, <1>10, <1>11, <1>12 DEF ParseInv

\* The parser stops; only the outcome and what was refused change.
LEMMA EndKeeps ==
    ASSUME ParseInv, outcome = "parsing", NEW result \in {"ok", "error", "panic"},
           NEW declared \in Lengths \cup {0}, End(result, declared),
           result = "error" => \/ pos + PrefixWidth[Field] + declared > size
                               \/ Field = 5 /\ declared \in 1..3,
           result = "panic" => \/ Field = 2 /\ pos = size
                               \/ Field >= 5 /\ pos + PrefixWidth[Field] + declared >= Word
    PROVE  ParseInv'
<1>1. /\ outcome' = result /\ refused' = declared /\ size' = size /\ pos' = pos
      /\ segments' = segments
  BY DEF End
<1>2. TypeOK'
  BY <1>1 DEF TypeOK, ParseInv
<1>3. Layout' = Layout /\ Field' = Field
  BY <1>1 DEF Layout, Field
<1>4. SegmentsInOrder'
  BY <1>1, <1>3 DEF SegmentsInOrder, ParseInv
<1>5. RefusedOnlyIfCut' /\ PanicsOnlyThere'
  BY <1>1, <1>3 DEF RefusedOnlyIfCut, PanicsOnlyThere
<1> QED BY <1>1, <1>2, <1>3, <1>4, <1>5 DEF ParseInv

\* The cursor is where the segments taken end; the parser stops for the reasons given.
THEOREM ParseCorrect == Spec => []ParseInv
<1>1. Init => ParseInv
  <2> SUFFICES ASSUME Init PROVE ParseInv
    OBVIOUS
  <2>1. /\ size \in 0..MaxSize /\ pos = 0 /\ segments = <<>> /\ refused = 0
        /\ outcome = (IF size < MinSize THEN "error" ELSE "parsing") /\ MaxSize \in Nat
    BY ParseAssumption DEF Init
  <2>2. Len(segments) = 0 /\ segments \in Seq(SegmentType)
    BY <2>1, EmptySeq
  <2>3. TypeOK
    BY <2>1, <2>2 DEF TypeOK
  <2>4. SegmentsInOrder /\ pos = Layout[Len(segments)]
    BY <2>1, <2>2, LayoutIs DEF SegmentsInOrder
  <2>5. RefusedOnlyIfCut /\ PanicsOnlyThere /\ (outcome = "parsing" => size >= MinSize)
    BY <2>1 DEF RefusedOnlyIfCut, PanicsOnlyThere, MinSize
  <2> QED BY <2>3, <2>4, <2>5 DEF ParseInv
<1>2. ParseInv /\ [Next]_vars => ParseInv'
  <2> SUFFICES ASSUME ParseInv, [Next]_vars PROVE ParseInv'
    OBVIOUS
  <2>0. /\ TypeOK /\ size \in Nat /\ pos \in Nat /\ pos <= size /\ size <= MaxSize
        /\ MaxSize \in Nat /\ Word \in Nat \ {0} /\ MaxSize + 4 < Word
        /\ Field = Len(segments) + 1 /\ Field \in 1..7 /\ Len(segments) \in Nat
    <3>1. Word \in Nat \ {0}
      BY ParseAssumption
    <3>2. pos <= size
      BY DEF ParseInv, SegmentsInOrder
    <3> QED BY <3>1, <3>2, ParseAssumption, FieldFacts DEF ParseInv
  <2>1. CASE PrefixMissing
    <3>1. /\ outcome = "parsing" /\ Field <= 6 /\ pos + PrefixWidth[Field] > size
          /\ End(IF PrefixChecked(Field) THEN "error" ELSE "panic", 0)
      BY <2>1 DEF PrefixMissing, Parsing
    <3>2. pos + PrefixWidth[Field] \in Nat
      BY <2>0, <3>1, FieldFacts
    <3>3. CASE PrefixChecked(Field)
      <4>1. pos + PrefixWidth[Field] + 0 > size
        BY <2>0, <3>1, <3>2
      <4> QED BY <3>1, <3>3, <4>1, EndKeeps
    <3>4. CASE ~PrefixChecked(Field)
      <4>1. Field = 1 \/ Field = 2
        BY <2>0, <3>4 DEF PrefixChecked
      <4>2. pos = size
        <5>1. PrefixWidth[Field] = 1
          BY <4>1, Prefixes
        <5> QED BY <2>0, <3>1, <5>1
      <4>3. Field # 1
        <5> SUFFICES ASSUME Field = 1 PROVE FALSE
          OBVIOUS
        <5>1. Len(segments) = 0
          BY <2>0
        <5>2. pos = 0
          BY <5>1, LayoutIs DEF ParseInv
        <5> QED BY <3>1, <4>2, <5>2 DEF ParseInv, MinSize
      <4> QED BY <3>1, <3>4, <4>1, <4>2, <4>3, EndKeeps
    <3> QED BY <3>3, <3>4
  <2>2. ASSUME NEW declared \in Lengths, Segment(declared)
        PROVE  ParseInv'
    <3> DEFINE at == pos + PrefixWidth[Field]
               ok == Fits(at, declared) /\ (Field = 5 => declared >= 4)
    <3>1. /\ Parsing /\ outcome = "parsing" /\ Field <= 6 /\ at <= size
          /\ Field <= 4 => MaxSize + declared < Word
      BY <2>2 DEF Segment, Parsing
    <3>2. at \in Nat /\ declared \in Nat /\ declared < Word /\ at + declared \in Nat
      BY <2>0, <3>1, FieldFacts, ParseAssumption
    <3>3. CASE declared > 0 /\ ~ok
      <4>1. End("error", declared)
        BY <2>2, <3>3 DEF Segment
      <4>2. ~Fits(at, declared) => at + declared > size
        BY <2>0, <3>2, Wrap DEF Fits
      <4>3. ~(Field = 5 => declared >= 4) => Field = 5 /\ declared \in 1..3
        BY <3>2, <3>3
      <4> QED BY <3>1, <3>3, <4>1, <4>2, <4>3, EndKeeps
    <3>4. CASE ~(declared > 0 /\ ~ok) /\ at + declared >= Word
      <4>1. End("panic", declared)
        BY <2>2, <3>4 DEF Segment
      <4>2. Field >= 5
        BY <2>0, <3>1, <3>2, <3>4
      <4> QED BY <3>1, <3>4, <4>1, <4>2, EndKeeps
    <3>5. CASE ~(declared > 0 /\ ~ok) /\ ~(at + declared >= Word)
      <4>1. /\ segments' = Append(segments, [from |-> at, length |-> declared])
            /\ pos' = at + declared
            /\ UNCHANGED <<size, refused, outcome>>
        BY <2>2, <3>5 DEF Segment, EndOf
      <4>2. at + declared < Word /\ (declared > 0 => Fits(at, declared))
        BY <2>0, <3>2, <3>5
      <4> HIDE DEF at
      <4> QED BY <3>1, <4>1, <4>2, TakenKeeps DEF at
    <3> QED BY <3>3, <3>4, <3>5
  <2>3. CASE Finish
    BY <2>3, EndKeeps DEF Finish
  <2>4. CASE UNCHANGED vars
    <3>1. /\ outcome' = outcome /\ refused' = refused /\ size' = size /\ pos' = pos
          /\ segments' = segments
      BY <2>4 DEF vars
    <3>2. Layout' = Layout /\ Field' = Field
      BY <3>1 DEF Layout, Field
    <3> QED BY <3>1, <3>2
            DEF ParseInv, TypeOK, SegmentsInOrder, RefusedOnlyIfCut, PanicsOnlyThere
  <2> QED BY <2>1, <2>2, <2>3, <2>4 DEF Next
<1> QED BY <1>1, <1>2, PTL DEF Spec

\* Segments follow each other without a gap and the cursor stays in the data.
THEOREM OrderCorrect == Spec => []SegmentsInOrder
<1>1. ParseInv => SegmentsInOrder
  BY DEF ParseInv
<1> QED BY <1>1, ParseCorrect, PTL

\* Only a response that is cut, or a signature without room for its CRC, is refused.
THEOREM RefusalCorrect == Spec => []RefusedOnlyIfCut
<1>1. ParseInv => RefusedOnlyIfCut
  BY DEF ParseInv
<1> QED BY <1>1, ParseCorrect, PTL

\* Only the two kinds of response make the parser panic.
THEOREM PanicCorrect == Spec => []PanicsOnlyThere
<1>1. ParseInv => PanicsOnlyThere
  BY DEF ParseInv
<1> QED BY <1>1, ParseCorrect, PTL

================================================================================
