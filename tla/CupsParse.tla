------------------------------- MODULE CupsParse -------------------------------
(***************************************************************************)
(* parse_response: the cursor over the six segments of a CUPS response.    *)
(* Bytes matter only as the lengths they declare, so a response is its     *)
(* size and, segment by segment, any length that fits the prefix.  Sums    *)
(* are taken in usize, Word values of it, as a release build does.         *)
(***************************************************************************)
EXTENDS Integers, Sequences

CONSTANTS
    MaxSize,    \* bound: bytes of a response
    Lengths,    \* lengths a prefix may declare
    Word        \* 2^64, or 2^32 on the 32-bit targets

ASSUME ParseAssumption ==
    /\ MaxSize \in Nat /\ Lengths \subseteq Nat /\ Word \in Nat
    /\ \A d \in Lengths : d < Word
    /\ MaxSize + 4 < Word

\* cupsUri, tcUri, cupsCred, tcCred, signature, update: bytes of the prefix.
PrefixWidth == <<1, 1, 2, 2, 4, 4>>

MinSize == 14

VARIABLES
    size,       \* data.len()
    pos,
    segments,   \* the segments parsed: where each begins and its length
    refused,    \* history: the length that was refused, or 0
    outcome     \* "parsing", "ok", "error" or "panic"

vars == <<size, pos, segments, refused, outcome>>

Init ==
    /\ size \in 0..MaxSize /\ pos = 0 /\ segments = <<>> /\ refused = 0
    /\ outcome = IF size < MinSize THEN "error" ELSE "parsing"

Field == Len(segments) + 1

Parsing == outcome = "parsing" /\ Field <= 6

End(result, declared) ==
    outcome' = result /\ refused' = declared /\ UNCHANGED <<size, pos, segments>>

\* Mutant of PrefixChecked: the check of the fourth length is missing.
PrefixCheckedLess(field) == field \in {3, 5, 6}

\* The first two lengths are read without a check of their own.
PrefixChecked(field) == field >= 3

PrefixMissing ==
    /\ Parsing /\ pos + PrefixWidth[Field] > size
    /\ End(IF PrefixChecked(Field) THEN "error" ELSE "panic", 0)

\* Mutant of Fits: the byte at the end is left out.
FitsShort(at, declared) == (at + declared) % Word < size

\* The check of the code, in usize.
Fits(at, declared) == (at + declared) % Word <= size

\* Mutant of EndOf: the CRC is counted twice.
EndOfTwice(at, declared) == IF Field = 5 /\ declared > 0 THEN at + declared + 4 ELSE at + declared

EndOf(at, declared) == at + declared

\* The signature has the CRC of its key in front.  Indexing from at up to
\* at + declared panics when the sum wrapped; a length of one or two bytes is too
\* small for that.
Segment(declared) ==
    LET at == pos + PrefixWidth[Field]
        ok == Fits(at, declared) /\ (Field = 5 => declared >= 4)
    IN  /\ Parsing /\ at <= size
        /\ Field <= 4 => MaxSize + declared < Word
        /\ IF declared > 0 /\ ~ok THEN End("error", declared)
           ELSE IF at + declared >= Word THEN End("panic", declared)
           ELSE /\ segments' = Append(segments, [from |-> at, length |-> declared])
                /\ pos' = EndOf(at, declared)
                /\ UNCHANGED <<size, refused, outcome>>

Finish ==
    /\ outcome = "parsing" /\ Field = 7
    /\ End("ok", 0)

Next == PrefixMissing \/ (\E d \in Lengths : Segment(d)) \/ Finish

Spec == Init /\ [][Next]_vars

-----------------------------------------------------------------------------
(* Properties                                                              *)

\* The bytes that the lengths of segments 1..k take, with their prefixes.
Layout[k \in 0..6] ==
    IF k = 0 THEN 0 ELSE Layout[k - 1] + PrefixWidth[k] + segments[k].length

\* Segments follow each other without a gap, each behind its prefix, and the
\* position never leaves the data, nor falls behind a segment that was taken.
SegmentsInOrder ==
    /\ pos \in Layout[Len(segments)]..size
    /\ \A k \in DOMAIN segments : segments[k].from + segments[k].length = Layout[k]

\* A response is refused only when it is cut: what it declares up to here does not
\* fit, or its signature has no room for the CRC.
RefusedOnlyIfCut ==
    outcome = "error" =>
        \/ size < MinSize
        \/ pos + PrefixWidth[Field] + refused > size
        \/ Field = 5 /\ refused \in 1..3

\* Two kinds of response only make the parser panic: the CUPS URI ends where the
\* data ends, so that there is no length of the TC URI (client.rs:90), or, where
\* usize has 32 bits, the length of the signature or of the update wraps the sum.
PanicsOnlyThere ==
    outcome = "panic" => \/ Field = 2 /\ pos = size
                         \/ Field >= 5 /\ pos + PrefixWidth[Field] + refused >= Word

\* DEVELOPERS.md:536: "All fallible functions return anyhow::Result<T>" and
\* "errors are ... logged and retried for transient ones": no response makes the
\* parser panic.
NeverPanics == outcome # "panic"

\* What makes them inductive: the cursor is where the segments taken end.
SegmentType == [from : Nat, length : Lengths]

TypeOK ==
    /\ size \in 0..MaxSize /\ pos \in 0..MaxSize /\ refused \in Lengths \cup {0}
    /\ segments \in Seq(SegmentType) /\ Len(segments) <= 6
    /\ outcome \in {"parsing", "ok", "error", "panic"}

ParseInv ==
    /\ TypeOK
    /\ outcome = "parsing" => size >= MinSize
    /\ pos = Layout[Len(segments)]
    /\ SegmentsInOrder /\ RefusedOnlyIfCut /\ PanicsOnlyThere
==============================================================================
