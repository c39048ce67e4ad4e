--------------------------- MODULE SegmentEncoding ---------------------------
(***************************************************************************)
(* How numbers are stored in a segment: varints, lists of ascending        *)
(* numbers as deltas, and the positions of a token in its documents.       *)
(*                                                                         *)
(* A byte carries Payload bits (7 in the code) and a number has Width bits *)
(* (32).  Small values keep the boundaries: numbers of one and of several  *)
(* bytes, a last byte that is not full, a sequence that never ends.        *)
(***************************************************************************)
EXTENDS Integers, Sequences, FiniteSets, SequencesExt, FiniteSetsExt

CONSTANTS Payload, Width

ASSUME EncodingAssumption == Payload \in Nat \ {0} /\ Width \in Nat \ {0}

Low      == 2 ^ Payload      \* a byte from Low on says that another follows
MaxValue == 2 ^ Width - 1
MaxBytes == (Width + Payload - 1) \div Payload

Saturated(n) == IF n > MaxValue THEN MaxValue ELSE n

---------------------------------------------------------------------------
(* Varints: the low bits first *)

RECURSIVE EncodeVarint(_)
EncodeVarint(v) ==
    IF v < Low THEN <<v>> ELSE <<(v % Low) + Low>> \o EncodeVarint(v \div Low)

NoVarint == [ok |-> FALSE, value |-> 0, next |-> 0]

\* The number that starts at buf[at] and where the next one starts; none if
\* its end is missing or too far
DecodeVarint(buf, at) ==
    LET ends == {n \in 1..MaxBytes : at + n - 1 <= Len(buf) /\ buf[at + n - 1] < Low}
        value(n) == MapThenSumSet(LAMBDA i : (buf[at + i - 1] % Low) * Low ^ (i - 1), 1..n)
    IN  IF ends = {} THEN NoVarint
        ELSE [ok |-> TRUE, value |-> value(Min(ends)) % (MaxValue + 1), next |-> at + Min(ends)]

---------------------------------------------------------------------------
(* Ascending numbers *)

DeltaEncode(values) ==
    FlattenSeq([i \in DOMAIN values |->
        EncodeVarint(values[i] - IF i = 1 THEN 0 ELSE values[i - 1])])

\* At most n varints from buf[at] on, up to the first that cannot be read
RECURSIVE VarintsFrom(_, _, _)
VarintsFrom(buf, at, n) ==
    LET d == DecodeVarint(buf, at)
    IN  IF n = 0 \/ ~d.ok THEN [values |-> << >>, next |-> at]
        ELSE LET rest == VarintsFrom(buf, d.next, n - 1)
             IN  [rest EXCEPT !.values = <<d.value>> \o @]

Running(deltas) ==
    FoldLeft(LAMBDA sums, d :
                Append(sums, Saturated(d + IF sums = << >> THEN 0 ELSE Last(sums))),
             << >>, deltas)

DeltaDecode(buf) == Running(VarintsFrom(buf, 1, Len(buf)).values)

DeltaDecodeBitmap(buf) == Range(DeltaDecode(buf))

\* Only values of filter; reading stops at the first value beyond its maximum
DeltaDecodeIntersect(buf, filter) ==
    LET all == DeltaDecode(buf)
        within(i) == \A k \in 1..i : all[k] <= Max(filter)
    IN  IF filter = {} THEN {}
        ELSE {all[i] : i \in {j \in DOMAIN all : within(j)}} \cap filter

---------------------------------------------------------------------------
(* Positions: for each document its number, a count and its positions *)

EncodePositionPostings(entries) ==
    FlattenSeq([i \in DOMAIN entries |->
        EncodeVarint(entries[i].doc - IF i = 1 THEN 0 ELSE entries[i - 1].doc)
        \o EncodeVarint(Len(entries[i].at))
        \o DeltaEncode(entries[i].at)])

\* Seeded fault: positions are skipped as if each took one byte
SkipBytes(buf, at, n) == Min({at + n, Len(buf) + 1})

\* Where the next number starts once n of them are skipped, undecoded
SkipVarints(buf, at, n) ==
    LET ends == {i \in at..Len(buf) : buf[i] < Low}
    IN  IF n = 0 THEN at
        ELSE IF Cardinality(ends) < n THEN Len(buf) + 1
        ELSE 1 + CHOOSE i \in ends : Cardinality({j \in ends : j <= i}) = n

RECURSIVE PositionsFrom(_, _, _, _)
PositionsFrom(buf, at, previous, filter) ==
    LET delta == DecodeVarint(buf, at)
        count == DecodeVarint(buf, delta.next)
        doc   == Saturated(previous + delta.value)
        list  == VarintsFrom(buf, count.next, count.value)
    IN  IF at > Len(buf) \/ ~delta.ok THEN << >>
        ELSE IF ~count.ok \/ doc > Max(filter) THEN << >>
        ELSE IF doc \in filter
        THEN <<[doc |-> doc, at |-> Running(list.values)]>>
             \o PositionsFrom(buf, list.next, doc, filter)
        ELSE PositionsFrom(buf, SkipVarints(buf, count.next, count.value), doc, filter)

DecodePositionPostingsFiltered(buf, filter) ==
    IF filter = {} THEN << >> ELSE PositionsFrom(buf, 1, 0, filter)

DecodePositionPostings(buf) == PositionsFrom(buf, 1, 0, 0..MaxValue)
=============================================================================
