----------------------------- MODULE EbmlValues -----------------------------
(***************************************************************************)
(* How EBML values and blocks become octets and are read back:             *)
(* muxer/ebml/value.go, block.go, lacer.go and unlacer.go.  An octet has   *)
(* OctetBits bits; the code's 8 is also the number of octets of a word and *)
(* of the longest variable length number, which has a marker of up to 8    *)
(* bits.  A read returns whether it succeeded, the value, and how many     *)
(* octets it took.                                                         *)
(***************************************************************************)
EXTENDS Integers, Sequences, SequencesExt, FiniteSetsExt

CONSTANT OctetBits

\* An octet has room for the flags of a block.
ASSUME EbmlValuesAssumption == OctetBits \in 5 .. 8

\* 2 ^ n, up to the bits of a word.
Two[n \in 0 .. OctetBits * OctetBits] == IF n = 0 THEN 1 ELSE 2 * Two[n - 1]

\* The numbers of an octet, and of k octets.
Base == Two[OctetBits]
Power(k) == Two[k * OctetBits]

\* v in k octets, the most significant one first; and back, as an unsigned word.
Octets(v, k) == [i \in 1 .. k |-> (v \div Power(k - i)) % Base]
Number(s) ==
  LET number[k \in 0 .. Len(s)] == IF k = 0 THEN 0 ELSE (number[k - 1] * Base + s[k]) % Power(OctetBits)
  IN  number[Len(s)]

Got(v, n) == [ok |-> TRUE, v |-> v, n |-> n]
UnexpectedEOF(n) == [ok |-> FALSE, v |-> 0, n |-> n]

----------------------------------------------------------------------------
(* Variable length numbers *)

\* With k octets a number has k * (OctetBits - 1) bits.
Limit(k) == Two[k * (OctetBits - 1)]
SizeUnknown == Limit(OctetBits) - 1
UnknownSize == [Octets(SizeUnknown, OctetBits) EXCEPT ![1] = 1]

\* The marker is the first bit set, as many bits from the left as there are octets.
Marked(v, k) == [Octets(v, k) EXCEPT ![1] = @ + Two[OctetBits - k]]

\* The least k from n on that fits, of the lengths below the longest one.
Shortest(n, Fits(_)) == LET ks == {k \in 1 .. OctetBits - 1 : k >= n /\ Fits(k)}
                        IN  IF ks = {} THEN OctetBits ELSE Min(ks)

\* Mutant: a size of ones only is written as it is.
encodeDataSizeOnes(v, n) ==
  LET fits(k) == v < Limit(k)
  IN  IF v >= SizeUnknown THEN UnknownSize
      ELSE Marked(v, Shortest(n, fits))

\* All ones is reserved, so a size that has only ones takes an octet more.
encodeDataSize(v, n) ==
  LET fits(k) == v < Limit(k) - 1
  IN  IF v >= SizeUnknown THEN UnknownSize
      ELSE Marked(v, Shortest(n, fits))

\* An element ID or a track number; at most OctetBits - 1 octets.
encodeElementID(v) ==
  LET fits(k) == v < Limit(k)
  IN  Marked(v, Shortest(1, fits))

\* The first octet tells the length; a first octet of zero is the number zero.
readVUInt(s) ==
  IF s = <<>> THEN UnexpectedEOF(0)
  ELSE LET k == IF s[1] = 0 THEN 1
                ELSE CHOOSE i \in 1 .. OctetBits : s[1] \in Two[OctetBits - i] .. Two[OctetBits - i + 1] - 1
       IN  IF Len(s) < k THEN UnexpectedEOF(Len(s))
           ELSE Got((s[1] % Two[OctetBits - k]) * Power(k - 1) + Number(SubSeq(s, 2, k)), k)

readDataSize(s) ==
  LET r == readVUInt(s) IN IF r.ok /\ r.v = Limit(r.n) - 1 THEN Got(SizeUnknown, r.n) ELSE r

\* Signed: the middle of the range of its length is zero.
Bias(k) == Limit(k) \div 2 - 1

encodeVInt(v) ==
  LET fits(k) == v \in -Bias(k) .. Bias(k)
      k == Shortest(1, fits)
  IN  encodeDataSize(v + Bias(k), k)

readVInt(s) == LET r == readVUInt(s) IN IF r.ok THEN Got(r.v - Bias(r.n), r.n) ELSE r

----------------------------------------------------------------------------
(* Values of an element *)

\* In at least n octets, as few as hold it.
encodeUInt(v, n) ==
  LET fits(k) == v < Power(k)
  IN  Octets(v, Shortest(n, fits))

\* Through an unsigned word: a negative number takes all its octets.
encodeInt(v, n) == encodeUInt(v % Power(OctetBits), n)

readUInt(s, n) == IF Len(s) < n THEN UnexpectedEOF(Len(s)) ELSE Got(Number(SubSeq(s, 1, n)), n)

\* The first bit of what was written is the sign.
readInt(s, n) ==
  LET r == readUInt(s, n)
  IN  IF r.ok /\ n > 0 /\ 2 * r.v >= Power(n) THEN Got(r.v - Power(n), n) ELSE r

\* Binary data and strings are padded with zeros up to the size of the tag.
Zeros(n) == [i \in 1 .. n |-> 0]
encodeBinary(s, n) == IF Len(s) < n THEN s \o Zeros(n - Len(s)) ELSE s

readBinary(s, n) == IF Len(s) < n THEN [UnexpectedEOF(Len(s)) EXCEPT !.v = <<>>] ELSE Got(SubSeq(s, 1, n), n)

\* A string ends at the first zero.
readString(s, n) ==
  LET r == readBinary(s, n)
  IN  IF r.ok /\ Contains(r.v, 0) THEN Got(SubSeq(r.v, 1, SelectInSeq(r.v, LAMBDA o : o = 0) - 1), n) ELSE r

----------------------------------------------------------------------------
(* Blocks: [track, timecode, keyframe, invisible, lacing, discardable,     *)
(* data], the data being a sequence of frames.                             *)

Bit(b) == IF b THEN 1 ELSE 0
packFlags(b) == Bit(b.keyframe) * Two[OctetBits - 1] + Bit(b.invisible) * 8 + b.lacing * 2 + Bit(b.discardable)

LacingNo == 0
LacingXiph == 1
LacingFixed == 2
LacingEBML == 3

\* What each lacer refuses.
LacerFails(b) ==
  \/ b.lacing = LacingNo /\ Len(b.data) > 1
  \/ b.lacing # LacingNo /\ Len(b.data) > Base - 1
  \/ b.lacing = LacingFixed /\ \E i \in DOMAIN b.data : Len(b.data[i]) # Len(b.data[1])

\* Xiph: octets of ones are added up, and the first other one ends the size.
XiphSize(n) ==
  LET ones == IF n > Base - 1 THEN (n - 1) \div (Base - 1) ELSE 0
  IN  [i \in 1 .. ones |-> Base - 1] \o <<n - ones * (Base - 1)>>

\* The sizes of all frames but the last one; EBML writes differences.
LaceSizes(b) ==
  LET n == Len(b.data)
  IN  IF b.lacing = LacingXiph THEN FlattenSeq([i \in 1 .. n - 1 |-> XiphSize(Len(b.data[i]))])
      ELSE IF b.lacing = LacingEBML
      THEN encodeElementID(Len(b.data[1])) \o
           FlattenSeq([i \in 1 .. n - 2 |-> encodeVInt(Len(b.data[i + 1]) - Len(b.data[i]))])
      ELSE <<>>

Lace(b) ==
  IF b.data = <<>> THEN <<>>
  ELSE (IF b.lacing = LacingNo THEN <<>> ELSE <<Len(b.data) - 1>> \o LaceSizes(b)) \o FlattenSeq(b.data)

MarshalBlock(b) ==
  encodeElementID(b.track) \o Octets(b.timecode % Power(2), 2) \o <<packFlags(b)>> \o Lace(b)

\* Where each of the sizes ends, one after the other; and where the last one does.
Bounds(sizes) == LET end[i \in 0 .. Len(sizes)] == IF i = 0 THEN 0 ELSE end[i - 1] + sizes[i] IN end
TotalSize(sizes) == Bounds(sizes)[Len(sizes)]

\* Sizes read from s for k frames but the last: what is read, and the octets taken.
\* A size that has no end would end after s.
XiphSizes(s, k) ==
  LET ends == {i \in DOMAIN s : s[i] # Base - 1}
      nth[i \in 0 .. k] == IF i = 0 THEN 0 ELSE Min({e \in ends : e > nth[i - 1]} \cup {Len(s) + 1})
  IN  IF nth[k] > Len(s) THEN UnexpectedEOF(Len(s))
      ELSE Got([i \in 1 .. k |-> TotalSize(SubSeq(s, nth[i - 1] + 1, nth[i]))], nth[k])

\* The first size, then the differences; a size that is not positive is refused
\* unless it is the first.  The first one is there, unused, for a single frame too.
EbmlSizes(s, k) ==
  LET read[i \in 0 .. k] ==
        IF i = 0 THEN LET r == readVUInt(s) IN [r EXCEPT !.v = <<r.v>>]
        ELSE LET before == read[i - 1]
                 r == readVInt(SubSeq(s, before.n + 1, Len(s)))
             IN  IF before.ok /\ r.ok /\ Last(before.v) + r.v > 0
                 THEN Got(Append(before.v, Last(before.v) + r.v), before.n + r.n)
                 ELSE [before EXCEPT !.ok = FALSE]
  IN  IF k = 0 THEN [read[0] EXCEPT !.v = <<>>] ELSE read[k - 1]

\* The frames whose sizes are sizes, followed by one with what is left of n.
Cut(s, sizes) ==
  LET end == Bounds(sizes)
  IN  IF Len(s) < TotalSize(sizes) THEN UnexpectedEOF(Len(s))
      ELSE Got([i \in DOMAIN sizes |-> SubSeq(s, end[i - 1] + 1, end[i])], TotalSize(sizes))

\* The frames of sizes r, which take r.n octets of rest, and a last one with what
\* is left of n; that one is not empty.
CutWithLast(rest, n, r) ==
  LET last == n - r.n - TotalSize(r.v)
  IN  IF ~r.ok \/ last <= 0 THEN UnexpectedEOF(1)
      ELSE Cut(SubSeq(rest, r.n + 1, Len(rest)), Append(r.v, last))

\* The unlacers: the octets s are what can be read, n of them are the block's,
\* and the first one tells the number of frames.
Unlace(lacing, s, n) ==
  IF lacing = LacingNo THEN Cut(s, <<n>>)
  ELSE IF s = <<>> \/ (lacing = LacingFixed /\ (n - 1) % (s[1] + 1) # 0) THEN UnexpectedEOF(Len(s))
  ELSE CASE lacing = LacingFixed -> Cut(Tail(s), [i \in 1 .. s[1] + 1 |-> (n - 1) \div (s[1] + 1)])
         [] lacing = LacingXiph  -> CutWithLast(Tail(s), n - 1, XiphSizes(Tail(s), s[1]))
         [] lacing = LacingEBML  -> CutWithLast(Tail(s), n - 1, EbmlSizes(Tail(s), s[1]))

\* The block of head h that has f for flags and these frames.
BlockOf(t, tc, f, frames, n) ==
  IF ~frames.ok THEN frames
  ELSE Got([track |-> t, timecode |-> tc, keyframe |-> f >= Two[OctetBits - 1],
            invisible |-> (f \div 8) % 2 = 1, lacing |-> (f \div 2) % 4,
            discardable |-> f % 2 = 1, data |-> frames.v], n)

\* After the track number t: the timecode, the flags and the frames.
AfterTrack(t, s, n) ==
  IF ~t.ok \/ Len(s) < 3 \/ n < 3 THEN UnexpectedEOF(Len(s))
  ELSE BlockOf(t.v, readInt(s, 2).v, s[3], Unlace((s[3] \div 2) % 4, SubSeq(s, 4, Len(s)), n - 3), n + t.n)

UnmarshalBlock(s, n) == LET t == readVUInt(s) IN AfterTrack(t, SubSeq(s, t.n + 1, Len(s)), n - t.n)
=============================================================================
