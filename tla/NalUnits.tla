------------------------------ MODULE NalUnits ------------------------------
(***************************************************************************)
(* How the video tracks of the recorder take the NAL units out of a frame: *)
(* muxer/ebml/core/codecs/base.go, h264.go and h265.go.  A frame is a      *)
(* sequence of octets in one of two formats: Annex B, with a start code    *)
(* 00 00 01 or 00 00 00 01 before each unit, or AVCC, with the length of   *)
(* each unit in LengthSize octets before it.  An octet is below Base: with *)
(* a small one the lengths that begin like start codes are short.  Frames  *)
(* are shorter than Words, the numbers of LengthSize octets.               *)
(***************************************************************************)
EXTENDS Naturals, Sequences, SequencesExt

CONSTANTS Base,  \* 256
          Units  \* the units that frames are made of

\* A unit is not empty, does not end with 00 and, by emulation prevention, has no
\* 00 00 with 00, 01 or 02 after it.
ASSUME NalUnitsAssumption ==
  /\ Base \in 4 .. 256
  /\ \A u \in Units :
       /\ u \in Seq(0 .. Base - 1) /\ u # <<>> /\ Last(u) # 0
       /\ \A i \in DOMAIN u : i > 2 /\ u[i - 2] = 0 /\ u[i - 1] = 0 => u[i] > 2

LengthSize == 4
Words == Base * Base * Base * Base
startCode3 == <<0, 0, 1>>
startCode4 == <<0, 0, 0, 1>>

\* binary.BigEndian, and what goes before a unit of n octets.
Uint32(s) == ((s[1] * Base + s[2]) * Base + s[3]) * Base + s[4]
Shift(n) == n \div Base
PutUint32(n) == <<Shift(Shift(Shift(n))) % Base, Shift(Shift(n)) % Base, Shift(n) % Base, n % Base>>
Prefix(format, n) == CASE format = "No" -> <<>>
                       [] format = "AVCC" -> PutUint32(n)
                       [] format = "AnnexB" -> startCode4

----------------------------------------------------------------------------
(* The format of a frame *)

\* Goes from length to length, in words of four octets; the last ones must end with
\* the frame.  Fewer than LengthSize octets left over panic, as does a step that is
\* too long for the word; one that is no step goes on for ever.
NALUAVCCFormatValid(data) ==
  LET valid[p \in 0 .. Len(data)] ==
        LET left == Len(data) - p
            off == (Uint32(SubSeq(data, p + 1, p + LengthSize)) + LengthSize) % Words
            offset == (p + off) % Words
        IN  IF left < LengthSize THEN "panic"
            ELSE IF offset = Len(data) THEN "valid" ELSE IF offset > Len(data) THEN "invalid"
            ELSE IF off = 0 THEN "loops" ELSE IF off > left THEN "panic" ELSE valid[p + off]
  IN  valid[0]

GetNALUFormatType(data) ==
  LET avcc == NALUAVCCFormatValid(data)
  IN  IF Len(data) < 4 THEN "No"
      ELSE IF IsPrefix(startCode4, data) THEN "AnnexB"
      ELSE IF avcc \in {"panic", "loops"} THEN avcc
      ELSE IF avcc = "valid" THEN "AVCC"
      ELSE IF IsPrefix(startCode3, data) THEN "AnnexB" ELSE "No"

----------------------------------------------------------------------------
(* The units, each with the prefix of the format wanted *)

\* Mutant: the octets of a start code are taken to be three.
startCodeCount3(zeroCount) == 3

\* The octets at the end of a unit that belong to the next start code.
startCodeCount(zeroCount) == zeroCount + 1

\* One octet: after two zeros a 01 ends the unit and begins the next.  zeroCount
\* stays as it is then.
ReadByte(st, b) ==
  LET nalu == IF st.found THEN Append(st.nalu, b) ELSE st.nalu
      n == startCodeCount(st.zeroCount)
  IN  IF b = 1 /\ st.zeroCount >= 2
      THEN [st EXCEPT !.found = TRUE, !.nalu = <<>>,
                      !.emitted = IF Len(nalu) > n THEN Append(@, SubSeq(nalu, 1, Len(nalu) - n)) ELSE @]
      ELSE [st EXCEPT !.nalu = nalu, !.zeroCount = IF b = 0 THEN @ + 1 ELSE 0]

NothingRead == [zeroCount |-> 0, found |-> FALSE, nalu |-> <<>>, emitted |-> <<>>]

ReadBytes(data) ==
  LET read[p \in 0 .. Len(data)] == IF p = 0 THEN NothingRead ELSE ReadByte(read[p - 1], data[p])
  IN  read[Len(data)]

EmitNALUReaderAnnexB(data, withStartCode) ==
  LET st == ReadBytes(data)
      all == IF st.nalu = <<>> THEN st.emitted ELSE Append(st.emitted, st.nalu)
  IN  [i \in DOMAIN all |-> Prefix(withStartCode, Len(all[i])) \o all[i]]

\* A unit that is cut off is left out.
EmitNALUReaderAVCC(data, withStartCode) ==
  LET from[p \in 0 .. Len(data)] ==
        LET n == Uint32(SubSeq(data, p + 1, p + LengthSize))
            unit == SubSeq(data, p + LengthSize + 1, p + LengthSize + n)
        IN  IF Len(data) - p < LengthSize \/ Len(data) - p - LengthSize < n THEN <<>>
            ELSE <<Prefix(withStartCode, n) \o unit>> \o from[p + LengthSize + n]
  IN  from[0]

\* EmitNALUH264Data and EmitNALUH265Data: a frame in neither format is refused.
EmitNALUData(data, withStartCode) ==
  LET format == GetNALUFormatType(data)
  IN  CASE format = "AnnexB" -> EmitNALUReaderAnnexB(data, withStartCode)
        [] format = "AVCC" -> EmitNALUReaderAVCC(data, withStartCode)
        [] OTHER -> <<>>

----------------------------------------------------------------------------
(* Frames *)

AnnexB(units, codes) == FlattenSeq([i \in DOMAIN units |-> codes[i] \o units[i]])
AVCC(units) == FlattenSeq([i \in DOMAIN units |-> PutUint32(Len(units[i])) \o units[i]])

\* A unit whose first octets are 01 or 00 01 loses them: right after a start code,
\* whose zeros are still counted, they are taken for another one.
LosesItsHeader(u) == u[1] = 1 \/ (Len(u) > 1 /\ u[1] = 0 /\ u[2] = 1)
=============================================================================
