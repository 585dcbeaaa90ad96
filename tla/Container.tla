------------------------------ MODULE Container ------------------------------
(***************************************************************************)
(* Recordings from end to end: writers put the headers of their files      *)
(* (SegmentHeader) before and over the clusters, with one Info between     *)
(* them; when all are done, another process reads one of the files, whole  *)
(* or cut off.  Or it reads the file of another program (BlockReader).     *)
(* EBML values and blocks are octets throughout (EbmlValues).              *)
(***************************************************************************)
EXTENDS SegmentHeader, BlockReader

CONSTANTS Recorded, \* the clusters that are recorded
          Others,   \* those of other programs: sequences of clusters [timestamp, size, items],
                    \* an item being a block or a block in a group [size, block, priority]
          CutOffs,  \* octets missing at the end of a file that is read
          Numbers, Samples  \* numbers and blocks to encode

\* Numbers that every encoding has room for: an element ID has an octet less than a word.
IDs == 0 .. Limit(OctetBits - 1) - 1
Block == [track : IDs, timecode : -(Power(2) \div 2) .. Power(2) \div 2 - 1, keyframe : BOOLEAN,
          invisible : BOOLEAN, lacing : LacingNo .. LacingEBML, discardable : BOOLEAN,
          data : Seq({frame \in Seq(0 .. Base - 1) : Len(frame) \in IDs})]

ASSUME ContainerAssumption == CutOffs \subseteq Nat /\ Numbers \subseteq IDs /\ Samples \subseteq Block

VARIABLE phase  \* [pc: "new", "writing", "written" or "reading"; of what is read: its clusters, the
                \* octets missing, and those the last header is shorter than the first]

vars == <<headerVars, readerVars, phase>>

----------------------------------------------------------------------------
(* The octets of clusters *)

Item(i) ==
  IF "priority" \in DOMAIN i
  THEN Sized("BlockGroup", i.size, << <<Field("Block", <<i.block>>), Field("ReferencePriority", <<i.priority>>)>> >>)
  ELSE Field("SimpleBlock", <<i>>)

simpleBlockCluster(c, prevSize) ==
  Sized("Cluster", c.size, << <<Field("Timestamp", <<c.timestamp>>), OmitEmpty("PrevSize", <<prevSize>>)>>
                              \o [i \in DOMAIN c.items |-> Item(c.items[i])] >>)

ClusterOctets(content) ==
  LET after(w, octets) == [octets |-> w.octets \o octets, prevSize |-> Len(octets)]
      next(w, c) == after(w, Marshal(<<simpleBlockCluster(c, w.prevSize)>>).octets)
  IN  FoldLeft(next, [octets |-> <<>>, prevSize |-> 0], content).octets

Cues == Marshal(<<Field("Cues", << <<Field("CuePoint", << <<Field("CueTime", <<1>>)>> >>)>> >>)>>).octets

----------------------------------------------------------------------------
(* Steps *)

NoPhase == [pc |-> "new", content |-> <<>>, missing |-> 0, gap |-> 0]

Init == phase = NoPhase /\ SegmentHeaderInit /\ BlockReaderInit

Begin == phase.pc = "new" /\ phase' = [phase EXCEPT !.pc = "writing"] /\ UNCHANGED <<headerVars, readerVars>>

Write(f) ==
  /\ phase.pc = "writing"
  /\ LET EndOf(g) == \E d \in Durations : Finalize(g, d, ClusterOctets(Recorded), Cues)
     IN  SegmentHeaderStep(f, EndOf)
  /\ UNCHANGED <<readerVars, phase>>

\* A header longer than the one it is written over has destroyed the first
\* cluster; such a file is not read.
CanBeOpened(f) == Len(header[f].final) <= Len(header[f].first)

AllEnded == \A f \in Files : Ended(f)

\* The writers' process ends; one of the files is looked at later.
Exit(f) ==
  /\ phase.pc = "writing" /\ AllEnded /\ CanBeOpened(f)
  /\ phase' = [phase EXCEPT !.pc = "written"]
  /\ info' = NoInfo /\ header' = [g \in Files |-> IF g = f THEN header[f] ELSE NewHeader]
  /\ UNCHANGED readerVars

\* A file is opened, with octets missing at its end unless unknown elements are ignored.
OpenFile(octets, content, gap) ==
  \E missing \in CutOffs, opt \in [ignoreUnknown : BOOLEAN, onFatal : BOOLEAN] :
    /\ opt.ignoreUnknown => missing = 0
    /\ phase' = [pc |-> "reading", content |-> content, missing |-> missing, gap |-> gap]
    /\ NewSimpleBlockReader(SubSeq(octets, 1, Len(octets) - missing), opt)

OpenRecording(f) ==
  /\ phase.pc = "written" /\ Ended(f)
  /\ LET octets == FileOf(f)
         gap == Len(header[f].first) - Len(header[f].final)
     IN  OpenFile(octets, Recorded, gap)
  /\ info' = NoInfo /\ header' = [g \in Files |-> NewHeader]

\* The file of another program: only tracks come before the clusters.
OpenOther(content) ==
  LET segment == << <<Tracks(NewHeader)>> >>
      octets == ebmlHeader \o Marshal(<<Sized("Segment", SizeUnknown, segment)>>).octets
                \o ClusterOctets(content) \o Cues
  IN  phase.pc = "new" /\ OpenFile(octets, content, 0) /\ UNCHANGED headerVars

Reading(A) == phase.pc = "reading" /\ A /\ UNCHANGED <<headerVars, phase>>

ReadElement == Reading(Unmarshal)
ReadBlock == Reading(Demux)
ReadFrame(t) == Reading(ReadEOF(t))
Close(t) == Reading(CloseReader(t))

ReadingIsOver ==
  \/ parser.pc \in {"refused", "crashed"}
  \/ parser.pc = "ended" /\ demux.pc = "ended" /\ \A t \in DOMAIN reader : reader[t].state # "reading"

Next ==
  \/ Begin
  \/ \E f \in Files : Write(f) \/ Exit(f) \/ OpenRecording(f)
  \/ \E c \in Others : OpenOther(c)
  \/ ReadElement
  \/ ReadBlock
  \/ \E t \in DOMAIN reader : ReadFrame(t) \/ Close(t)

\* Weak fairness of ReadElement, written out: an element can be read whenever
\* Unmarshal is not waiting or done.
ElementsAreRead == []<>~Parsing \/ []<><<ReadElement>>_vars

\* The goroutines of the reader run, and whoever has a reader reads or closes it.
Spec == /\ Init /\ [][Next]_vars
        /\ ElementsAreRead /\ WF_vars(ReadBlock)
        /\ WF_vars(\E t \in DOMAIN reader : ReadFrame(t))

----------------------------------------------------------------------------
(* Properties *)

\* Values are read as they were written.  A positive Int is read back negative
\* when its first bit is set.  A block is read as it was written unless it has
\* no frames, a last frame that is empty in Xiph or EBML lacing, or in EBML
\* lacing any empty frame after the first, or in Xiph lacing the length of a
\* frame that is not the last ends with an octet of ones.
ReadsBack(read, v) == read.ok /\ read.v = v

LacingSurvives(b) ==
  LET k == Len(b.data)
      size(i) == Len(b.data[i])
  IN  /\ k > 0
      /\ b.lacing \in {LacingXiph, LacingEBML} => size(k) > 0
      /\ b.lacing = LacingXiph => \A i \in 1 .. k - 1 : size(i) = 0 \/ size(i) % (Base - 1) # 0
      /\ b.lacing = LacingEBML => \A i \in 2 .. k - 1 : size(i) > 0

NumberReadsBack(v, n) ==
  /\ ReadsBack(readDataSize(encodeDataSize(v, n)), v)
  /\ ReadsBack(readVUInt(encodeElementID(v)), v)
  /\ ReadsBack(readVInt(encodeVInt(v)), v) /\ ReadsBack(readVInt(encodeVInt(-v)), -v)
  /\ LET u == encodeUInt(v, n) IN ReadsBack(readUInt(u, Len(u)), v)
  /\ LET i == encodeInt(v, n) IN ReadsBack(readInt(i, Len(i)), v) <=> i[1] < Base \div 2
  /\ LET i == encodeInt(-v, n) IN v > 0 => ReadsBack(readInt(i, Len(i)), -v)

BlockReadsBack(b) == LET m == MarshalBlock(b) IN ReadsBack(UnmarshalBlock(m, Len(m)), b)

CodecsRoundTrip ==
  phase.pc = "new" =>
    /\ \A v \in Numbers, n \in 0 .. OctetBits : NumberReadsBack(v, n)
    /\ \A b \in Samples : ~LacerFails(b) => (BlockReadsBack(b) <=> LacingSurvives(b))

\* The header written over the first one ends where the first one did, and each
\* entry of its SeekHead gives the place where that element begins; for the
\* files whose header needs every field it had.
SeekHeadFindsElements ==
  phase.pc = "writing" => \A f \in Files : Ended(f) /\ NothingIsLeftOut(f) =>
    /\ Len(header[f].final) = Len(header[f].first)
    /\ \A i \in DOMAIN header[f].seek :
         LET e == header[f].seek[i]
         IN  IsPrefix(Bytes(e.name), SubSeq(FileOf(f), offsetSeekHeader + e.pos + 1, Len(FileOf(f))))

\* The blocks that the fields of NewSimpleBlockReader name: those of the clusters
\* up to the first of unknown size, which swallows the rest of the file, and in a
\* cluster those up to the first group of unknown size.
Swallows(size) == size = SizeUnknown
UpTo(seq, Test(_)) == IF \E i \in DOMAIN seq : Test(seq[i]) THEN SubSeq(seq, 1, SelectInSeq(seq, Test)) ELSE seq
IsGroup(i) == "priority" \in DOMAIN i
ItemsOf(c) == UpTo(c.items, LAMBDA i : IsGroup(i) /\ Swallows(i.size))
BlocksRead ==
  LET cs == UpTo(phase.content, LAMBDA c : Swallows(c.size))
  IN  FlattenSeq([k \in DOMAIN cs |-> [j \in DOMAIN ItemsOf(cs[k]) |-> [cluster |-> k, item |-> ItemsOf(cs[k])[j]]]])

\* A block is sent as it is in the file, that of a group with a keyframe flag made
\* of its priority, and until the next one the timecodes are those of the clusters
\* up to that of the next.
IsSent(n) ==
  LET bs == BlocksRead
      item == bs[n].item
      last == IF n < Len(bs) THEN bs[n + 1].cluster ELSE Len(phase.content)
  IN  /\ sent[n].block = IF IsGroup(item) THEN [item.block EXCEPT !.keyframe = item.priority # 0] ELSE item
      /\ sent[n].timecodes \subseteq {phase.content[k].timestamp : k \in bs[n].cluster .. last}

\* A whole file can be read to its end if and only if its last header is as long
\* as its first one, or what is not an element is skipped; and its blocks are sent
\* in order, none twice and none left out.
FilesCanBeRead ==
  phase.pc = "reading" =>
    /\ phase.missing = 0 /\ ReadingIsOver =>
         ((parser.pc = "ended" /\ at = Len(file)) <=> (phase.gap = 0 \/ option.ignoreUnknown))
    /\ Len(sent) <= Len(BlocksRead) /\ \A n \in DOMAIN sent : IsSent(n)
    /\ phase.missing = 0 /\ parser.pc = "ended" /\ at = Len(file) => Len(sent) = Len(BlocksRead)

\* The frames for track t of a block that was sent, and of several.
FramesOf(entry, t) ==
  LET b == entry.block
  IN  IF b.track # t THEN <<>>
      ELSE [l \in DOMAIN b.data |-> [b |-> b.data[l], keyframe |-> b.keyframe,
                                     timestamps |-> {c + b.timecode : c \in entry.timecodes}]]
AllFramesOf(entries, t) == FlattenSeq([n \in DOMAIN entries |-> FramesOf(entries[n], t)])

\* Whoever reads a track gets the frames of the blocks sent in their order, none
\* twice and none left out, all of them when told that it is the end; and a
\* timestamp is off by no more than the clusters read ahead up to the next block.
FramesReachTheirReader ==
  \A t \in DOMAIN reader :
    LET got == reader[t].got
        frames == AllFramesOf(sent, t)
    IN  /\ Len(got) <= Len(frames)
        /\ \A i \in DOMAIN got : /\ got[i].b = frames[i].b /\ got[i].keyframe = frames[i].keyframe
                                 /\ got[i].timestamp \in frames[i].timestamps
        /\ reader[t].state = "eof" => Len(got) = Len(frames)

\* Reading comes to an end: an error, a crash, or every reader at the end of the
\* file or closed, with both goroutines gone.
ReadersEnd == parser.pc = "header" ~> ReadingIsOver
=============================================================================
