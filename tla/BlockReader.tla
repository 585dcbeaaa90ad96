----------------------------- MODULE BlockReader -----------------------------
(***************************************************************************)
(* Reading a recording: NewSimpleBlockReader of                            *)
(* muxer/ebml/mkvcore/blockreader.go on Unmarshal of muxer/ebml/           *)
(* unmarshal.go.  The caller reads the elements up to the end of Tracks.   *)
(* Then one goroutine reads the clusters and sends each block over a       *)
(* channel without a buffer, and a second one takes the blocks, makes      *)
(* frames of them with the timecode that the cluster, which the first one  *)
(* goes on filling in, has at that moment, and hands each frame to the     *)
(* reader of its track, unless that is closed.                             *)
(*                                                                         *)
(* Unmarshal goes down into a master element by calling itself, here a     *)
(* stack: for each call the element read, and where it ends unless its     *)
(* size is unknown.  Every block is of a track the header lists.           *)
(***************************************************************************)
EXTENDS EbmlElements

VARIABLES file,    \* the octets that can be read
          option,  \* [ignoreUnknown: the option of that name; onFatal: there is a handler]
          at,      \* octets read
          stack,   \* of Unmarshal
          parser,  \* what Unmarshal does; pc "header" and "cluster" while it reads
          demux,   \* the second goroutine: the block it has, how many frames it made, the frame in hand
          reader,  \* of each track: [state, got: the frames that were read]
          sent     \* history: each block sent over a channel, with the timecodes the
                   \* cluster had from then until the next block

readerVars == <<file, option, at, stack, parser, demux, reader, sent>>

NoBlock == [track |-> 0, timecode |-> 0, keyframe |-> FALSE, invisible |-> FALSE,
            lacing |-> LacingNo, discardable |-> FALSE, data |-> <<>>]
NoFrame == [keyframe |-> FALSE, timestamp |-> 0, b |-> <<>>]
NewParser == [pc |-> "none", tracks |-> {}, timecode |-> 0, block |-> NoBlock, priority |-> 0]
NewDemux == [pc |-> "receive", block |-> NoBlock, made |-> 0, frame |-> NoFrame]

BlockReaderInit ==
  /\ file = <<>> /\ option = [ignoreUnknown |-> FALSE, onFatal |-> FALSE]
  /\ at = 0 /\ stack = <<>>
  /\ parser = NewParser /\ demux = NewDemux /\ reader = <<>> /\ sent = <<>>

\* octets is a []byte.
NewSimpleBlockReader(octets, opt) ==
  /\ parser.pc = "none" /\ octets \in Seq(0 .. Base - 1)
  /\ file' = octets /\ option' = opt
  /\ parser' = [parser EXCEPT !.pc = "header"]
  /\ UNCHANGED <<at, stack, demux, reader, sent>>

----------------------------------------------------------------------------
(* Unmarshal *)

Unknown == -1
Path == [i \in DOMAIN stack |-> stack[i].name]
Ends == {stack[i].end : i \in DOMAIN stack} \ {Unknown}

\* What this call can still read: io.LimitReaders, one in the other.
Available == SubSeq(file, at + 1, Min(Ends \cup {Len(file)}))

\* The head of an element: its ID, its size, and the octets of both.
HeadOf(e, size) == [id |-> e, size |-> size, octets |-> e.n + size.n, row |-> revTable(e.v)]

\* Mutant: an element that ends with the one it is in is refused.
InvalidElementSizeAtEnd(x) ==
  stack # <<>> /\ Last(stack).end # Unknown /\ at + x.octets + x.size.v >= Last(stack).end

\* The size reaches past the end of the element this one is in.
InvalidElementSize(x) ==
  stack # <<>> /\ Last(stack).end # Unknown /\ at + x.octets + x.size.v > Last(stack).end

\* Unmarshal returns an error: an error of NewSimpleBlockReader while it reads the
\* header; a fatal one later, after which the channels are closed or the program dies.
Fails(pc) == IF pc = "header" THEN "refused" ELSE IF option.onFatal THEN "ended" ELSE "crashed"

\* An error, unless unknown elements are ignored: then n octets are skipped.
SkipOrFail(n) ==
  /\ IF option.ignoreUnknown THEN at' = at + n /\ UNCHANGED parser
     ELSE parser' = [parser EXCEPT !.pc = Fails(@)] /\ UNCHANGED at
  /\ UNCHANGED <<file, option, stack, demux, reader>>

\* The ID is cut off.
CutOff(s, x) == s # <<>> /\ ~x.id.ok /\ SkipOrFail(Len(s))

UnknownElement(x) == x.id.ok /\ (x.row[3] = "none" \/ ~x.size.ok \/ InvalidElementSize(x)) /\ SkipOrFail(1)

Readable(x) == x.id.ok /\ x.size.ok /\ x.row[3] # "none" /\ ~InvalidElementSize(x)

\* A top level element ends the element it is in when that is deeper than in a
\* Segment; it is given back to be read by the caller.
EndsParent(x) == x.row[3] = "Master" /\ x.row[4] /\ Len(stack) > 1

EnterMaster(x) ==
  /\ Readable(x) /\ x.row[3] = "Master" /\ ~EndsParent(x)
  /\ at' = at + x.octets
  /\ stack' = Append(stack, [name |-> x.row[1],
                             end |-> IF x.size.v = SizeUnknown THEN Unknown ELSE at + x.octets + x.size.v])
  /\ parser' = IF parser.pc = "cluster" /\ Append(Path, x.row[1]) = <<"Cluster", "BlockGroup">>
               THEN [parser EXCEPT !.block = NoBlock, !.priority = 0] ELSE parser
  /\ UNCHANGED <<file, option, demux, reader>>

\* The track numbers of the header become readers.
NewReaders(tracks) == [t \in tracks |-> [state |-> "reading", got |-> <<>>]]

\* The end of the file: one without Tracks gives no readers and no error.
EndOfFile(s) ==
  /\ s = <<>> /\ stack = <<>>
  /\ parser' = [parser EXCEPT !.pc = IF @ = "header" THEN "refused" ELSE "ended"]
  /\ UNCHANGED <<file, option, at, stack, demux, reader>>

\* The end of a master element, or of the file in it.  Tracks ends the header, a
\* block group is sent; its keyframe flag is made of its priority.
LeaveMaster(s, x) ==
  /\ stack # <<>>
  /\ s = <<>> \/ (Readable(x) /\ EndsParent(x))
  /\ IF parser.pc = "header" /\ Path = <<"Segment", "Tracks">>
     THEN /\ parser' = [parser EXCEPT !.pc = "cluster"]
          /\ stack' = <<>> /\ reader' = NewReaders(parser.tracks)
     ELSE /\ stack' = Front(stack)
          /\ parser' = IF parser.pc = "cluster" /\ Path = <<"Cluster", "BlockGroup">>
                       THEN [parser EXCEPT !.pc = "send", !.block.keyframe = parser.priority # 0]
                       ELSE parser
          /\ UNCHANGED reader
  /\ UNCHANGED <<file, option, at, demux>>

\* The value of an element is stored in the field of its path, if there is one.
Stored(name, v) ==
  IF parser.pc = "header"
  THEN IF Append(Path, name) = <<"Segment", "Tracks", "TrackEntry", "TrackNumber">>
       THEN [parser EXCEPT !.tracks = @ \cup {v}] ELSE parser
  ELSE CASE Append(Path, name) = <<"Cluster", "Timestamp">> -> [parser EXCEPT !.timecode = v]
         [] Append(Path, name) = <<"Cluster", "SimpleBlock">> -> [parser EXCEPT !.pc = "send", !.block = v]
         [] Append(Path, name) = <<"Cluster", "BlockGroup", "Block">> -> [parser EXCEPT !.block = v]
         [] Append(Path, name) = <<"Cluster", "BlockGroup", "ReferencePriority">> -> [parser EXCEPT !.priority = v]
         [] OTHER -> parser

\* By type; a string or a number of another type only takes its octets.
decode(type, s, n) ==
  IF type = "UInt" THEN readUInt(s, n) ELSE IF type = "Block" THEN UnmarshalBlock(s, n) ELSE readBinary(s, n)

ReadValue(s, x) ==
  /\ Readable(x) /\ x.row[3] # "Master"
  /\ \E val \in {decode(x.row[3], SubSeq(s, x.octets + 1, Len(s)), x.size.v)} :
       IF val.ok
       THEN /\ at' = at + x.octets + x.size.v
            /\ parser' = Stored(x.row[1], val.v)
            /\ UNCHANGED <<file, option, stack, demux, reader>>
       ELSE SkipOrFail(1)

Parsing == parser.pc \in {"header", "cluster"}

\* What is noted of the step.
Note ==
  sent' = IF parser'.pc = "send" THEN Append(sent, [block |-> parser'.block, timecodes |-> {parser'.timecode}])
          ELSE IF sent = <<>> THEN sent
          ELSE [sent EXCEPT ![Len(sent)].timecodes = @ \cup {parser'.timecode}]

Unmarshal ==
  /\ Parsing
  /\ \E s \in {Available} : \E e \in {readVUInt(s)} :
     \E x \in {HeadOf(e, readDataSize(SubSeq(s, e.n + 1, Len(s))))} :
       CutOff(s, x) \/ UnknownElement(x) \/ EnterMaster(x) \/ EndOfFile(s) \/ LeaveMaster(s, x) \/ ReadValue(s, x)
  /\ Note

----------------------------------------------------------------------------
(* The second goroutine, and those that read frames *)

\* blockCh and blockGroupCh: the sender waits until the block is taken.
ReceiveBlock ==
  /\ parser.pc = "send" /\ demux.pc = "receive"
  /\ parser' = [parser EXCEPT !.pc = "cluster"]
  /\ demux' = [demux EXCEPT !.pc = "make", !.block = parser.block, !.made = 0]
  /\ UNCHANGED <<file, option, at, stack, reader, sent>>

\* Mutant: only the first frame of a laced block is taken out.
MakeFirstFrame ==
  LET b == demux.block IN
  /\ demux.pc = "make"
  /\ demux' = IF demux.made = Min({1, Len(b.data)}) THEN [demux EXCEPT !.pc = "receive"]
              ELSE [demux EXCEPT !.pc = "hand", !.made = @ + 1,
                                 !.frame = [keyframe |-> b.keyframe, timestamp |-> parser.timecode + b.timecode,
                                            b |-> b.data[demux.made + 1]]]
  /\ UNCHANGED <<file, option, at, stack, parser, reader, sent>>

\* Each frame of a laced block gets the timecode the cluster has now.
MakeFrame ==
  LET b == demux.block IN
  /\ demux.pc = "make"
  /\ demux' = IF demux.made = Len(b.data) THEN [demux EXCEPT !.pc = "receive"]
              ELSE [demux EXCEPT !.pc = "hand", !.made = @ + 1,
                                 !.frame = [keyframe |-> b.keyframe, timestamp |-> parser.timecode + b.timecode,
                                            b |-> b.data[demux.made + 1]]]
  /\ UNCHANGED <<file, option, at, stack, parser, reader, sent>>

\* Read returns the frame.
HandFrame ==
  LET t == demux.block.track IN
  /\ demux.pc = "hand" /\ reader[t].state = "reading"
  /\ reader' = [reader EXCEPT ![t].got = Append(@, demux.frame)]
  /\ demux' = [demux EXCEPT !.pc = "make"]
  /\ UNCHANGED <<file, option, at, stack, parser, sent>>

\* Mutant: only the end of the file makes up for a reader that does not read.
DropFrameAtEnd ==
  /\ demux.pc = "hand" /\ reader[demux.block.track].state = "eof"
  /\ demux' = [demux EXCEPT !.pc = "make"]
  /\ UNCHANGED <<file, option, at, stack, parser, reader, sent>>

\* The reader of the track is closed.
DropFrame ==
  /\ demux.pc = "hand" /\ reader[demux.block.track].state = "closed"
  /\ demux' = [demux EXCEPT !.pc = "make"]
  /\ UNCHANGED <<file, option, at, stack, parser, reader, sent>>

\* Both channels are closed: all readers get to the end.
EndReaders ==
  /\ parser.pc = "ended" /\ demux.pc = "receive"
  /\ demux' = [demux EXCEPT !.pc = "ended"]
  /\ UNCHANGED <<file, option, at, stack, parser, reader, sent>>

\* Read returns io.EOF.
ReadEOF(t) ==
  /\ parser.pc # "crashed" /\ demux.pc = "ended" /\ reader[t].state = "reading"
  /\ reader' = [reader EXCEPT ![t].state = "eof"]
  /\ UNCHANGED <<file, option, at, stack, parser, demux, sent>>

\* Once: a second Close panics.
CloseReader(t) ==
  /\ parser.pc # "crashed" /\ reader[t].state = "reading"
  /\ reader' = [reader EXCEPT ![t].state = "closed"]
  /\ UNCHANGED <<file, option, at, stack, parser, demux, sent>>

Demux == parser.pc # "crashed" /\ (ReceiveBlock \/ MakeFrame \/ HandFrame \/ DropFrame \/ EndReaders)
=============================================================================
