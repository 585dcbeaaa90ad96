---------------------------- MODULE BlockWriter ----------------------------
(***************************************************************************)
(* The SimpleBlock writer of muxer/ebml/mkvcore/blockwriter.go: one        *)
(* blockWriter per track, through which a caller writes frames and closes  *)
(* the track; one writer goroutine (writeTrack) that groups the frames in  *)
(* clusters, indexes key frames and finalises the file; one goroutine that *)
(* waits for every track to be closed.  They share the channel ch of       *)
(* frames, the channel fin, the WaitGroup wg and the channel closed.       *)
(*                                                                         *)
(* Sizes and offsets are in abstract units: a cluster element takes one    *)
(* unit plus one per block.  A cluster's blocks are the members of blocks  *)
(* that carry its number.                                                  *)
(***************************************************************************)
EXTENDS Integers, Sequences, FiniteSets

CONSTANTS
  Tracks,               \* the tracks NewSimpleBlockWriter is called with
  MainTrack,            \* options.mainTrackNumber
  Timestamps,           \* the timestamps callers pass
  ChanCap,              \* capacity of ch, 10000 in the code
  MaxInt16,             \* math.MaxInt16, scaled down
  Word,                 \* 2^64, scaled down
  MaxKeyframeInterval,  \* options.maxKeyframeInterval
  OffsetSeekHeader,     \* start of the segment's data, from writeHeader
  OffsetCluster,        \* end of the first header, from writeHeader
  OnErrorPanics,        \* does options.onError panic
  OnFatalPanics,        \* does options.onFatal panic
  NoTs,                 \* invalidTimestamp
  NoPos,                \* the cluster or index is not in the file
  MaxFrames,            \* bound: frames written in a behaviour
  MaxFaults             \* bound: failing writes to the file in a behaviour

ASSUME BlockWriterAssumption ==
  /\ IsFiniteSet(Tracks) /\ Tracks # {}
  /\ Timestamps \subseteq Int
  /\ ChanCap \in Nat \ {0}
  /\ MaxInt16 \in Nat \ {0}
  /\ Word \in Nat \ {0}
  /\ MaxKeyframeInterval \in Int
  /\ OffsetSeekHeader \in Nat /\ OffsetCluster \in Nat
  /\ OnErrorPanics \in BOOLEAN /\ OnFatalPanics \in BOOLEAN
  /\ NoTs \notin Int /\ NoPos \notin Int
  /\ MaxFrames \in Nat /\ MaxFaults \in Nat

VARIABLES
  \* channels and the callers' side
  ch,               \* the frames waiting for the writer goroutine
  producer,         \* per track: open, closing (inside Close), closed
  fin,              \* tokens buffered in fin
  closed,           \* has the channel closed been closed
  \* locals of the writer goroutine
  pc,               \* where it is
  panicking,        \* is it unwinding a panic
  tc0, tc1, lastTc,
  cueBlockNumber,
  clusterPosition,  \* its idea of where the current cluster will be
  clusters,         \* clusters made so far, the last is the current one
  blocks,           \* their blocks in the order they were appended
  cues,             \* the index being built
  \* the file
  wsize,            \* w.Size()
  filePos,          \* where the next byte goes
  cuesAt,           \* where the index was written
  header,           \* the finalised header, <<>> before
  outClosed,        \* has the output been closed
  \* history
  accepted,         \* every frame Write accepted
  reported,         \* positions in accepted reported to onError or onFatal
  faults

chanVars  == <<ch, producer, fin, closed>>
timeVars  == <<tc0, tc1, lastTc>>
bookVars  == <<cueBlockNumber, clusterPosition, clusters, blocks, cues>>
fileVars  == <<wsize, filePos, cuesAt, header, outClosed>>
vars == <<chanVars, pc, panicking, timeVars, bookVars, fileVars,
          accepted, reported, faults>>

Frames == [track : Tracks, key : BOOLEAN, ts : Timestamps]

PCs == {"loop", "drain", "flush", "finalize", "fin1", "fin2", "done", "crashed"}

\* Mutant: room in fin for every track.
FinCapOfAllTracks == Cardinality(Tracks)

\* Mutant: fin without a buffer.
FinCapUnbuffered == 0

FinCap == Cardinality(Tracks) - 1

tNextCluster == MaxInt16 - MaxKeyframeInterval

\* The conversion int16(tc).
Int16(x) == ((x + MaxInt16 + 1) % (2 * (MaxInt16 + 1))) - (MaxInt16 + 1)

ClusterSize(c) == 1 + c.n

Last(s) == s[Len(s)]

\* The position in accepted of the frame at the head of ch.
HeadSeq == Len(accepted) - Len(ch) + 1

Alive == pc # "crashed"

Init ==
  /\ ch = <<>> /\ producer = [t \in Tracks |-> "open"] /\ fin = 0 /\ closed = FALSE
  /\ pc = "loop" /\ panicking = FALSE
  /\ tc0 = NoTs /\ tc1 = NoTs /\ lastTc = 0
  /\ cueBlockNumber = 0 /\ clusterPosition = OffsetCluster
  /\ clusters = <<>> /\ blocks = <<>> /\ cues = <<>>
  /\ wsize = 0 /\ filePos = OffsetCluster /\ cuesAt = NoPos
  /\ header = <<>> /\ outClosed = FALSE
  /\ accepted = <<>> /\ reported = {} /\ faults = 0

----------------------------------------------------------------------------
(* The callers' side: Write and Close of each track's blockWriter.         *)

\* Write passes the frame to the writer goroutine; it blocks while ch is full.
\* A track's frames come sorted by timestamp, as NewSimpleBlockWriter asks, and
\* its caller does not write after Close.
Write(f) ==
  /\ Alive /\ Len(accepted) < MaxFrames
  /\ producer[f.track] = "open"
  /\ \A i \in DOMAIN accepted : accepted[i].track = f.track => accepted[i].ts <= f.ts
  /\ Len(ch) < ChanCap
  /\ ch' = Append(ch, f)
  /\ accepted' = Append(accepted, f)
  /\ UNCHANGED <<producer, fin, closed, pc, panicking, timeVars, bookVars, fileVars,
                 reported, faults>>

\* The first half of Close: wg.Done().
CloseCall(t) ==
  /\ Alive /\ producer[t] = "open"
  /\ producer' = [producer EXCEPT ![t] = "closing"]
  /\ UNCHANGED <<ch, fin, closed, pc, panicking, timeVars, bookVars, fileVars,
                 accepted, reported, faults>>

\* The second half of Close: the send on fin finds room in its buffer.
CloseReturn(t) ==
  /\ Alive /\ producer[t] = "closing"
  /\ fin < FinCap
  /\ fin' = fin + 1
  /\ producer' = [producer EXCEPT ![t] = "closed"]
  /\ UNCHANGED <<ch, closed, pc, panicking, timeVars, bookVars, fileVars,
                 accepted, reported, faults>>

\* The goroutine that waits for wg and closes the channel closed.  (Without an
\* interceptor filterFlushed is closed from the start.)
AllTracksClosed ==
  /\ Alive /\ ~closed
  /\ \A t \in Tracks : producer[t] # "open"
  /\ closed' = TRUE
  /\ UNCHANGED <<ch, producer, fin, pc, panicking, timeVars, bookVars, fileVars,
                 accepted, reported, faults>>

\* A receive from fin by the writer goroutine: a buffered token, or the
\* rendezvous with a blocked Close when fin has no buffer.
ReceiveFin ==
  \/ /\ fin > 0
     /\ fin' = fin - 1 /\ UNCHANGED producer
  \/ /\ FinCap = 0
     /\ \E t \in Tracks :
          /\ producer[t] = "closing"
          /\ producer' = [producer EXCEPT ![t] = "closed"]
     /\ UNCHANGED fin

----------------------------------------------------------------------------
(* The writer goroutine.  The body of its select loop and onFrame, the     *)
(* function it drains ch with, treat a frame alike; they differ in what    *)
(* follows a frame that is reported.                                       *)

\* Mutant: no new cluster when the timecode runs out.
NewClusterNoLimit(f) ==
  tc1 # NoTs => f.track = MainTrack /\ f.ts - tc1 >= tNextCluster /\ f.key

\* A frame opens a cluster: the first one, one too late for the current
\* cluster's timecodes, or a key frame of the main track.
NeedsCluster(f) ==
  tc1 # NoTs => \/ f.ts - tc1 >= MaxInt16
                \/ f.track = MainTrack /\ f.ts - tc1 >= tNextCluster /\ f.key

TooOld(f) == f.ts - tc1 <= -MaxInt16

\* A frame leaves ch for the writer goroutine.
Take(f) ==
  /\ pc \in {"loop", "drain"}
  /\ ch # <<>> /\ f = Head(ch)
  /\ ch' = Tail(ch)
  /\ tc0' = IF tc0 = NoTs THEN f.ts ELSE tc0
  /\ lastTc' = f.ts
  /\ UNCHANGED <<producer, fin, closed, cuesAt, header, outClosed, accepted>>

\* Mutant: the block is marked as a key frame when it is its cluster's first.
StoreBlockKeyOfCluster(f, cs, base, number, position) ==
  /\ blocks' = Append(blocks,
       [seq |-> HeadSeq, track |-> f.track, key |-> number = 1, ts |-> f.ts,
        timecode |-> Int16(f.ts - base), cluster |-> Len(cs)])
  /\ clusters' = [cs EXCEPT ![Len(cs)].n = @ + 1]
  /\ cueBlockNumber' = number
  /\ cues' = IF number = 1 /\ f.key
             THEN Append(cues, [time |-> base % Word, track |-> f.track,
                                pos |-> position - OffsetSeekHeader, block |-> number])
             ELSE cues

\* The block of frame f in the last of the clusters cs, whose timecodes count
\* from base, as its number-th block; position is where that cluster goes.
StoreBlock(f, cs, base, number, position) ==
  /\ blocks' = Append(blocks,
       [seq |-> HeadSeq, track |-> f.track, key |-> f.key, ts |-> f.ts,
        timecode |-> Int16(f.ts - base), cluster |-> Len(cs)])
  /\ clusters' = [cs EXCEPT ![Len(cs)].n = @ + 1]
  /\ cueBlockNumber' = number
  /\ cues' = IF number = 1 /\ f.key
             THEN Append(cues, [time |-> base % Word, track |-> f.track,
                                pos |-> position - OffsetSeekHeader, block |-> number])
             ELSE cues

ReceiveIntoCluster(f) ==
  /\ Take(f)
  /\ ~NeedsCluster(f) /\ ~TooOld(f)
  /\ StoreBlock(f, clusters, tc1, cueBlockNumber + 1, clusterPosition)
  /\ UNCHANGED <<pc, panicking, tc1, clusterPosition, wsize, filePos, reported, faults>>

\* The cluster list once its last cluster is written to the file.
MarkWritten(cs) == IF cs = <<>> THEN cs ELSE [cs EXCEPT ![Len(cs)].pos = filePos]

LastSize(cs) == IF cs = <<>> THEN 0 ELSE ClusterSize(Last(cs))

\* Mutant: the cue takes the position before the previous cluster is counted.
ReceiveOpensClusterStale(f) ==
  /\ Take(f)
  /\ NeedsCluster(f)
  /\ LET size == LastSize(clusters)
         next == [timestamp |-> (f.ts - tc0') % Word, prevSize |-> size,
                  n |-> 0, pos |-> NoPos]
     IN /\ tc1' = f.ts
        /\ wsize' = size /\ filePos' = filePos + size
        /\ clusterPosition' = clusterPosition + size
        /\ StoreBlock(f, Append(MarkWritten(clusters), next), f.ts, 1, clusterPosition)
  /\ UNCHANGED <<pc, panicking, reported, faults>>

\* Mutant: the frame that opens a cluster is not stored in it.
ReceiveOpensClusterLosesFrame(f) ==
  /\ Take(f)
  /\ NeedsCluster(f)
  /\ LET size == LastSize(clusters)
         next == [timestamp |-> (f.ts - tc0') % Word, prevSize |-> size,
                  n |-> 0, pos |-> NoPos]
     IN /\ tc1' = f.ts
        /\ wsize' = size /\ filePos' = filePos + size
        /\ clusterPosition' = clusterPosition + size
        /\ clusters' = Append(MarkWritten(clusters), next)
  /\ cueBlockNumber' = 0
  /\ UNCHANGED <<pc, panicking, blocks, cues, reported, faults>>

\* The current cluster, if any, is marshalled and the frame opens the next.
ReceiveOpensCluster(f) ==
  /\ Take(f)
  /\ NeedsCluster(f)
  /\ LET size == LastSize(clusters)
         next == [timestamp |-> (f.ts - tc0') % Word, prevSize |-> size,
                  n |-> 0, pos |-> NoPos]
     IN /\ tc1' = f.ts
        /\ wsize' = size /\ filePos' = filePos + size
        /\ clusterPosition' = clusterPosition + size
        /\ StoreBlock(f, Append(MarkWritten(clusters), next), f.ts, 1, clusterPosition + size)
  /\ UNCHANGED <<pc, panicking, reported, faults>>

\* A write to the file fails after torn units of it went through.
IoFault(torn) ==
  /\ faults < MaxFaults
  /\ faults' = faults + 1
  /\ wsize' = 1 /\ filePos' = filePos + torn

\* After a report the select loop returns, which runs the deferred functions,
\* and a panicking handler unwinds to them; onFrame returns to draining.
AfterReport(panics) ==
  /\ panicking' = panics
  /\ pc' = IF panics \/ pc = "loop" THEN "flush" ELSE pc
  /\ reported' = reported \cup {HeadSeq}

\* Marshalling the current cluster fails: tc1 and cueBlockNumber have moved on,
\* the cluster has not.
ReceiveFault(f) ==
  /\ Take(f)
  /\ NeedsCluster(f) /\ clusters # <<>>
  /\ \E torn \in 0 .. 1 : IoFault(torn)
  /\ tc1' = f.ts /\ cueBlockNumber' = 0
  /\ AfterReport(OnFatalPanics)
  /\ UNCHANGED <<clusterPosition, clusters, blocks, cues>>

ReceiveTooOld(f) ==
  /\ Take(f)
  /\ ~NeedsCluster(f) /\ TooOld(f)
  /\ AfterReport(OnErrorPanics)
  /\ UNCHANGED <<tc1, bookVars, wsize, filePos, faults>>

\* Mutant: the goroutine returns on closed without draining ch.
SeeClosedSkipsDrain ==
  /\ pc = "loop" /\ closed
  /\ pc' = "flush"
  /\ UNCHANGED <<chanVars, panicking, timeVars, bookVars, fileVars,
                 accepted, reported, faults>>

\* The select finds closed closed, whether or not ch holds frames.
SeeClosed ==
  /\ pc = "loop" /\ closed
  /\ pc' = "drain"
  /\ UNCHANGED <<chanVars, panicking, timeVars, bookVars, fileVars,
                 accepted, reported, faults>>

DrainDone ==
  /\ pc = "drain" /\ ch = <<>>
  /\ pc' = "flush"
  /\ UNCHANGED <<chanVars, panicking, timeVars, bookVars, fileVars,
                 accepted, reported, faults>>

----------------------------------------------------------------------------
(* The deferred functions: write the last cluster, then finalise the file. *)

\* Mutant: the last cluster is never written.
FlushClusterForgotten ==
  /\ pc = "flush"
  /\ pc' = "finalize"
  /\ UNCHANGED <<chanVars, panicking, timeVars, bookVars, fileVars,
                 accepted, reported, faults>>

FlushCluster ==
  /\ pc = "flush"
  /\ pc' = "finalize"
  /\ LET size == LastSize(clusters)
     IN /\ clusters' = MarkWritten(clusters)
        /\ wsize' = (IF clusters = <<>> THEN wsize ELSE size)
        /\ filePos' = filePos + size
        /\ clusterPosition' = clusterPosition + size
  /\ UNCHANGED <<chanVars, panicking, timeVars, cueBlockNumber, blocks, cues, cuesAt,
                 header, outClosed, accepted, reported, faults>>

FlushFault ==
  /\ pc = "flush" /\ clusters # <<>>
  /\ pc' = "finalize"
  /\ \E torn \in 0 .. 1 : IoFault(torn)
  /\ panicking' = (panicking \/ OnFatalPanics)
  /\ UNCHANGED <<chanVars, timeVars, bookVars, cuesAt, header, outClosed, accepted,
                 reported>>

\* The empty cluster of a file that got no frame.
EmptyCluster == [timestamp |-> 0, prevSize |-> wsize, n |-> 0, pos |-> filePos]

\* clusterPosition as the finalizer leaves it: it adds w.Size(), which after
\* FlushCluster is the size of a cluster that is counted already.
FinalPosition == clusterPosition + wsize + (IF clusters = <<>> THEN 1 ELSE 0)

FinalHeader ==
  [clusterPos |-> OffsetCluster - OffsetSeekHeader,
   cuesPos    |-> FinalPosition - OffsetSeekHeader,
   duration   |-> lastTc]

\* An empty cluster for an empty file, the index, the header once more with
\* the positions and the duration, and the close of the output.
Finalize ==
  /\ pc = "finalize"
  /\ pc' = "fin1"
  /\ clusters' = IF clusters = <<>> THEN <<EmptyCluster>> ELSE clusters
  /\ tc0' = IF tc0 = NoTs THEN 0 ELSE tc0
  /\ clusterPosition' = FinalPosition
  /\ LET end == filePos + (IF clusters = <<>> THEN 1 ELSE 0)
     IN cuesAt' = end /\ filePos' = end + 1
  /\ header' = <<FinalHeader>>
  /\ wsize' = OffsetCluster
  /\ outClosed' = TRUE
  /\ UNCHANGED <<chanVars, panicking, tc1, lastTc, cueBlockNumber, blocks, cues,
                 accepted, reported, faults>>

\* Marshalling the index fails.  A panic here leaves the finalizer, which ends
\* the process with the output still open.
FinalizeFault ==
  /\ pc = "finalize" /\ clusters # <<>>
  /\ faults < MaxFaults /\ faults' = faults + 1
  /\ IF OnFatalPanics
     THEN /\ pc' = "crashed"
          /\ UNCHANGED <<header, outClosed, wsize>>
     ELSE /\ pc' = "fin1"
          /\ header' = <<FinalHeader>> /\ outClosed' = TRUE /\ wsize' = OffsetCluster
  /\ clusterPosition' = FinalPosition
  /\ UNCHANGED <<chanVars, panicking, timeVars, cueBlockNumber, clusters, blocks, cues,
                 filePos, cuesAt, accepted, reported>>

\* The receive that releases one blocked Close.
Fin1 ==
  /\ pc = "fin1"
  /\ ReceiveFin
  /\ pc' = "fin2"
  /\ UNCHANGED <<ch, closed, panicking, timeVars, bookVars, fileVars,
                 accepted, reported, faults>>

\* The last select, on fin and ch; the goroutine ends, and with it the process
\* when it was panicking.
Fin2 ==
  /\ pc = "fin2"
  /\ \/ ReceiveFin /\ UNCHANGED ch
     \/ ch # <<>> /\ ch' = Tail(ch) /\ UNCHANGED <<producer, fin>>
  /\ pc' = IF panicking THEN "crashed" ELSE "done"
  /\ UNCHANGED <<closed, panicking, timeVars, bookVars, fileVars,
                 accepted, reported, faults>>

----------------------------------------------------------------------------
Receive ==
  \E f \in Frames :
    ReceiveIntoCluster(f) \/ ReceiveOpensCluster(f) \/ ReceiveFault(f) \/ ReceiveTooOld(f)

Writer ==
  \/ Receive \/ SeeClosed \/ DrainDone
  \/ FlushCluster \/ FlushFault \/ Finalize \/ FinalizeFault \/ Fin1 \/ Fin2

Next ==
  \/ \E f \in Frames : Write(f)
  \/ \E t \in Tracks : CloseCall(t) \/ CloseReturn(t)
  \/ AllTracksClosed
  \/ Writer

Spec == Init /\ [][Next]_vars

\* The Go scheduler runs every goroutine that can run; whether a caller writes
\* or closes is up to the caller.
FairSpec ==
  /\ Spec
  /\ WF_vars(Writer) /\ WF_vars(AllTracksClosed)
  /\ \A t \in Tracks : WF_vars(CloseReturn(t))

----------------------------------------------------------------------------
(* Properties.                                                             *)

\* What a block's int16 timecode may be: never at the ends of the type's range.
Timecodes == -(MaxInt16 - 1) .. MaxInt16 - 1

Clusters == [timestamp : Int, prevSize : Int, n : Int, pos : Int \cup {NoPos}]
Blocks == [seq : Int, track : Tracks, key : BOOLEAN, ts : Int,
           timecode : Timecodes, cluster : Int]
Cues == [time : Int, track : Tracks, pos : Int, block : Int]
Headers == [clusterPos : Int, cuesPos : Int, duration : Int]

\* The values of the state; the timecode of a block is the interesting one, since
\* the conversion to int16 must not have truncated it.
TypeOK ==
  /\ ch \in Seq(Frames)
  /\ producer \in [Tracks -> {"open", "closing", "closed"}]
  /\ fin \in Int /\ closed \in BOOLEAN
  /\ pc \in PCs /\ panicking \in BOOLEAN
  /\ tc0 \in Int \cup {NoTs} /\ tc1 \in Int \cup {NoTs} /\ lastTc \in Int
  /\ cueBlockNumber \in Int /\ clusterPosition \in Int
  /\ clusters \in Seq(Clusters) /\ blocks \in Seq(Blocks) /\ cues \in Seq(Cues)
  /\ wsize \in Int /\ filePos \in Int /\ cuesAt \in Int \cup {NoPos}
  /\ header \in Seq(Headers) /\ outClosed \in BOOLEAN
  /\ accepted \in Seq(Frames) /\ reported \subseteq Int /\ faults \in Int

Taken == Len(accepted) - Len(ch)

\* The frames wait in ch in the order Write accepted them, behind the ones
\* the writer goroutine took.
QueueIsTail ==
  /\ Taken >= 0
  /\ \A i \in 1 .. Len(ch) : ch[i] = accepted[Taken + i]

\* Until the last select may swallow a frame, each frame the goroutine took is a
\* block of the file or was reported, and no frame it has not taken is: nothing
\* disappears between ch and the clusters.
NothingDisappears ==
  /\ \A i \in reported : i \in 1 .. Taken
  /\ \A b \in DOMAIN blocks : blocks[b].seq \in 1 .. Taken
  /\ pc \notin {"done", "crashed"} =>
       \A i \in 1 .. Taken : i \in reported \/ \E b \in DOMAIN blocks : blocks[b].seq = i

\* The blocks are the accepted frames, unchanged and in the order of Write.
BlocksFollowWrites ==
  /\ \A b \in DOMAIN blocks :
       LET f == accepted[blocks[b].seq]
       IN f = [track |-> blocks[b].track, key |-> blocks[b].key, ts |-> blocks[b].ts]
  /\ \A b, c \in DOMAIN blocks : b < c => blocks[b].seq < blocks[c].seq

\* The timestamp a reader computes for a block, its cluster's plus its
\* timecode, is the frame's distance from the first frame, modulo the width of
\* the field: int16(tc) never truncates.
TimestampsDecode ==
  \A b \in DOMAIN blocks :
    (clusters[blocks[b].cluster].timestamp + blocks[b].timecode) % Word
      = (blocks[b].ts - tc0) % Word

FirstBlock(k) == CHOOSE b \in DOMAIN blocks :
  blocks[b].cluster = k /\ \A c \in DOMAIN blocks : c < b => blocks[c].cluster # k

\* Where cluster k is in the file, or will be.
Position(k) == IF clusters[k].pos = NoPos THEN filePos ELSE clusters[k].pos

\* Cue c leads to the cluster that starts with block b at the block's time.
CueFinds(c, b) ==
  LET k == blocks[b].cluster
  IN /\ c.pos = Position(k) - OffsetSeekHeader
     /\ c.track = blocks[b].track /\ c.block = 1
     /\ c.time = blocks[b].ts % Word
     /\ b = FirstBlock(k)

CuesLeadToKeyframes ==
  faults = 0 =>
    \A i \in DOMAIN cues :
      \E b \in DOMAIN blocks : blocks[b].key /\ CueFinds(cues[i], b)

EveryKeyframeHasCue ==
  faults = 0 =>
    \A b \in DOMAIN blocks :
      blocks[b].key /\ blocks[b].track = MainTrack =>
        \E i \in DOMAIN cues : CueFinds(cues[i], b)

\* As long as no write failed, a cue leads a player that seeks to a key frame at
\* the start of a cluster, at its place in the file; and with the keyframe
\* interval of matroska.go, beyond any distance between timestamps, every key
\* frame of the main track can be sought.
CuesFindKeyframes == CuesLeadToKeyframes /\ EveryKeyframeHasCue

\* Once the Close of every track has returned the output is closed: the last
\* Close blocks until then (the comment of Close).
LastCloseWaits ==
  (\A t \in Tracks : producer[t] = "closed") => outClosed

\* A file finalised without any report or fault holds every accepted frame in
\* written clusters, whatever was in ch when the tracks were closed.
CompleteWhenClean ==
  outClosed /\ reported = {} /\ faults = 0 =>
    /\ Len(blocks) = Len(accepted)
    /\ \A k \in DOMAIN clusters : clusters[k].pos # NoPos

CloseReturns ==
  \A t \in Tracks : producer[t] = "closing" ~> (producer[t] = "closed" \/ pc = "crashed")

WriterEnds ==
  (\A t \in Tracks : producer[t] # "open") ~> pc \in {"done", "crashed"}

\* Every call of Close returns, unless the process dies of a panic; and when
\* every track is being closed the writer goroutine ends (with a single track it
\* waits for the Close in its send on fin).
EveryCloseReturns == CloseReturns /\ WriterEnds

\* What the finalised header says of the index: its position, "更新头部信息,
\* 文件时长/定位等" (update the header: duration, positions).
SeekHeadPointsAtCues ==
  outClosed /\ cuesAt # NoPos => header[1].cuesPos = cuesAt - OffsetSeekHeader

\* The blocks of the clusters that are in the file.
StoredBlocks ==
  IF clusters # <<>> /\ Last(clusters).pos = NoPos
  THEN SubSeq(blocks, 1, Len(blocks) - Last(clusters).n)
  ELSE blocks

FrameOf(b) == [track |-> b.track, key |-> b.key, ts |-> b.ts]

\* With handlers that panic, as matroska.go sets them, the writer implements
\* the abstract recording.
Abstract == INSTANCE Recording WITH
  stored <- [i \in 1 .. Len(StoredBlocks) |-> FrameOf(StoredBlocks[i])],
  phase  <- IF panicking \/ pc = "crashed" THEN "cut"
            ELSE IF outClosed THEN "complete" ELSE "recording"

ImplementsRecording == Abstract!Spec
============================================================================
