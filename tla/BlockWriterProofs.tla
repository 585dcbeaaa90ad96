------------------------- MODULE BlockWriterProofs -------------------------
(* Theorems about BlockWriter, for every value of its constants: what it     *)
(* keeps of the frames and of the file, the times and the index in the file, *)
(* and that it implements Recording.                                         *)
EXTENDS BlockWriter, TLAPS, SequenceTheorems, FiniteSetTheorems

USE BlockWriterAssumption DEF BlockWriterAssumption

\* A remainder of a number within the divisor's range is that number.
LEMMA ModSmall == ASSUME NEW a \in Nat, NEW b \in Nat \ {0}, a < b PROVE a % b = a
  OBVIOUS

\* The conversion to int16 leaves a timecode of the range alone.
LEMMA Int16Exact == ASSUME NEW x \in Timecodes PROVE Int16(x) = x
<1> DEFINE a == x + MaxInt16 + 1
           b == 2 * (MaxInt16 + 1)
<1>1. a \in Nat /\ b \in Nat \ {0} /\ a < b
  BY DEF Timecodes
<1>2. a % b = a
  BY <1>1, ModSmall
<1> QED BY <1>2 DEF Int16, Timecodes

\* A frame that neither opens a cluster nor is too old has an exact timecode.
LEMMA TimecodeInRange ==
  ASSUME NEW f \in Frames, TypeOK, ~NeedsCluster(f), ~TooOld(f)
  PROVE  tc1 \in Int /\ f.ts - tc1 \in Timecodes
<1>1. tc1 \in Int \cup {NoTs} /\ f.ts \in Int
  BY DEF TypeOK, Frames
<1>2. tc1 # NoTs /\ ~(f.ts - tc1 >= MaxInt16) /\ ~(f.ts - tc1 <= -MaxInt16)
  BY DEF NeedsCluster, TooOld
<1> QED BY <1>1, <1>2 DEF Timecodes

\* Counting a block in a cluster, and giving it a position, leave a cluster.
LEMMA ClusterUpdate ==
  ASSUME NEW c \in Clusters
  PROVE  /\ [c EXCEPT !.n = c.n + 1] \in Clusters
         /\ \A p \in Int : [c EXCEPT !.pos = p] \in Clusters
<1>1. c.n + 1 \in Int BY DEF Clusters
<1>2. [c EXCEPT !.n = c.n + 1]
        = [timestamp |-> c.timestamp, prevSize |-> c.prevSize, n |-> c.n + 1, pos |-> c.pos]
  BY DEF Clusters
<1>3. ASSUME NEW p \in Int
      PROVE  [c EXCEPT !.pos = p]
               = [timestamp |-> c.timestamp, prevSize |-> c.prevSize, n |-> c.n, pos |-> p]
  BY DEF Clusters
<1> QED BY <1>1, <1>2, <1>3 DEF Clusters

\* StoreBlock keeps the types of what it assigns.
LEMMA StoreBlockTypes ==
  ASSUME TypeOK, NEW f \in Frames, NEW cs \in Seq(Clusters), cs # <<>>, NEW base \in Int,
         NEW number \in Int, NEW position \in Int,
         f.ts - base \in Timecodes, StoreBlock(f, cs, base, number, position)
  PROVE  blocks' \in Seq(Blocks) /\ clusters' \in Seq(Clusters)
         /\ cues' \in Seq(Cues) /\ cueBlockNumber' \in Int
<1>1. HeadSeq \in Int
  BY DEF TypeOK, HeadSeq
<1>2. blocks' \in Seq(Blocks)
  <2>1. Int16(f.ts - base) \in Timecodes
    BY Int16Exact
  <2>2. Len(cs) \in Int OBVIOUS
  <2> DEFINE blk == [seq |-> HeadSeq, track |-> f.track, key |-> f.key, ts |-> f.ts,
                     timecode |-> Int16(f.ts - base), cluster |-> Len(cs)]
  <2>3. blk \in Blocks
    BY <1>1, <2>1, <2>2 DEF Blocks, Frames
  <2>4. blocks \in Seq(Blocks)
    BY DEF TypeOK
  <2>5. blocks' = Append(blocks, blk)
    BY DEF StoreBlock
  <2> QED BY <2>3, <2>4, <2>5
<1>3. clusters' \in Seq(Clusters)
  <2>1. clusters' = [cs EXCEPT ![Len(cs)].n = @ + 1]
    BY DEF StoreBlock
  <2> DEFINE c == cs[Len(cs)]
  <2>2. Len(cs) \in 1 .. Len(cs) /\ c \in Clusters
    OBVIOUS
  <2>3. [c EXCEPT !.n = c.n + 1] \in Clusters
    BY <2>2, ClusterUpdate
  <2> QED BY <2>1, <2>2, <2>3
<1>4. cues' \in Seq(Cues)
  <2>1. base % Word \in Int OBVIOUS
  <2> DEFINE cue == [time |-> base % Word, track |-> f.track,
                     pos |-> position - OffsetSeekHeader, block |-> number]
  <2>2. cue \in Cues
    BY <2>1 DEF Cues, Frames
  <2>3. cues \in Seq(Cues)
    BY DEF TypeOK
  <2> QED BY <2>2, <2>3 DEF StoreBlock
<1> QED BY <1>2, <1>3, <1>4 DEF StoreBlock

\* Writing the last cluster keeps the types.
LEMMA MarkWrittenTypes ==
  ASSUME TypeOK
  PROVE  MarkWritten(clusters) \in Seq(Clusters) /\ LastSize(clusters) \in Int
<1>1. clusters \in Seq(Clusters)
  BY DEF TypeOK
<1>2. CASE clusters = <<>>
  BY <1>2 DEF MarkWritten, LastSize
<1>3. CASE clusters # <<>>
  <2>1. Len(clusters) \in 1 .. Len(clusters) /\ clusters[Len(clusters)] \in Clusters
    BY <1>1, <1>3
  <2>2. [clusters[Len(clusters)] EXCEPT !.pos = filePos] \in Clusters
    BY <2>1, ClusterUpdate DEF TypeOK
  <2>3. LastSize(clusters) \in Int
    BY <1>3, <2>1 DEF LastSize, ClusterSize, Last, Clusters
  <2> QED BY <1>1, <1>3, <2>1, <2>2, <2>3 DEF MarkWritten
<1> QED BY <1>2, <1>3

----------------------------------------------------------------------------
(* Type correctness.  A known tc1 means that a cluster has been started.   *)

TcKnown == tc1 # NoTs => clusters # <<>>

TInv == TypeOK /\ TcKnown

LEMMA TakeTypes ==
  ASSUME TypeOK, NEW f \in Frames, Take(f)
  PROVE  /\ ch' \in Seq(Frames)
         /\ tc0' \in Int \cup {NoTs} /\ (f.ts - tc0') % Word \in Int
         /\ lastTc' \in Int /\ f.ts \in Int /\ HeadSeq \in Int
  BY DEF TypeOK, Take, Frames, HeadSeq

LEMMA NewCluster ==
  ASSUME TypeOK, NEW c \in Clusters
  PROVE  /\ Append(MarkWritten(clusters), c) \in Seq(Clusters)
         /\ Append(MarkWritten(clusters), c) # <<>>
  BY MarkWrittenTypes, AppendProperties

LEMMA ReceiveTypes ==
  ASSUME TInv, NEW f \in Frames,
         ReceiveIntoCluster(f) \/ ReceiveOpensCluster(f) \/ ReceiveFault(f) \/ ReceiveTooOld(f)
  PROVE  TInv'
<1>0. TypeOK /\ Take(f)
  BY DEF TInv, ReceiveIntoCluster, ReceiveOpensCluster, ReceiveFault, ReceiveTooOld
<1>1. CASE ReceiveIntoCluster(f)
  <2>1. f.ts - tc1 \in Timecodes /\ tc1 \in Int
    BY <1>0, <1>1, TimecodeInRange DEF ReceiveIntoCluster
  <2>2. clusters \in Seq(Clusters) /\ clusters # <<>>
    BY <1>0, <2>1 DEF TInv, TcKnown, TypeOK
  <2>3. blocks' \in Seq(Blocks) /\ clusters' \in Seq(Clusters)
        /\ cues' \in Seq(Cues) /\ cueBlockNumber' \in Int /\ clusters' # <<>>
    <3>1. cueBlockNumber + 1 \in Int /\ clusterPosition \in Int
      BY <1>0 DEF TypeOK
    <3>2. StoreBlock(f, clusters, tc1, cueBlockNumber + 1, clusterPosition)
      BY <1>1 DEF ReceiveIntoCluster
    <3>3. clusters' # <<>>
      BY <2>2, <3>2 DEF StoreBlock
    <3> QED BY <1>0, <2>1, <2>2, <3>1, <3>2, <3>3, StoreBlockTypes
  <2> QED BY <1>0, <1>1, <2>1, <2>3, TakeTypes
          DEF ReceiveIntoCluster, Take, TypeOK, TInv, TcKnown
<1>2. CASE ReceiveOpensCluster(f)
  <2> DEFINE size == LastSize(clusters)
             next == [timestamp |-> (f.ts - tc0') % Word, prevSize |-> size,
                      n |-> 0, pos |-> NoPos]
             cs == Append(MarkWritten(clusters), next)
  <2>1. f.ts \in Int /\ (f.ts - tc0') % Word \in Int /\ size \in Int
        /\ clusterPosition + size \in Int /\ filePos + size \in Int
    BY <1>0, TakeTypes, MarkWrittenTypes DEF TypeOK
  <2>2. cs \in Seq(Clusters) /\ cs # <<>>
    <3>1. next \in Clusters
      BY <2>1 DEF Clusters
    <3> HIDE DEF next
    <3> QED BY <1>0, <3>1, NewCluster
  <2>3. StoreBlock(f, cs, f.ts, 1, clusterPosition + size)
    BY <1>2 DEF ReceiveOpensCluster
  <2>4. f.ts - f.ts \in Timecodes
    BY <2>1 DEF Timecodes
  <2>5. blocks' \in Seq(Blocks) /\ clusters' \in Seq(Clusters)
        /\ cues' \in Seq(Cues) /\ cueBlockNumber' \in Int
    <3> HIDE DEF cs
    <3> QED BY <1>0, <2>1, <2>2, <2>3, <2>4, StoreBlockTypes
  <2>6. clusters' # <<>>
    <3> HIDE DEF cs
    <3> QED BY <2>2, <2>3 DEF StoreBlock
  <2> QED BY <1>0, <1>2, <2>1, <2>5, <2>6, TakeTypes
          DEF ReceiveOpensCluster, Take, TypeOK, TInv, TcKnown
<1>3. CASE ReceiveFault(f)
  <2>1. faults' \in Int /\ wsize' \in Int /\ filePos' \in Int
    BY <1>0, <1>3 DEF ReceiveFault, IoFault, TypeOK
  <2>2. panicking' \in BOOLEAN /\ pc' \in PCs /\ reported' \subseteq Int
    BY <1>0, <1>3, TakeTypes DEF ReceiveFault, AfterReport, TypeOK, PCs
  <2> QED BY <1>0, <1>3, <2>1, <2>2, TakeTypes
          DEF ReceiveFault, Take, TypeOK, TInv, TcKnown
<1>4. CASE ReceiveTooOld(f)
  BY <1>0, <1>4, TakeTypes
     DEF ReceiveTooOld, AfterReport, bookVars, Take, TypeOK, TInv, TcKnown, PCs
<1> QED BY <1>1, <1>2, <1>3, <1>4

LEMMA TypeStep == TInv /\ [Next]_vars => TInv'
<1> SUFFICES ASSUME TInv, [Next]_vars PROVE TInv'
  OBVIOUS
<1> USE DEF chanVars, timeVars, bookVars, fileVars
<1>0. TypeOK
  BY DEF TInv
<1>1. ASSUME NEW f \in Frames, Write(f) PROVE TInv'
  BY <1>1 DEF Write, TInv, TypeOK, TcKnown
<1>2. ASSUME NEW t \in Tracks, CloseCall(t) PROVE TInv'
  BY <1>2 DEF CloseCall, TInv, TypeOK, TcKnown
<1>3. ASSUME NEW t \in Tracks, CloseReturn(t) PROVE TInv'
  BY <1>3 DEF CloseReturn, TInv, TypeOK, TcKnown
<1>4. CASE AllTracksClosed
  BY <1>4 DEF AllTracksClosed, TInv, TypeOK, TcKnown
<1>5. CASE Receive
  BY <1>5, ReceiveTypes DEF Receive
<1>6. CASE SeeClosed
  BY <1>6 DEF SeeClosed, TInv, TypeOK, TcKnown, PCs
<1>7. CASE DrainDone
  BY <1>7 DEF DrainDone, TInv, TypeOK, TcKnown, PCs
<1>8. CASE FlushCluster
  <2>1. MarkWritten(clusters) \in Seq(Clusters) /\ LastSize(clusters) \in Int
    BY <1>0, MarkWrittenTypes
  <2>2. clusters # <<>> => MarkWritten(clusters) # <<>>
    BY <1>0 DEF MarkWritten, TypeOK
  <2> QED BY <1>8, <2>1, <2>2 DEF FlushCluster, TInv, TypeOK, TcKnown, PCs
<1>9. CASE FlushFault
  BY <1>9 DEF FlushFault, IoFault, TInv, TypeOK, TcKnown, PCs
<1>10. FinalPosition \in Int /\ FinalHeader \in Headers
  BY <1>0 DEF FinalPosition, FinalHeader, TypeOK, Headers
<1>11. CASE Finalize
  <2>1. EmptyCluster \in Clusters
    BY <1>0 DEF EmptyCluster, TypeOK, Clusters
  <2>2. clusters' \in Seq(Clusters) /\ clusters' # <<>>
    BY <1>0, <1>11, <2>1 DEF Finalize, TypeOK
  <2>3. <<FinalHeader>> \in Seq(Headers)
    BY <1>10
  <2> QED BY <1>10, <1>11, <2>2, <2>3
          DEF Finalize, TInv, TypeOK, TcKnown, PCs
<1>12. CASE FinalizeFault
  <2>1. <<FinalHeader>> \in Seq(Headers)
    BY <1>10
  <2>2. pc' \in PCs /\ header' \in Seq(Headers) /\ outClosed' \in BOOLEAN
        /\ wsize' \in Int /\ faults' \in Int /\ clusterPosition' \in Int
    <3>1. CASE OnFatalPanics
      BY <1>0, <1>10, <1>12, <3>1 DEF FinalizeFault, TypeOK, PCs
    <3>2. CASE ~OnFatalPanics
      <4>1. header' = <<FinalHeader>> /\ outClosed' = TRUE /\ wsize' = OffsetCluster
            /\ pc' = "fin1" /\ faults' = faults + 1 /\ clusterPosition' = FinalPosition
        BY <1>12, <3>2 DEF FinalizeFault
      <4> QED BY <1>0, <1>10, <2>1, <4>1 DEF TypeOK, PCs
    <3> QED BY <3>1, <3>2
  <2> QED BY <1>12, <2>2 DEF FinalizeFault, TInv, TypeOK, TcKnown
<1>13. CASE Fin1
  BY <1>13 DEF Fin1, ReceiveFin, TInv, TypeOK, TcKnown, PCs
<1>14. CASE Fin2
  <2>1. ch' \in Seq(Frames) /\ fin' \in Int /\ pc' \in PCs
        /\ producer' \in [Tracks -> {"open", "closing", "closed"}]
    <3>1. pc' \in PCs
      BY <1>14 DEF Fin2, PCs
    <3>2. CASE ReceiveFin /\ UNCHANGED ch
      BY <1>0, <3>1, <3>2 DEF ReceiveFin, TypeOK
    <3>3. CASE ch # <<>> /\ ch' = Tail(ch) /\ UNCHANGED <<producer, fin>>
      BY <1>0, <3>1, <3>3 DEF TypeOK
    <3> QED BY <1>14, <3>2, <3>3 DEF Fin2
  <2> QED BY <1>14, <2>1 DEF Fin2, TInv, TypeOK, TcKnown
<1>15. CASE UNCHANGED vars
  BY <1>15 DEF vars, TInv, TypeOK, TcKnown
<1> QED BY <1>1, <1>2, <1>3, <1>4, <1>5, <1>6, <1>7, <1>8, <1>9, <1>11, <1>12, <1>13,
           <1>14, <1>15 DEF Next, Writer

LEMMA TypeInit == Init => TInv
<1> SUFFICES ASSUME Init PROVE TInv
  OBVIOUS
<1>1. /\ ch \in Seq(Frames) /\ clusters \in Seq(Clusters)
      /\ blocks \in Seq(Blocks) /\ cues \in Seq(Cues)
      /\ header \in Seq(Headers) /\ accepted \in Seq(Frames)
  BY DEF Init
<1>2. /\ producer \in [Tracks -> {"open", "closing", "closed"}]
      /\ closed \in BOOLEAN /\ pc \in PCs /\ panicking \in BOOLEAN /\ outClosed \in BOOLEAN
  BY DEF Init, PCs
<1>3. /\ fin \in Int /\ lastTc \in Int /\ cueBlockNumber \in Int /\ clusterPosition \in Int
      /\ wsize \in Int /\ filePos \in Int /\ faults \in Int /\ reported \subseteq Int
  BY DEF Init
<1>4. tc0 = NoTs /\ tc1 = NoTs /\ cuesAt = NoPos
  BY DEF Init
<1> QED BY <1>1, <1>2, <1>3, <1>4 DEF TInv, TypeOK, TcKnown

\* Every variable keeps its type, and no block's timecode was truncated by the
\* conversion to int16, whatever the timestamps.
THEOREM TypeCorrect == Spec => []TypeOK
<1>1. TInv => TypeOK
  BY DEF TInv
<1> QED BY <1>1, TypeInit, TypeStep, PTL DEF Spec

----------------------------------------------------------------------------
(* The last Close waits.  Before the output is closed nothing receives     *)
(* from fin, so each Close that returned left its token there, and there   *)
(* is room for one token less than there are tracks.                       *)

ClosedTracks == {t \in Tracks : producer[t] = "closed"}

CloseInv ==
  /\ fin \in Nat /\ fin <= FinCap
  /\ pc \in {"fin1", "fin2", "done"} => outClosed
  /\ ~outClosed => Cardinality(ClosedTracks) = fin

LEMMA FinCapNat == FinCap \in Nat /\ FinCap = Cardinality(Tracks) - 1
<1>1. Cardinality(Tracks) \in Nat /\ Cardinality(Tracks) # 0
  BY FS_CardinalityType, FS_EmptySet
<1> QED BY <1>1 DEF FinCap

LEMMA CloseStep == TypeOK /\ CloseInv /\ [Next]_vars => CloseInv'
<1> SUFFICES ASSUME TypeOK, CloseInv, [Next]_vars PROVE CloseInv'
  OBVIOUS
<1> USE DEF chanVars, timeVars, bookVars, fileVars
<1>1. ASSUME NEW f \in Frames, Write(f) PROVE CloseInv'
  BY <1>1 DEF Write, CloseInv, ClosedTracks, FinCap
<1>2. ASSUME NEW t \in Tracks, CloseCall(t) PROVE CloseInv'
  <2>1. ClosedTracks' = ClosedTracks
    BY <1>2 DEF CloseCall, ClosedTracks, TypeOK
  <2> QED BY <1>2, <2>1 DEF CloseCall, CloseInv, FinCap
<1>3. ASSUME NEW t \in Tracks, CloseReturn(t) PROVE CloseInv'
  <2>1. ClosedTracks' = ClosedTracks \cup {t} /\ t \notin ClosedTracks
    BY <1>3 DEF CloseReturn, ClosedTracks, TypeOK
  <2>2. IsFiniteSet(ClosedTracks)
    BY FS_Subset DEF ClosedTracks
  <2>3. Cardinality(ClosedTracks') = Cardinality(ClosedTracks) + 1
    BY <2>1, <2>2, FS_AddElement
  <2> QED BY <1>3, <2>3, FinCapNat DEF CloseReturn, CloseInv
<1>4. CASE AllTracksClosed
  BY <1>4 DEF AllTracksClosed, CloseInv, ClosedTracks, FinCap
<1>5. CASE Receive
  <2>1. PICK f \in Frames :
          ReceiveIntoCluster(f) \/ ReceiveOpensCluster(f) \/ ReceiveFault(f) \/ ReceiveTooOld(f)
    BY <1>5 DEF Receive
  <2>2. Take(f) /\ (pc' = pc \/ pc' = "flush")
    BY <2>1 DEF ReceiveIntoCluster, ReceiveOpensCluster, ReceiveFault, ReceiveTooOld, AfterReport
  <2> QED BY <2>2 DEF Take, CloseInv, ClosedTracks, FinCap
<1>6. CASE SeeClosed
  BY <1>6 DEF SeeClosed, CloseInv, ClosedTracks, FinCap
<1>7. CASE DrainDone
  BY <1>7 DEF DrainDone, CloseInv, ClosedTracks, FinCap
<1>8. CASE FlushCluster \/ FlushFault
  BY <1>8 DEF FlushCluster, FlushFault, CloseInv, ClosedTracks, FinCap
<1>9. CASE Finalize
  BY <1>9 DEF Finalize, CloseInv, ClosedTracks, FinCap
<1>10. CASE FinalizeFault
  <2>1. pc' = "fin1" => outClosed'
    BY <1>10 DEF FinalizeFault
  <2>2. (pc' = "crashed" \/ pc' = "fin1") /\ (outClosed => outClosed')
    BY <1>10 DEF FinalizeFault
  <2> QED BY <1>10, <2>1, <2>2 DEF FinalizeFault, CloseInv, ClosedTracks, FinCap
<1>11. CASE Fin1 \/ Fin2
  <2>1. outClosed'
    BY <1>11 DEF Fin1, Fin2, CloseInv
  <2>2. fin' = fin \/ (fin > 0 /\ fin' = fin - 1)
    <3>1. ASSUME ReceiveFin PROVE fin' = fin \/ (fin > 0 /\ fin' = fin - 1)
      BY <3>1 DEF ReceiveFin
    <3> QED BY <1>11, <3>1 DEF Fin1, Fin2
  <2> QED BY <2>1, <2>2, FinCapNat DEF CloseInv
<1>12. CASE UNCHANGED vars
  BY <1>12 DEF vars, CloseInv, ClosedTracks, FinCap
<1> QED BY <1>1, <1>2, <1>3, <1>4, <1>5, <1>6, <1>7, <1>8, <1>9, <1>10, <1>11, <1>12
    DEF Next, Writer

\* Whatever the number of tracks and the order of the calls, the Close of every
\* track has returned only once the output is closed.
THEOREM CloseBlocks == Spec => []LastCloseWaits
<1>1. Init => CloseInv
  <2> SUFFICES ASSUME Init PROVE CloseInv
    OBVIOUS
  <2>1. ClosedTracks = {}
    BY DEF Init, ClosedTracks
  <2> QED BY <2>1, FS_EmptySet, FinCapNat DEF Init, CloseInv
<1>2. CloseInv => LastCloseWaits
  <2> SUFFICES ASSUME CloseInv, \A t \in Tracks : producer[t] = "closed" PROVE outClosed
    BY DEF LastCloseWaits
  <2>1. ClosedTracks = Tracks
    BY DEF ClosedTracks
  <2> QED BY <2>1, FinCapNat DEF CloseInv
<1> QED BY <1>1, <1>2, TypeCorrect, CloseStep, PTL DEF Spec

----------------------------------------------------------------------------
(* Nothing disappears between Write and the clusters.                      *)

FlowInv == QueueIsTail /\ NothingDisappears /\ BlocksFollowWrites

\* The length of ch and the number of frames taken.
LEMMA TakenType == TypeOK => Len(ch) \in Nat /\ Len(accepted) \in Nat /\ Taken \in Int
                             /\ HeadSeq = Taken + 1
  BY DEF TypeOK, Taken, HeadSeq

\* The frame that leaves ch is the next one accepted, and ch stays a tail.
LEMMA DequeueFlow ==
  ASSUME TypeOK, QueueIsTail, ch # <<>>, ch' = Tail(ch), accepted' = accepted
  PROVE  /\ QueueIsTail' /\ Taken' = Taken + 1
         /\ HeadSeq \in 1 .. Len(accepted) /\ Head(ch) = accepted[HeadSeq]
<1>1. ch \in Seq(Frames)
  BY DEF TypeOK
<1>2. Len(ch') = Len(ch) - 1 /\ \A i \in 1 .. Len(ch') : ch'[i] = ch[i + 1]
  BY <1>1
<1>3. Taken' = Taken + 1 /\ Taken \in Int /\ Len(ch) \in Nat \ {0} /\ Len(accepted) \in Nat
  BY <1>1, <1>2, TakenType DEF Taken
<1>4. HeadSeq = Taken + 1 /\ Head(ch) = ch[1] /\ ch[1] = accepted[Taken + 1] /\ Taken >= 0
  BY <1>1, <1>3, TakenType DEF QueueIsTail
<1>5. HeadSeq \in 1 .. Len(accepted)
  BY <1>3, <1>4 DEF Taken
<1>6. QueueIsTail'
  <2>1. ASSUME NEW i \in 1 .. Len(ch') PROVE ch'[i] = accepted'[Taken' + i]
    <3>1. i + 1 \in 1 .. Len(ch) /\ ch'[i] = ch[i + 1]
      BY <1>2, <1>3
    <3>2. ch[i + 1] = accepted[Taken + (i + 1)]
      BY <3>1 DEF QueueIsTail
    <3>3. Taken + (i + 1) = Taken' + i
      BY <1>3
    <3> QED BY <3>1, <3>2, <3>3
  <2> QED BY <1>3, <1>4, <2>1 DEF QueueIsTail
<1> QED BY <1>3, <1>4, <1>5, <1>6

LEMMA TakeFlow ==
  ASSUME TypeOK, QueueIsTail, NEW f \in Frames, Take(f)
  PROVE  /\ QueueIsTail' /\ Taken' = Taken + 1
         /\ HeadSeq \in 1 .. Len(accepted) /\ f = accepted[HeadSeq]
         /\ accepted' = accepted /\ pc \notin {"done", "crashed"}
  BY DequeueFlow DEF Take

\* A frame that becomes the next block keeps the flow.
LEMMA StoreFlow ==
  ASSUME TypeOK, FlowInv, NEW f \in Frames, Take(f), NEW b,
         blocks' = Append(blocks, b), b.seq = HeadSeq,
         b.track = f.track, b.key = f.key, b.ts = f.ts, reported' = reported
  PROVE  FlowInv'
<1>1. QueueIsTail' /\ Taken' = Taken + 1 /\ HeadSeq \in 1 .. Len(accepted)
      /\ f = accepted[HeadSeq] /\ accepted' = accepted /\ pc \notin {"done", "crashed"}
  BY TakeFlow DEF FlowInv
<1>2. Taken \in Int /\ HeadSeq = Taken + 1 /\ Taken >= 0
  BY TakenType DEF FlowInv, QueueIsTail
<1>3. blocks \in Seq(Blocks)
  BY DEF TypeOK
<1>4. /\ DOMAIN blocks = 1 .. Len(blocks) /\ DOMAIN blocks' = 1 .. Len(blocks) + 1
      /\ Len(blocks) \in Nat
      /\ \A i \in DOMAIN blocks : blocks'[i] = blocks[i]
      /\ blocks'[Len(blocks) + 1] = b
  BY <1>3
<1>5. NothingDisappears'
  <2>1. \A i \in reported' : i \in 1 .. Taken'
    BY <1>1, <1>2 DEF FlowInv, NothingDisappears
  <2>2. \A i \in DOMAIN blocks' : blocks'[i].seq \in 1 .. Taken'
    BY <1>1, <1>2, <1>4 DEF FlowInv, NothingDisappears
  <2>3. ASSUME NEW i \in 1 .. Taken'
        PROVE  i \in reported' \/ \E c \in DOMAIN blocks' : blocks'[c].seq = i
    <3>1. CASE i = HeadSeq
      BY <1>4, <3>1
    <3>2. CASE i # HeadSeq
      <4>1. i \in 1 .. Taken
        BY <1>1, <1>2, <3>2
      <4>2. i \in reported \/ \E c \in DOMAIN blocks : blocks[c].seq = i
        BY <1>1, <4>1 DEF FlowInv, NothingDisappears
      <4> QED BY <1>4, <4>2
    <3> QED BY <3>1, <3>2
  <2> QED BY <2>1, <2>2, <2>3 DEF NothingDisappears
<1>6. BlocksFollowWrites'
  <2>1. ASSUME NEW i \in DOMAIN blocks'
        PROVE  accepted'[blocks'[i].seq]
                 = [track |-> blocks'[i].track, key |-> blocks'[i].key, ts |-> blocks'[i].ts]
    <3>1. CASE i \in DOMAIN blocks
      BY <1>1, <1>4, <3>1 DEF FlowInv, BlocksFollowWrites
    <3>2. CASE i = Len(blocks) + 1
      BY <1>1, <1>4, <3>2 DEF Frames
    <3> QED BY <1>4, <3>1, <3>2
  <2>2. ASSUME NEW i \in DOMAIN blocks', NEW c \in DOMAIN blocks', i < c
        PROVE  blocks'[i].seq < blocks'[c].seq
    <3>1. i \in DOMAIN blocks
      BY <1>4, <2>2
    <3>2. CASE c \in DOMAIN blocks
      BY <1>4, <2>2, <3>1, <3>2 DEF FlowInv, BlocksFollowWrites
    <3>3. CASE c = Len(blocks) + 1
      <4>1. blocks[i].seq \in 1 .. Taken
        BY <3>1 DEF FlowInv, NothingDisappears
      <4> QED BY <1>2, <1>4, <3>1, <3>3, <4>1
    <3> QED BY <1>4, <3>2, <3>3
  <2> QED BY <2>1, <2>2 DEF BlocksFollowWrites
<1> QED BY <1>1, <1>5, <1>6 DEF FlowInv

\* A frame that is reported instead keeps it too.
LEMMA ReportFlow ==
  ASSUME TypeOK, FlowInv, NEW f \in Frames, Take(f),
         blocks' = blocks, reported' = reported \cup {HeadSeq}
  PROVE  FlowInv'
<1>1. QueueIsTail' /\ Taken' = Taken + 1 /\ accepted' = accepted /\ pc \notin {"done", "crashed"}
  BY TakeFlow DEF FlowInv
<1>2. Taken \in Int /\ HeadSeq = Taken + 1 /\ Taken >= 0
  BY TakenType DEF FlowInv, QueueIsTail
<1>3. NothingDisappears'
  BY <1>1, <1>2 DEF FlowInv, NothingDisappears
<1> QED BY <1>1, <1>3 DEF FlowInv, BlocksFollowWrites

\* A step that leaves the frames alone keeps the flow, if it does not bring the
\* goroutine back to life.
LEMMA IdleFlow ==
  ASSUME FlowInv, UNCHANGED <<ch, accepted, blocks, reported>>,
         pc \in {"done", "crashed"} => pc' \in {"done", "crashed"}
  PROVE  FlowInv'
  BY DEF FlowInv, QueueIsTail, NothingDisappears, BlocksFollowWrites, Taken

LEMMA FlowStep == TypeOK /\ FlowInv /\ [Next]_vars => FlowInv'
<1> SUFFICES ASSUME TypeOK, FlowInv, [Next]_vars PROVE FlowInv'
  OBVIOUS
<1> USE DEF chanVars, timeVars, bookVars, fileVars
<1>1. ASSUME NEW f \in Frames, Write(f) PROVE FlowInv'
  <2>1. /\ ch \in Seq(Frames) /\ accepted \in Seq(Frames)
        /\ ch' = Append(ch, f) /\ accepted' = Append(accepted, f)
        /\ UNCHANGED <<pc, blocks, reported>>
    BY <1>1 DEF Write, TypeOK
  <2>2. /\ Len(ch') = Len(ch) + 1 /\ Len(accepted') = Len(accepted) + 1
        /\ \A i \in 1 .. Len(ch) : ch'[i] = ch[i]
        /\ \A i \in 1 .. Len(accepted) : accepted'[i] = accepted[i]
        /\ ch'[Len(ch) + 1] = f /\ accepted'[Len(accepted) + 1] = f
    BY <2>1
  <2>3. Taken' = Taken /\ Taken \in Nat /\ Len(ch) \in Nat /\ Len(accepted) = Taken + Len(ch)
    BY <2>1, <2>2, TakenType DEF Taken, FlowInv, QueueIsTail
  <2>4. QueueIsTail'
    <3>1. ASSUME NEW i \in 1 .. Len(ch') PROVE ch'[i] = accepted'[Taken' + i]
      <4>1. CASE i \in 1 .. Len(ch)
        BY <2>2, <2>3, <4>1 DEF FlowInv, QueueIsTail
      <4>2. CASE i = Len(ch) + 1
        BY <2>2, <2>3, <4>2
      <4> QED BY <2>2, <2>3, <4>1, <4>2
    <3> QED BY <2>3, <3>1 DEF QueueIsTail
  <2>5. NothingDisappears'
    BY <2>1, <2>3 DEF FlowInv, NothingDisappears
  <2>6. BlocksFollowWrites'
    <3>1. \A b \in DOMAIN blocks : accepted'[blocks[b].seq] = accepted[blocks[b].seq]
      BY <2>2, <2>3 DEF FlowInv, NothingDisappears
    <3> QED BY <2>1, <3>1 DEF FlowInv, BlocksFollowWrites
  <2> QED BY <2>4, <2>5, <2>6 DEF FlowInv
<1>2. CASE Receive
  <2>1. PICK f \in Frames :
          ReceiveIntoCluster(f) \/ ReceiveOpensCluster(f) \/ ReceiveFault(f) \/ ReceiveTooOld(f)
    BY <1>2 DEF Receive
  <2>2. CASE ReceiveIntoCluster(f) \/ ReceiveOpensCluster(f)
    <3>1. Take(f) /\ reported' = reported
      BY <2>2 DEF ReceiveIntoCluster, ReceiveOpensCluster
    <3>2. PICK b : /\ blocks' = Append(blocks, b) /\ b.seq = HeadSeq
                   /\ b.track = f.track /\ b.key = f.key /\ b.ts = f.ts
      <4>1. ASSUME NEW cs, NEW base, NEW number, NEW position,
                   StoreBlock(f, cs, base, number, position)
            PROVE  \E b : /\ blocks' = Append(blocks, b) /\ b.seq = HeadSeq
                          /\ b.track = f.track /\ b.key = f.key /\ b.ts = f.ts
        <5> DEFINE blk == [seq |-> HeadSeq, track |-> f.track, key |-> f.key, ts |-> f.ts,
                           timecode |-> Int16(f.ts - base), cluster |-> Len(cs)]
        <5>1. blocks' = Append(blocks, blk)
          BY <4>1 DEF StoreBlock
        <5>2. blk.seq = HeadSeq /\ blk.track = f.track /\ blk.key = f.key /\ blk.ts = f.ts
          OBVIOUS
        <5> HIDE DEF blk
        <5> QED BY <5>1, <5>2
      <4>2. CASE ReceiveIntoCluster(f)
        BY <4>1, <4>2 DEF ReceiveIntoCluster
      <4>3. CASE ReceiveOpensCluster(f)
        BY <4>1, <4>3 DEF ReceiveOpensCluster
      <4> QED BY <2>2, <4>2, <4>3
    <3> QED BY <3>1, <3>2, StoreFlow
  <2>3. CASE ReceiveFault(f) \/ ReceiveTooOld(f)
    BY <2>3, ReportFlow DEF ReceiveFault, ReceiveTooOld, AfterReport
  <2> QED BY <2>1, <2>2, <2>3
<1>3. CASE Fin2
  <2>1. pc' \in {"done", "crashed"} /\ UNCHANGED <<accepted, blocks, reported>> /\ pc = "fin2"
    BY <1>3 DEF Fin2
  <2>2. CASE UNCHANGED ch
    BY <2>1, <2>2, IdleFlow
  <2>3. CASE ch # <<>> /\ ch' = Tail(ch)
    <3>1. QueueIsTail' /\ Taken' = Taken + 1 /\ Taken \in Nat
      BY <2>1, <2>3, DequeueFlow, TakenType DEF FlowInv, QueueIsTail
    <3>2. NothingDisappears'
      BY <2>1, <3>1 DEF FlowInv, NothingDisappears
    <3> QED BY <2>1, <3>1, <3>2 DEF FlowInv, BlocksFollowWrites
  <2> QED BY <1>3, <2>2, <2>3 DEF Fin2
<1>4. CASE \/ \E t \in Tracks : CloseCall(t) \/ CloseReturn(t)
           \/ AllTracksClosed \/ UNCHANGED vars
  BY <1>4, IdleFlow DEF CloseCall, CloseReturn, AllTracksClosed, vars
<1>5. CASE SeeClosed \/ DrainDone \/ FlushCluster \/ FlushFault
  BY <1>5, IdleFlow DEF SeeClosed, DrainDone, FlushCluster, FlushFault
<1>6. CASE Finalize \/ FinalizeFault \/ Fin1
  BY <1>6, IdleFlow DEF Finalize, FinalizeFault, Fin1
<1> QED BY <1>1, <1>2, <1>3, <1>4, <1>5, <1>6 DEF Next, Writer

LEMMA FlowInit == Init => FlowInv
<1> SUFFICES ASSUME Init PROVE FlowInv
  OBVIOUS
<1>1. ch = <<>> /\ accepted = <<>> /\ blocks = <<>> /\ reported = {} /\ Taken = 0
  BY DEF Init, Taken
<1> QED BY <1>1 DEF FlowInv, QueueIsTail, NothingDisappears, BlocksFollowWrites

\* A frame the goroutine took is a block or was reported, whatever the order in
\* which the tracks are written and closed and whichever write fails.
THEOREM FramesAccountedFor == Spec => []NothingDisappears
<1>1. FlowInv => NothingDisappears
  BY DEF FlowInv
<1> QED BY <1>1, TypeCorrect, FlowInit, FlowStep, PTL DEF Spec

\* The blocks are the frames of Write, unchanged, each once and in order.
THEOREM BlocksAreWrites == Spec => []BlocksFollowWrites
<1>1. FlowInv => BlocksFollowWrites
  BY DEF FlowInv
<1> QED BY <1>1, TypeCorrect, FlowInit, FlowStep, PTL DEF Spec

----------------------------------------------------------------------------
(* A file finalised in good order is complete.  Unless something was       *)
(* reported the goroutine leaves its loops only once every track is closed *)
(* and ch is empty; unless a write failed every cluster but the current    *)
(* one is in the file.                                                     *)

CleanInv ==
  /\ reported = {} => Len(blocks) = Taken
  /\ closed => \A t \in Tracks : producer[t] # "open"
  /\ pc = "drain" => closed
  /\ pc \notin {"loop", "drain"} /\ reported = {} => closed /\ ch = <<>>

WrittenInv ==
  /\ faults >= 0
  /\ pc \in {"loop", "drain", "flush", "finalize"} => ~outClosed
  /\ faults = 0 =>
       \A k \in 1 .. Len(clusters) :
         k < Len(clusters) \/ pc \notin {"loop", "drain", "flush"} => clusters[k].pos # NoPos

LEMMA CleanStep == TypeOK /\ FlowInv /\ CleanInv /\ [Next]_vars => CleanInv'
<1> SUFFICES ASSUME TypeOK, FlowInv, CleanInv, [Next]_vars PROVE CleanInv'
  OBVIOUS
<1> USE DEF chanVars, timeVars, bookVars, fileVars
<1>1. ASSUME NEW f \in Frames, Write(f) PROVE CleanInv'
  <2>1. f.track \in Tracks /\ producer[f.track] = "open" /\ ~closed
    BY <1>1 DEF Write, Frames, CleanInv
  <2>2. Taken' = Taken
    BY <1>1 DEF Write, TypeOK, Taken
  <2> QED BY <1>1, <2>1, <2>2 DEF Write, CleanInv
<1>2. ASSUME NEW t \in Tracks, CloseCall(t) \/ CloseReturn(t) PROVE CleanInv'
  <2>1. \A u \in Tracks : producer[u] # "open" => producer'[u] # "open"
    BY <1>2 DEF CloseCall, CloseReturn, TypeOK
  <2>2. UNCHANGED <<ch, closed, pc, blocks, accepted, reported>>
    BY <1>2 DEF CloseCall, CloseReturn
  <2> QED BY <2>1, <2>2 DEF CleanInv, Taken
<1>3. CASE AllTracksClosed
  BY <1>3 DEF AllTracksClosed, CleanInv, Taken
<1>4. CASE Receive
  <2>1. PICK f \in Frames :
          ReceiveIntoCluster(f) \/ ReceiveOpensCluster(f) \/ ReceiveFault(f) \/ ReceiveTooOld(f)
    BY <1>4 DEF Receive
  <2>2. Take(f) /\ Taken' = Taken + 1 /\ Taken \in Int /\ UNCHANGED <<producer, closed>>
        /\ blocks \in Seq(Blocks)
    BY <2>1, TakeFlow, TakenType
       DEF FlowInv, ReceiveIntoCluster, ReceiveOpensCluster, ReceiveFault, ReceiveTooOld, Take,
           TypeOK
  <2>3. CASE ReceiveIntoCluster(f) \/ ReceiveOpensCluster(f)
    <3>1. Len(blocks') = Len(blocks) + 1
      BY <2>2, <2>3 DEF ReceiveIntoCluster, ReceiveOpensCluster, StoreBlock
    <3>2. pc' = pc /\ reported' = reported /\ pc \in {"loop", "drain"}
      BY <2>3 DEF ReceiveIntoCluster, ReceiveOpensCluster, Take
    <3> QED BY <2>2, <3>1, <3>2 DEF CleanInv
  <2>4. CASE ReceiveFault(f) \/ ReceiveTooOld(f)
    <3>1. reported' # {} /\ (pc' = pc \/ pc' = "flush")
      BY <2>4 DEF ReceiveFault, ReceiveTooOld, AfterReport
    <3> QED BY <2>2, <3>1 DEF CleanInv
  <2> QED BY <2>1, <2>3, <2>4
<1>5. CASE SeeClosed \/ DrainDone
  BY <1>5 DEF SeeClosed, DrainDone, CleanInv, Taken
<1>6. CASE FlushCluster \/ FlushFault \/ Finalize
  BY <1>6 DEF FlushCluster, FlushFault, Finalize, CleanInv, Taken
<1>7. CASE FinalizeFault
  <2>1. pc' \notin {"loop", "drain"}
    BY <1>7 DEF FinalizeFault
  <2> QED BY <1>7, <2>1 DEF FinalizeFault, CleanInv, Taken
<1>8. CASE Fin1 \/ Fin2
  <2>1. \A t \in Tracks : producer[t] # "open" => producer'[t] # "open"
    <3>1. ASSUME ReceiveFin PROVE \A t \in Tracks : producer[t] # "open" => producer'[t] # "open"
      BY <3>1 DEF ReceiveFin, TypeOK
    <3> QED BY <1>8, <3>1 DEF Fin1, Fin2
  <2>2. pc \in {"fin1", "fin2"} /\ pc' \notin {"loop", "drain"}
        /\ UNCHANGED <<closed, blocks, reported, accepted>>
        /\ (ch' = ch \/ ch # <<>>)
    BY <1>8 DEF Fin1, Fin2
  <2> QED BY <2>1, <2>2 DEF CleanInv, Taken
<1>9. CASE UNCHANGED vars
  BY <1>9 DEF vars, CleanInv, Taken
<1> QED BY <1>1, <1>2, <1>3, <1>4, <1>5, <1>6, <1>7, <1>8, <1>9 DEF Next, Writer

\* Every cluster of the list is in the file once the last one is written.
LEMMA AllMarked ==
  ASSUME TypeOK, WrittenInv, faults = 0
  PROVE  /\ MarkWritten(clusters) \in Seq(Clusters)
         /\ \A k \in 1 .. Len(MarkWritten(clusters)) : MarkWritten(clusters)[k].pos # NoPos
<1>1. clusters \in Seq(Clusters) /\ filePos \in Int /\ MarkWritten(clusters) \in Seq(Clusters)
  BY MarkWrittenTypes DEF TypeOK
<1>2. CASE clusters = <<>>
  BY <1>1, <1>2 DEF MarkWritten
<1>3. CASE clusters # <<>>
  <2>1. Len(MarkWritten(clusters)) = Len(clusters)
    BY <1>1, <1>3 DEF MarkWritten
  <2>2. ASSUME NEW k \in 1 .. Len(clusters) PROVE MarkWritten(clusters)[k].pos # NoPos
    <3>1. CASE k < Len(clusters)
      BY <1>1, <1>3, <3>1 DEF MarkWritten, WrittenInv
    <3>2. CASE k = Len(clusters)
      <4>1. MarkWritten(clusters)[k] = [clusters[k] EXCEPT !.pos = filePos]
        BY <1>1, <1>3, <3>2 DEF MarkWritten
      <4>2. clusters[k] \in Clusters
        BY <1>1
      <4> QED BY <1>1, <4>1, <4>2 DEF Clusters
    <3> QED BY <1>1, <3>1, <3>2
  <2> QED BY <1>1, <2>1, <2>2
<1> QED BY <1>2, <1>3

LEMMA WrittenStep == TypeOK /\ WrittenInv /\ [Next]_vars => WrittenInv'
<1> SUFFICES ASSUME TypeOK, WrittenInv, [Next]_vars PROVE WrittenInv'
  OBVIOUS
<1> USE DEF chanVars, timeVars, bookVars, fileVars
<1>0. faults \in Int /\ clusters \in Seq(Clusters)
  BY DEF TypeOK
<1>1. CASE Receive
  <2>1. PICK f \in Frames :
          ReceiveIntoCluster(f) \/ ReceiveOpensCluster(f) \/ ReceiveFault(f) \/ ReceiveTooOld(f)
    BY <1>1 DEF Receive
  <2>2. pc \in {"loop", "drain"} /\ ~outClosed' /\ faults >= 0
        /\ (pc' = pc \/ pc' = "flush")
    BY <2>1 DEF ReceiveIntoCluster, ReceiveOpensCluster, ReceiveFault, ReceiveTooOld, AfterReport,
               Take, WrittenInv
  <2>3. CASE ReceiveIntoCluster(f)
    <3>1. clusters' = [clusters EXCEPT ![Len(clusters)].n = @ + 1] /\ faults' = faults
      BY <2>3 DEF ReceiveIntoCluster, StoreBlock
    <3>2. Len(clusters') = Len(clusters)
          /\ \A k \in 1 .. Len(clusters) : k < Len(clusters) => clusters'[k] = clusters[k]
      BY <1>0, <3>1
    <3> QED BY <2>2, <3>1, <3>2 DEF WrittenInv
  <2>4. CASE ReceiveOpensCluster(f)
    <3> DEFINE m == MarkWritten(clusters)
    <3>1. PICK next \in Clusters :
            clusters' = [Append(m, next) EXCEPT ![Len(Append(m, next))].n = @ + 1]
      <4> DEFINE c == [timestamp |-> (f.ts - tc0') % Word, prevSize |-> LastSize(clusters),
                       n |-> 0, pos |-> NoPos]
      <4>1. Take(f) /\ clusters' = [Append(m, c) EXCEPT ![Len(Append(m, c))].n = @ + 1]
        BY <2>4 DEF ReceiveOpensCluster, StoreBlock
      <4>2. c \in Clusters
        BY <4>1, TakeTypes, MarkWrittenTypes DEF Clusters
      <4> HIDE DEF c
      <4> QED BY <4>1, <4>2
    <3>2. faults' = faults
      BY <2>4 DEF ReceiveOpensCluster
    <3>3. m \in Seq(Clusters)
      BY MarkWrittenTypes
    <3>4. faults = 0 => \A k \in 1 .. Len(m) : m[k].pos # NoPos
      BY AllMarked
    <3> HIDE DEF m
    <3>5. Len(clusters') = Len(m) + 1 /\ \A k \in 1 .. Len(m) : clusters'[k] = m[k]
      <4> DEFINE a == Append(m, next)
      <4>1. a \in Seq(Clusters) /\ Len(a) = Len(m) + 1 /\ Len(m) \in Nat
            /\ \A k \in 1 .. Len(m) : a[k] = m[k]
        BY <3>1, <3>3
      <4>2. clusters' = [a EXCEPT ![Len(a)].n = @ + 1]
        BY <3>1
      <4> HIDE DEF a
      <4> QED BY <4>1, <4>2
    <3>6. ASSUME faults' = 0, NEW k \in 1 .. Len(clusters'), k < Len(clusters')
          PROVE  clusters'[k].pos # NoPos
      BY <3>2, <3>3, <3>4, <3>5, <3>6
    <3> QED BY <2>2, <2>4, <3>2, <3>6 DEF ReceiveOpensCluster, WrittenInv
  <2>5. CASE ReceiveFault(f)
    BY <1>0, <2>2, <2>5 DEF ReceiveFault, IoFault, WrittenInv
  <2>6. CASE ReceiveTooOld(f)
    BY <2>2, <2>6 DEF ReceiveTooOld, WrittenInv
  <2> QED BY <2>1, <2>3, <2>4, <2>5, <2>6
<1>2. CASE FlushCluster
  <2>1. clusters' = MarkWritten(clusters) /\ faults' = faults /\ pc' = "finalize"
        /\ outClosed' = outClosed /\ pc = "flush"
    BY <1>2 DEF FlushCluster
  <2> QED BY <2>1, AllMarked DEF WrittenInv
<1>3. CASE FlushFault
  BY <1>0, <1>3 DEF FlushFault, IoFault, WrittenInv
<1>4. CASE Finalize
  <2>1. EmptyCluster.pos # NoPos
    BY DEF EmptyCluster, TypeOK
  <2>2. clusters' = (IF clusters = <<>> THEN <<EmptyCluster>> ELSE clusters)
        /\ faults' = faults /\ pc' = "fin1" /\ pc = "finalize"
    BY <1>4 DEF Finalize
  <2> QED BY <1>0, <2>1, <2>2 DEF WrittenInv
<1>5. CASE FinalizeFault
  <2>1. pc' \in {"crashed", "fin1"} /\ faults' = faults + 1
    BY <1>5 DEF FinalizeFault
  <2> QED BY <1>0, <2>1 DEF WrittenInv
<1>6. CASE Fin1 \/ Fin2
  BY <1>6 DEF Fin1, Fin2, WrittenInv
<1>7. CASE SeeClosed \/ DrainDone
  BY <1>7 DEF SeeClosed, DrainDone, WrittenInv
<1>8. ASSUME NEW f \in Frames, Write(f) PROVE WrittenInv'
  BY <1>8 DEF Write, WrittenInv
<1>9. ASSUME NEW t \in Tracks, CloseCall(t) \/ CloseReturn(t) PROVE WrittenInv'
  BY <1>9 DEF CloseCall, CloseReturn, WrittenInv
<1>10. CASE AllTracksClosed \/ UNCHANGED vars
  BY <1>10 DEF AllTracksClosed, vars, WrittenInv
<1> QED BY <1>1, <1>2, <1>3, <1>4, <1>5, <1>6, <1>7, <1>8, <1>9, <1>10 DEF Next, Writer

\* A file finalised without a report or a failing write holds every accepted
\* frame, in clusters that are all written.
THEOREM CleanFilesAreComplete == Spec => []CompleteWhenClean
<1>1. Init => CleanInv /\ WrittenInv
  BY DEF Init, CleanInv, WrittenInv, Taken
<1>2. ASSUME TypeOK, FlowInv, CleanInv, WrittenInv PROVE CompleteWhenClean
  <2> SUFFICES ASSUME outClosed, reported = {}, faults = 0
               PROVE  /\ Len(blocks) = Len(accepted)
                      /\ \A k \in DOMAIN clusters : clusters[k].pos # NoPos
    BY DEF CompleteWhenClean
  <2>1. pc \notin {"loop", "drain", "flush", "finalize"}
    BY <1>2 DEF WrittenInv
  <2>2. ch = <<>> /\ Len(blocks) = Taken
    BY <1>2, <2>1 DEF CleanInv
  <2>3. Len(blocks) = Len(accepted)
    BY <1>2, <2>2, TakenType DEF Taken
  <2>4. DOMAIN clusters = 1 .. Len(clusters)
    BY <1>2 DEF TypeOK
  <2> QED BY <1>2, <2>1, <2>3, <2>4 DEF WrittenInv
<1> QED BY <1>1, <1>2, TypeCorrect, FlowInit, FlowStep, CleanStep, WrittenStep, PTL DEF Spec

----------------------------------------------------------------------------
(* The times a reader decodes, the index, and that the writer implements   *)
(* Recording.                                                              *)

Receiving == pc \in {"loop", "drain"}

----------------------------------------------------------------------------
(* What a received frame does to the clusters and to their blocks.         *)

BlockFor(f, timecode, cluster) ==
  [seq |-> HeadSeq, track |-> f.track, key |-> f.key, ts |-> f.ts,
   timecode |-> timecode, cluster |-> cluster]

\* Block b is appended to the others.
NewBlock(b) ==
  /\ Len(blocks') = Len(blocks) + 1
  /\ \A i \in 1 .. Len(blocks) : blocks'[i] = blocks[i]
  /\ blocks'[Len(blocks) + 1] = b

LEMMA ClustersType ==
  TypeOK => /\ clusters \in Seq(Clusters) /\ Len(clusters) \in Nat
            /\ DOMAIN clusters = 1 .. Len(clusters)
            /\ blocks \in Seq(Blocks) /\ Len(blocks) \in Nat
            /\ DOMAIN blocks = 1 .. Len(blocks)
  BY DEF TypeOK

LEMMA AppendedBlock == ASSUME TypeOK, NEW b, blocks' = Append(blocks, b) PROVE NewBlock(b)
  BY ClustersType DEF NewBlock

\* Writing the last cluster gives it its place and leaves the rest alone.
LEMMA MarkWrittenEffect ==
  ASSUME TypeOK
  PROVE  /\ MarkWritten(clusters) \in Seq(Clusters)
         /\ Len(MarkWritten(clusters)) = Len(clusters)
         /\ \A k \in 1 .. Len(clusters) :
              /\ MarkWritten(clusters)[k].timestamp = clusters[k].timestamp
              /\ MarkWritten(clusters)[k].n = clusters[k].n
              /\ MarkWritten(clusters)[k].pos
                   = IF k = Len(clusters) THEN filePos ELSE clusters[k].pos
<1>1. clusters \in Seq(Clusters) /\ MarkWritten(clusters) \in Seq(Clusters)
  BY MarkWrittenTypes, ClustersType
<1>2. CASE clusters = <<>>
  BY <1>1, <1>2 DEF MarkWritten
<1>3. CASE clusters # <<>>
  <2>1. MarkWritten(clusters) = [clusters EXCEPT ![Len(clusters)].pos = filePos]
    BY <1>3 DEF MarkWritten
  <2>2. ASSUME NEW k \in 1 .. Len(clusters)
        PROVE  /\ MarkWritten(clusters)[k].timestamp = clusters[k].timestamp
               /\ MarkWritten(clusters)[k].n = clusters[k].n
               /\ MarkWritten(clusters)[k].pos
                    = IF k = Len(clusters) THEN filePos ELSE clusters[k].pos
    <3>1. clusters[k] \in Clusters
      BY <1>1
    <3>2. CASE k = Len(clusters)
      <4>1. MarkWritten(clusters)[k] = [clusters[k] EXCEPT !.pos = filePos]
        BY <1>1, <2>1, <3>2
      <4> QED BY <3>1, <3>2, <4>1 DEF Clusters
    <3>3. CASE k # Len(clusters)
      <4>1. MarkWritten(clusters)[k] = clusters[k]
        BY <1>1, <2>1, <3>3
      <4> QED BY <3>3, <4>1
    <3> QED BY <3>2, <3>3
  <2> QED BY <1>1, <2>1, <2>2
<1> QED BY <1>2, <1>3

\* One more block is counted in the last of the clusters cs.
LEMMA CountBlock ==
  ASSUME NEW cs \in Seq(Clusters), cs # <<>>,
         NEW ds, ds = [cs EXCEPT ![Len(cs)].n = @ + 1]
  PROVE  /\ Len(ds) = Len(cs) /\ Len(cs) \in 1 .. Len(cs)
         /\ \A k \in 1 .. Len(cs) : ds[k].timestamp = cs[k].timestamp /\ ds[k].pos = cs[k].pos
         /\ ds[Len(cs)].n = cs[Len(cs)].n + 1
<1>1. Len(ds) = Len(cs) /\ Len(cs) \in 1 .. Len(cs)
  OBVIOUS
<1>2. ASSUME NEW k \in 1 .. Len(cs)
      PROVE  /\ ds[k].timestamp = cs[k].timestamp /\ ds[k].pos = cs[k].pos
             /\ k = Len(cs) => ds[k].n = cs[k].n + 1
  <2>1. cs[k] \in Clusters
    OBVIOUS
  <2>2. CASE k = Len(cs)
    <3>1. ds[k] = [cs[k] EXCEPT !.n = cs[k].n + 1]
      BY <2>2
    <3> QED BY <2>1, <3>1 DEF Clusters
  <2>3. CASE k # Len(cs)
    <3>1. ds[k] = cs[k]
      BY <2>3
    <3> QED BY <2>3, <3>1
  <2> QED BY <2>2, <2>3
<1> QED BY <1>1, <1>2

\* A frame that joins the current cluster.
LEMMA IntoClusterEffect ==
  ASSUME TInv, NEW f \in Frames, ReceiveIntoCluster(f)
  PROVE  /\ tc1 \in Int /\ Len(clusters) \in 1 .. Len(clusters)
         /\ NewBlock(BlockFor(f, f.ts - tc1, Len(clusters)))
         /\ Len(clusters') = Len(clusters)
         /\ \A k \in 1 .. Len(clusters) :
              clusters'[k].timestamp = clusters[k].timestamp /\ clusters'[k].pos = clusters[k].pos
         /\ clusters'[Len(clusters)].n = clusters[Len(clusters)].n + 1
<1>1. tc1 \in Int /\ f.ts - tc1 \in Timecodes
  BY TimecodeInRange DEF TInv, ReceiveIntoCluster
<1>2. clusters # <<>> /\ clusters \in Seq(Clusters)
  BY <1>1 DEF TInv, TcKnown, TypeOK
<1>3. clusters' = [clusters EXCEPT ![Len(clusters)].n = @ + 1]
  BY DEF ReceiveIntoCluster, StoreBlock
<1>4. NewBlock(BlockFor(f, f.ts - tc1, Len(clusters)))
  <2>1. Int16(f.ts - tc1) = f.ts - tc1
    BY <1>1, Int16Exact
  <2>2. blocks' = Append(blocks, BlockFor(f, f.ts - tc1, Len(clusters)))
    BY <2>1 DEF ReceiveIntoCluster, StoreBlock, BlockFor
  <2> QED BY <2>2, AppendedBlock DEF TInv
<1> QED BY <1>1, <1>2, <1>3, <1>4, CountBlock

\* A frame that opens a cluster.
LEMMA OpensClusterEffect ==
  ASSUME TInv, NEW f \in Frames, ReceiveOpensCluster(f)
  PROVE  /\ f.ts \in Int
         /\ NewBlock(BlockFor(f, 0, Len(clusters) + 1))
         /\ Len(clusters') = Len(clusters) + 1
         /\ \A k \in 1 .. Len(clusters) :
              /\ clusters'[k].timestamp = clusters[k].timestamp
              /\ clusters'[k].pos = IF k = Len(clusters) THEN filePos ELSE clusters[k].pos
         /\ clusters'[Len(clusters) + 1].timestamp = (f.ts - tc0') % Word
         /\ clusters'[Len(clusters) + 1].n = 1
         /\ clusters'[Len(clusters) + 1].pos = NoPos
<1> DEFINE m == MarkWritten(clusters)
           next == [timestamp |-> (f.ts - tc0') % Word, prevSize |-> LastSize(clusters),
                    n |-> 0, pos |-> NoPos]
           cs == Append(m, next)
<1>1. TypeOK /\ Take(f) /\ f.ts \in Int /\ Len(clusters) \in Nat
  BY ClustersType DEF TInv, ReceiveOpensCluster, Frames
<1>2. next \in Clusters /\ next.timestamp = (f.ts - tc0') % Word /\ next.n = 0 /\ next.pos = NoPos
  BY <1>1, TakeTypes, MarkWrittenTypes DEF Clusters
<1>3. /\ m \in Seq(Clusters) /\ Len(m) = Len(clusters)
      /\ \A k \in 1 .. Len(clusters) :
           /\ m[k].timestamp = clusters[k].timestamp
           /\ m[k].pos = IF k = Len(clusters) THEN filePos ELSE clusters[k].pos
  BY <1>1, MarkWrittenEffect
<1>4. clusters' = [cs EXCEPT ![Len(cs)].n = @ + 1]
      /\ blocks' = Append(blocks, BlockFor(f, Int16(f.ts - f.ts), Len(cs)))
  <2>1. StoreBlock(f, cs, f.ts, 1, clusterPosition + LastSize(clusters))
    BY DEF ReceiveOpensCluster
  <2> HIDE DEF cs
  <2> QED BY <2>1, Zenon DEF StoreBlock, BlockFor
<1> HIDE DEF m, next
<1>5. /\ cs \in Seq(Clusters) /\ cs # <<>> /\ Len(cs) = Len(clusters) + 1
      /\ \A k \in 1 .. Len(clusters) : cs[k] = m[k]
      /\ cs[Len(clusters) + 1] = next
  BY <1>1, <1>2, <1>3
<1>6. Int16(f.ts - f.ts) = 0
  <2>1. f.ts - f.ts = 0 /\ 0 \in Timecodes
    BY <1>1 DEF Timecodes
  <2> QED BY <2>1, Int16Exact
<1> HIDE DEF cs
<1>7. /\ Len(clusters') = Len(cs)
      /\ \A k \in 1 .. Len(cs) :
           clusters'[k].timestamp = cs[k].timestamp /\ clusters'[k].pos = cs[k].pos
      /\ clusters'[Len(cs)].n = cs[Len(cs)].n + 1
  BY <1>4, <1>5, CountBlock
<1>8. NewBlock(BlockFor(f, 0, Len(clusters) + 1))
  <2>1. blocks' = Append(blocks, BlockFor(f, 0, Len(clusters) + 1))
    BY <1>4, <1>5, <1>6
  <2> QED BY <1>1, <2>1, AppendedBlock
<1>9. ASSUME NEW k \in 1 .. Len(clusters)
      PROVE  /\ clusters'[k].timestamp = clusters[k].timestamp
             /\ clusters'[k].pos = IF k = Len(clusters) THEN filePos ELSE clusters[k].pos
  <2>1. k \in 1 .. Len(cs)
    BY <1>1, <1>5
  <2> QED BY <1>3, <1>5, <1>7, <2>1
<1>10. Len(cs) \in 1 .. Len(cs) /\ Len(cs) = Len(clusters) + 1
  BY <1>1, <1>5
<1>11. /\ clusters'[Len(cs)].timestamp = next.timestamp /\ clusters'[Len(cs)].pos = next.pos
       /\ clusters'[Len(cs)].n = 1
  BY <1>2, <1>5, <1>7, <1>10
<1> QED BY <1>1, <1>2, <1>7, <1>8, <1>9, <1>10, <1>11

\* The steps that neither receive a frame nor write a cluster leave the clusters,
\* their blocks and the index alone; they change the writer's position only with
\* a failing write.
LEMMA QuietSteps ==
  ASSUME [Next]_vars, ~Receive, ~FlushCluster, ~Finalize
  PROVE  /\ UNCHANGED <<tc0, tc1, clusters, blocks, cues>>
         /\ Receiving' => Receiving
         /\ \/ /\ UNCHANGED <<faults, filePos, clusterPosition, cueBlockNumber>>
               /\ pc' \in {"loop", "drain", "flush"} <=> pc \in {"loop", "drain", "flush"}
            \/ faults' = faults + 1
<1> USE DEF chanVars, timeVars, bookVars, fileVars, Receiving
<1>1. CASE \/ \E f \in Frames : Write(f)
           \/ \E t \in Tracks : CloseCall(t) \/ CloseReturn(t)
           \/ AllTracksClosed \/ UNCHANGED vars
  BY <1>1 DEF Write, CloseCall, CloseReturn, AllTracksClosed, vars
<1>2. CASE SeeClosed \/ DrainDone
  BY <1>2 DEF SeeClosed, DrainDone
<1>3. CASE FlushFault
  BY <1>3 DEF FlushFault, IoFault
<1>4. CASE FinalizeFault
  <2>1. pc' \notin {"loop", "drain"}
    BY <1>4 DEF FinalizeFault
  <2> QED BY <1>4, <2>1 DEF FinalizeFault
<1>5. CASE Fin1 \/ Fin2
  BY <1>5 DEF Fin1, Fin2
<1> QED BY <1>1, <1>2, <1>3, <1>4, <1>5 DEF Next, Writer

----------------------------------------------------------------------------
(* The times a reader decodes.  A cluster's timestamp is the distance of   *)
(* tc1 from the first frame while the goroutine receives, and a block's    *)
(* timecode its distance from tc1.                                         *)

\* A number has one remainder.
LEMMA ModUnique ==
  ASSUME NEW w \in Nat \ {0}, NEW q \in Int, NEW r \in 0 .. w - 1
  PROVE  (w * q + r) % w = r
<1> DEFINE n == w * q + r
           d == (n \div w) - q
<1>1. n \in Int /\ n \div w \in Int /\ n % w \in 0 .. w - 1 /\ n = w * (n \div w) + (n % w)
  OBVIOUS
<1>2. d \in Int /\ w * d = r - (n % w)
  BY <1>1
<1>3. d = 0
  <2>1. CASE d >= 1
    <3>1. w * d >= w
      BY <1>2, <2>1
    <3> QED BY <1>1, <1>2, <3>1
  <2>2. CASE d <= -1
    <3>1. w * d <= -w
      BY <1>2, <2>2
    <3> QED BY <1>1, <1>2, <3>1
  <2> QED BY <1>2, <2>1, <2>2
<1> QED BY <1>1, <1>2, <1>3

\* Remainders add up.
AddsUnder(a, b, w) == ((a % w) + b) % w = (a + b) % w

LEMMA ModAdd ==
  ASSUME NEW a \in Int, NEW b \in Int, NEW w \in Nat \ {0}
  PROVE  AddsUnder(a, b, w)
<1> DEFINE r == (a + b) % w
           q == ((a + b) \div w) - (a \div w)
<1>1. a \div w \in Int /\ a % w \in Int /\ a = w * (a \div w) + (a % w)
  OBVIOUS
<1>2. (a + b) \div w \in Int /\ r \in 0 .. w - 1 /\ a + b = w * ((a + b) \div w) + r
  OBVIOUS
<1>3. q \in Int /\ (a % w) + b = w * q + r
  BY <1>1, <1>2
<1> HIDE DEF q, r
<1> QED BY <1>2, <1>3, ModUnique DEF r, AddsUnder

AddUp(timestamp, timecode, ts, first) == (timestamp + timecode) % Word = (ts - first) % Word

\* A frame's distance from its cluster adds to the cluster's from the first frame.
LEMMA AddUpTriangle ==
  ASSUME NEW x \in Int, NEW ts \in Int, NEW first \in Int
  PROVE  AddUp((x - first) % Word, ts - x, ts, first)
<1> DEFINE a == x - first
           b == ts - x
<1>1. a \in Int /\ b \in Int /\ Word \in Nat \ {0}
  OBVIOUS
<1>2. a + b = ts - first
  OBVIOUS
<1> HIDE DEF a, b
<1>3. ((a % Word) + b) % Word = (a + b) % Word
  <2>1. AddsUnder(a, b, Word)
    BY <1>1, ModAdd
  <2> QED BY <2>1 DEF AddsUnder
<1>4. ((a % Word) + b) % Word = (ts - first) % Word
  BY <1>2, <1>3
<1> QED BY <1>4 DEF a, b, AddUp

Decodes(b) ==
  /\ blocks[b].cluster \in 1 .. Len(clusters) /\ tc0 # NoTs
  /\ AddUp(clusters[blocks[b].cluster].timestamp, blocks[b].timecode, blocks[b].ts, tc0)

\* Without OnFatalPanics a cluster that could not be written leaves tc1 ahead of
\* the cluster that the rest of ch is drained into.
DecodeInv ==
  /\ faults >= 0
  /\ OnFatalPanics \/ faults = 0 =>
       /\ Receiving /\ tc1 # NoTs =>
            tc0 # NoTs /\ clusters[Len(clusters)].timestamp = (tc1 - tc0) % Word
       /\ \A b \in 1 .. Len(blocks) : Decodes(b)

LEMMA DecodeStep == TInv /\ DecodeInv /\ [Next]_vars => DecodeInv'
<1> SUFFICES ASSUME TInv, DecodeInv, [Next]_vars PROVE DecodeInv'
  OBVIOUS
<1>0. TypeOK /\ faults \in Int /\ blocks \in Seq(Blocks) /\ Len(blocks) \in Nat
      /\ clusters \in Seq(Clusters) /\ Len(clusters) \in Nat
      /\ tc0 \in Int \cup {NoTs} /\ tc1 \in Int \cup {NoTs}
  BY DEF TInv, TypeOK
<1>1. CASE Receive
  <2>1. PICK f \in Frames :
          ReceiveIntoCluster(f) \/ ReceiveOpensCluster(f) \/ ReceiveFault(f) \/ ReceiveTooOld(f)
    BY <1>1 DEF Receive
  <2>2. /\ Receiving /\ f.ts \in Int /\ tc0' \in Int
        /\ (tc0 # NoTs => tc0' = tc0) /\ (tc0 = NoTs => tc0' = f.ts)
    BY <1>0, <2>1 DEF ReceiveIntoCluster, ReceiveOpensCluster, ReceiveFault, ReceiveTooOld, Take,
                      Receiving, Frames
  <2>3. CASE ReceiveIntoCluster(f)
    <3>1. /\ tc1 \in Int /\ Len(clusters) \in 1 .. Len(clusters)
          /\ NewBlock(BlockFor(f, f.ts - tc1, Len(clusters)))
          /\ Len(clusters') = Len(clusters)
          /\ \A k \in 1 .. Len(clusters) : clusters'[k].timestamp = clusters[k].timestamp
      BY <2>3, IntoClusterEffect
    <3>2. tc1' = tc1 /\ faults' = faults
      BY <2>3 DEF ReceiveIntoCluster
    <3> SUFFICES ASSUME OnFatalPanics \/ faults = 0
                 PROVE  /\ tc0' # NoTs /\ clusters'[Len(clusters)].timestamp = (tc1 - tc0') % Word
                        /\ \A b \in 1 .. Len(blocks') : Decodes(b)'
      BY <3>1, <3>2 DEF DecodeInv
    <3>3. tc1 # NoTs /\ tc0 \in Int /\ tc0' = tc0
          /\ clusters[Len(clusters)].timestamp = (tc1 - tc0) % Word
      BY <1>0, <2>2, <3>1 DEF DecodeInv
    <3>4. AddUp((tc1 - tc0) % Word, f.ts - tc1, f.ts, tc0)
      BY <2>2, <3>1, <3>3, AddUpTriangle
    <3>5. ASSUME NEW b \in 1 .. Len(blocks') PROVE Decodes(b)'
      <4>1. CASE b \in 1 .. Len(blocks)
        <5>1. blocks'[b] = blocks[b] /\ Decodes(b)
          BY <3>1, <4>1 DEF DecodeInv, NewBlock
        <5>2. blocks[b].cluster \in 1 .. Len(clusters)
              /\ clusters'[blocks[b].cluster].timestamp = clusters[blocks[b].cluster].timestamp
          BY <3>1, <5>1 DEF Decodes
        <5> QED BY <3>1, <3>3, <5>1, <5>2 DEF Decodes
      <4>2. CASE b = Len(blocks) + 1
        <5>1. blocks'[b] = BlockFor(f, f.ts - tc1, Len(clusters))
          BY <3>1, <4>2 DEF NewBlock
        <5>2. blocks'[b].cluster = Len(clusters) /\ blocks'[b].timecode = f.ts - tc1
              /\ blocks'[b].ts = f.ts
          BY <5>1 DEF BlockFor
        <5>3. clusters'[Len(clusters)].timestamp = (tc1 - tc0) % Word
          BY <3>1, <3>3
        <5> QED BY <2>2, <3>1, <3>3, <3>4, <5>2, <5>3 DEF Decodes
      <4> QED BY <1>0, <3>1, <4>1, <4>2 DEF NewBlock
    <3> QED BY <2>2, <3>1, <3>3, <3>5
  <2>4. CASE ReceiveOpensCluster(f)
    <3>1. /\ NewBlock(BlockFor(f, 0, Len(clusters) + 1))
          /\ Len(clusters') = Len(clusters) + 1
          /\ \A k \in 1 .. Len(clusters) : clusters'[k].timestamp = clusters[k].timestamp
          /\ clusters'[Len(clusters) + 1].timestamp = (f.ts - tc0') % Word
      BY <2>4, OpensClusterEffect
    <3>2. tc1' = f.ts /\ faults' = faults
      BY <2>4 DEF ReceiveOpensCluster
    <3>3. AddUp((f.ts - tc0') % Word, 0, f.ts, tc0')
      <4>1. f.ts - f.ts = 0
        BY <2>2
      <4> QED BY <2>2, <4>1, AddUpTriangle
    <3>4. ASSUME OnFatalPanics \/ faults = 0, NEW b \in 1 .. Len(blocks') PROVE Decodes(b)'
      <4>1. CASE b \in 1 .. Len(blocks)
        <5>1. blocks'[b] = blocks[b] /\ Decodes(b)
          BY <3>1, <3>4, <4>1 DEF DecodeInv, NewBlock
        <5> QED BY <1>0, <2>2, <3>1, <5>1 DEF Decodes
      <4>2. CASE b = Len(blocks) + 1
        <5>1. blocks'[b] = BlockFor(f, 0, Len(clusters) + 1)
          BY <3>1, <4>2 DEF NewBlock
        <5>2. blocks'[b].cluster = Len(clusters) + 1 /\ blocks'[b].timecode = 0
              /\ blocks'[b].ts = f.ts
          BY <5>1 DEF BlockFor
        <5> QED BY <1>0, <2>2, <3>1, <3>3, <5>2 DEF Decodes
      <4> QED BY <1>0, <3>1, <4>1, <4>2 DEF NewBlock
    <3> QED BY <2>2, <3>1, <3>2, <3>4 DEF DecodeInv
  <2>5. CASE ReceiveFault(f)
    <3>1. UNCHANGED <<clusters, blocks>> /\ faults' = faults + 1
          /\ (OnFatalPanics => pc' = "flush")
      BY <2>5 DEF ReceiveFault, IoFault, AfterReport
    <3>2. faults' > 0
      BY <1>0, <3>1 DEF DecodeInv
    <3>3. ASSUME OnFatalPanics PROVE \A b \in 1 .. Len(blocks) : Decodes(b)'
      BY <2>2, <3>1, <3>3 DEF DecodeInv, Decodes
    <3> QED BY <3>1, <3>2, <3>3 DEF DecodeInv, Receiving
  <2>6. CASE ReceiveTooOld(f)
    <3>1. UNCHANGED <<tc1, clusters, blocks, faults>>
      BY <2>6 DEF ReceiveTooOld, bookVars
    <3>2. ASSUME OnFatalPanics \/ faults = 0 PROVE \A b \in 1 .. Len(blocks) : Decodes(b)'
      BY <2>2, <3>1, <3>2 DEF DecodeInv, Decodes
    <3> QED BY <2>2, <3>1, <3>2 DEF DecodeInv
  <2> QED BY <2>1, <2>3, <2>4, <2>5, <2>6
<1>2. CASE FlushCluster
  <2>1. UNCHANGED <<tc0, tc1, blocks, faults>> /\ clusters' = MarkWritten(clusters)
        /\ pc' = "finalize"
    BY <1>2 DEF FlushCluster, timeVars
  <2>2. Len(clusters') = Len(clusters)
        /\ \A k \in 1 .. Len(clusters) : clusters'[k].timestamp = clusters[k].timestamp
    BY <1>0, <2>1, MarkWrittenEffect
  <2> QED BY <2>1, <2>2 DEF DecodeInv, Decodes, Receiving
<1>3. CASE Finalize
  <2>1. UNCHANGED <<blocks, faults>> /\ pc' = "fin1"
        /\ tc0' = (IF tc0 = NoTs THEN 0 ELSE tc0)
        /\ (clusters # <<>> => clusters' = clusters)
    BY <1>3 DEF Finalize
  <2>2. clusters = <<>> => Len(clusters) = 0
    OBVIOUS
  <2> QED BY <2>1, <2>2 DEF DecodeInv, Decodes, Receiving
<1>4. CASE ~Receive /\ ~FlushCluster /\ ~Finalize
  <2>1. /\ UNCHANGED <<tc0, tc1, clusters, blocks>> /\ (Receiving' => Receiving)
        /\ faults' \in {faults, faults + 1}
    BY <1>4, QuietSteps
  <2> QED BY <1>0, <2>1 DEF DecodeInv, Decodes
<1> QED BY <1>1, <1>2, <1>3, <1>4

\* Unless a failing write was reported to a handler that returns, a reader computes
\* for each block the time of its frame: however the timestamps of the tracks
\* interleave, jump ahead or fall behind, the cluster's time and the int16
\* timecode add up.
THEOREM TimestampsAreExact == Spec => [](OnFatalPanics \/ faults = 0 => TimestampsDecode)
<1>1. Init => TInv /\ DecodeInv
  <2>1. Init => DecodeInv
    BY DEF Init, DecodeInv
  <2> QED BY <2>1, TypeInit
<1>2. TInv /\ DecodeInv => (OnFatalPanics \/ faults = 0 => TimestampsDecode)
  <2>1. TInv => DOMAIN blocks = 1 .. Len(blocks)
    BY DEF TInv, TypeOK
  <2> QED BY <2>1 DEF DecodeInv, Decodes, AddUp, TimestampsDecode
<1> QED BY <1>1, <1>2, TypeStep, DecodeStep, PTL DEF Spec

----------------------------------------------------------------------------
(* The writer implements Recording.  With handlers that panic, as          *)
(* matroska.go sets them, the goroutine stops at the first frame it cannot *)
(* store, so its blocks are a prefix of the frames, one block each; those  *)
(* of the current cluster are the ones not in the file yet.                *)

Stored == [i \in 1 .. Len(StoredBlocks) |-> FrameOf(StoredBlocks[i])]

Phase == IF panicking \/ pc = "crashed" THEN "cut"
         ELSE IF outClosed THEN "complete" ELSE "recording"

\* How many blocks are in the file.
StoredLen ==
  IF clusters # <<>> /\ Last(clusters).pos = NoPos
  THEN Len(blocks) - Last(clusters).n
  ELSE Len(blocks)

PrefixInv ==
  /\ panicking => ~Receiving
  /\ ~panicking /\ pc # "crashed" => reported = {} /\ faults = 0
  /\ \A b \in 1 .. Len(blocks) : blocks[b].seq = b
  /\ clusters = <<>> => Len(blocks) = 0
  /\ clusters # <<>> =>
       /\ clusters[Len(clusters)].n \in 0 .. Len(blocks)
       /\ Receiving => clusters[Len(clusters)].pos = NoPos

\* A frame that is stored is the next one, and the block of it the next block.
LEMMA NextBlock ==
  ASSUME TypeOK, FlowInv, CleanInv, PrefixInv, NEW f \in Frames, Take(f)
  PROVE  HeadSeq = Len(blocks) + 1 /\ Len(blocks) \in Nat
<1>1. reported = {}
  BY DEF PrefixInv, Receiving, Take
<1> QED BY <1>1, TakenType, ClustersType DEF CleanInv

LEMMA PrefixStep ==
  ASSUME OnErrorPanics, OnFatalPanics, TInv, FlowInv, CleanInv, WrittenInv, PrefixInv, [Next]_vars
  PROVE  PrefixInv'
<1> USE DEF chanVars, timeVars, bookVars, fileVars
<1>0. TypeOK /\ clusters \in Seq(Clusters) /\ Len(clusters) \in Nat /\ Len(blocks) \in Nat
      /\ (clusters # <<>> <=> Len(clusters) # 0)
  BY ClustersType DEF TInv
<1>1. CASE Receive
  <2>1. PICK f \in Frames :
          ReceiveIntoCluster(f) \/ ReceiveOpensCluster(f) \/ ReceiveFault(f) \/ ReceiveTooOld(f)
    BY <1>1 DEF Receive
  <2>2. /\ Receiving /\ ~panicking /\ pc # "crashed" /\ reported = {} /\ faults = 0
        /\ HeadSeq = Len(blocks) + 1
    <3>1. Take(f)
      BY <2>1 DEF ReceiveIntoCluster, ReceiveOpensCluster, ReceiveFault, ReceiveTooOld
    <3> QED BY <1>0, <3>1, NextBlock DEF Take, Receiving, PrefixInv
  <2>3. ASSUME NEW timecode, NEW c, NewBlock(BlockFor(f, timecode, c)),
               UNCHANGED <<pc, panicking, reported, faults>>
        PROVE  /\ Len(blocks') = Len(blocks) + 1
               /\ panicking' => ~Receiving'
               /\ ~panicking' /\ pc' # "crashed" => reported' = {} /\ faults' = 0
               /\ \A b \in 1 .. Len(blocks') : blocks'[b].seq = b
    <3>1. BlockFor(f, timecode, c).seq = Len(blocks) + 1
      BY <2>2 DEF BlockFor
    <3> QED BY <1>0, <2>2, <2>3, <3>1 DEF NewBlock, PrefixInv, Receiving
  <2>4. CASE ReceiveIntoCluster(f)
    <3>1. UNCHANGED <<pc, panicking, reported, faults>>
      BY <2>4 DEF ReceiveIntoCluster
    <3>2. /\ Len(clusters) \in 1 .. Len(clusters) /\ Len(clusters') = Len(clusters)
          /\ NewBlock(BlockFor(f, f.ts - tc1, Len(clusters)))
          /\ clusters'[Len(clusters)].pos = clusters[Len(clusters)].pos
          /\ clusters'[Len(clusters)].n = clusters[Len(clusters)].n + 1
      BY <2>4, IntoClusterEffect
    <3>3. Len(blocks') = Len(blocks) + 1 /\ clusters # <<>> /\ clusters' # <<>>
      BY <1>0, <3>2, TypeStep DEF NewBlock, TInv, TypeOK
    <3>4. /\ panicking' => ~Receiving'
          /\ ~panicking' /\ pc' # "crashed" => reported' = {} /\ faults' = 0
          /\ \A b \in 1 .. Len(blocks') : blocks'[b].seq = b
      BY <2>3, <3>1, <3>2
    <3>5. clusters'[Len(clusters')].n \in 0 .. Len(blocks')
      BY <1>0, <3>2, <3>3 DEF PrefixInv
    <3>6. Receiving' => clusters'[Len(clusters')].pos = NoPos
      BY <2>2, <3>2, <3>3 DEF PrefixInv
    <3> QED BY <3>3, <3>4, <3>5, <3>6 DEF PrefixInv
  <2>5. CASE ReceiveOpensCluster(f)
    <3>1. UNCHANGED <<pc, panicking, reported, faults>>
      BY <2>5 DEF ReceiveOpensCluster
    <3>2. /\ NewBlock(BlockFor(f, 0, Len(clusters) + 1))
          /\ Len(clusters') = Len(clusters) + 1
          /\ clusters'[Len(clusters) + 1].n = 1
          /\ clusters'[Len(clusters) + 1].pos = NoPos
      BY <2>5, OpensClusterEffect
    <3>3. Len(blocks') = Len(blocks) + 1 /\ clusters' # <<>>
      BY <1>0, <3>2, TypeStep DEF NewBlock, TInv, TypeOK
    <3>4. /\ panicking' => ~Receiving'
          /\ ~panicking' /\ pc' # "crashed" => reported' = {} /\ faults' = 0
          /\ \A b \in 1 .. Len(blocks') : blocks'[b].seq = b
      BY <2>3, <3>1, <3>2
    <3> QED BY <1>0, <3>2, <3>3, <3>4 DEF PrefixInv
  <2>6. CASE ReceiveFault(f) \/ ReceiveTooOld(f)
    <3>1. UNCHANGED <<clusters, blocks>> /\ panicking' /\ pc' = "flush"
      BY <2>6 DEF ReceiveFault, ReceiveTooOld, AfterReport
    <3> QED BY <3>1 DEF PrefixInv, Receiving
  <2> QED BY <2>1, <2>4, <2>5, <2>6
<1>2. CASE FlushCluster
  <2>1. UNCHANGED <<blocks, panicking, reported, faults>> /\ clusters' = MarkWritten(clusters)
        /\ pc' = "finalize" /\ pc = "flush"
    BY <1>2 DEF FlushCluster
  <2>2. Len(clusters') = Len(clusters)
        /\ \A k \in 1 .. Len(clusters) : clusters'[k].n = clusters[k].n
    BY <1>0, <2>1, MarkWrittenEffect
  <2>3. clusters = <<>> <=> clusters' = <<>>
    BY <1>0, <2>1 DEF MarkWritten
  <2>4. clusters # <<>> => clusters'[Len(clusters')].n = clusters[Len(clusters)].n
    BY <1>0, <2>2
  <2> QED BY <2>1, <2>3, <2>4 DEF PrefixInv, Receiving
<1>3. CASE Finalize
  <2>1. UNCHANGED <<blocks, panicking, reported, faults>> /\ pc' = "fin1" /\ pc = "finalize"
        /\ clusters' = (IF clusters = <<>> THEN <<EmptyCluster>> ELSE clusters)
    BY <1>3 DEF Finalize
  <2>2. CASE clusters = <<>>
    <3>1. EmptyCluster.n = 0
      BY DEF EmptyCluster
    <3>2. clusters'[Len(clusters')].n = 0
      BY <2>1, <2>2, <3>1
    <3>3. 0 \in 0 .. Len(blocks)
      BY <1>0
    <3> QED BY <2>1, <2>2, <3>2, <3>3 DEF PrefixInv, Receiving
  <2>3. CASE clusters # <<>>
    BY <2>1, <2>3 DEF PrefixInv, Receiving
  <2> QED BY <2>2, <2>3
<1>4. CASE FlushFault
  BY <1>4 DEF FlushFault, PrefixInv, Receiving
<1>5. CASE FinalizeFault
  BY <1>5 DEF FinalizeFault, PrefixInv, Receiving
<1>6. CASE Fin1 \/ Fin2
  BY <1>6 DEF Fin1, Fin2, PrefixInv, Receiving
<1>7. CASE SeeClosed \/ DrainDone
  BY <1>7 DEF SeeClosed, DrainDone, PrefixInv, Receiving
<1>8. CASE \/ \E f \in Frames : Write(f)
           \/ \E t \in Tracks : CloseCall(t) \/ CloseReturn(t)
           \/ AllTracksClosed \/ UNCHANGED vars
  BY <1>8 DEF Write, CloseCall, CloseReturn, AllTracksClosed, vars, PrefixInv, Receiving
<1> QED BY <1>1, <1>2, <1>3, <1>4, <1>5, <1>6, <1>7, <1>8 DEF Next, Writer

\* What is in the file is a prefix of the frames.
StoredPrefix ==
  /\ Stored = SubSeq(accepted, 1, StoredLen)
  /\ StoredLen \in 0 .. Len(blocks) /\ Len(blocks) \in 0 .. Len(accepted)

LEMMA StoredIsPrefix == ASSUME TypeOK, FlowInv, PrefixInv PROVE StoredPrefix
<1>1. /\ blocks \in Seq(Blocks) /\ clusters \in Seq(Clusters) /\ Len(blocks) \in Nat
      /\ DOMAIN blocks = 1 .. Len(blocks) /\ Len(accepted) \in Nat
  BY ClustersType, TakenType
<1>2. StoredLen \in 0 .. Len(blocks)
  BY <1>1 DEF StoredLen, PrefixInv, Last
<1>3. Len(blocks) \in 0 .. Len(accepted)
  <2>1. CASE Len(blocks) # 0
    <3>1. Len(blocks) \in 1 .. Len(blocks)
      BY <1>1, <2>1
    <3>2. Len(blocks) \in 1 .. Taken
      BY <1>1, <3>1 DEF PrefixInv, FlowInv, NothingDisappears
    <3> QED BY <1>1, <3>2, TakenType DEF Taken
  <2> QED BY <1>1, <2>1
<1>4. Len(StoredBlocks) = StoredLen /\ \A i \in 1 .. StoredLen : StoredBlocks[i] = blocks[i]
  BY <1>1, <1>2 DEF StoredBlocks, StoredLen
<1>5. ASSUME NEW i \in 1 .. StoredLen PROVE FrameOf(StoredBlocks[i]) = accepted[i]
  <2>1. i \in DOMAIN blocks /\ StoredBlocks[i] = blocks[i]
    BY <1>1, <1>2, <1>4
  <2>2. blocks[i].seq = i
    BY <1>1, <2>1 DEF PrefixInv
  <2> QED BY <2>1, <2>2 DEF FlowInv, BlocksFollowWrites, FrameOf
<1>6. Stored = SubSeq(accepted, 1, StoredLen)
  <2>1. accepted \in Seq(Frames) /\ StoredLen \in 0 .. Len(accepted)
    BY <1>1, <1>2, <1>3 DEF TypeOK
  <2>2. SubSeq(accepted, 1, StoredLen) = [i \in 1 .. StoredLen |-> accepted[i]]
    BY <2>1
  <2>3. Stored = [i \in 1 .. StoredLen |-> FrameOf(StoredBlocks[i])]
    BY <1>4 DEF Stored
  <2> QED BY <1>5, <2>2, <2>3
<1> QED BY <1>2, <1>3, <1>6 DEF StoredPrefix

\* The steps of Recording, in terms of what the writer's state maps to.
LEMMA AbstractSteps ==
  /\ Abstract!Init <=> accepted = <<>> /\ Stored = <<>> /\ Phase = "recording"
  /\ UNCHANGED <<accepted, Stored, Phase>> => [Abstract!Next]_(Abstract!vars)
  /\ \A f \in Frames :
       /\ Phase # "complete" /\ accepted' = Append(accepted, f) /\ UNCHANGED <<Stored, Phase>>
       => [Abstract!Next]_(Abstract!vars)
  /\ \A n \in Len(Stored) + 1 .. Len(accepted) :
       /\ Phase # "complete" /\ Stored' = SubSeq(accepted, 1, n) /\ UNCHANGED <<accepted, Phase>>
       => [Abstract!Next]_(Abstract!vars)
  /\ /\ Phase = "recording" /\ Stored = accepted /\ Phase' = "complete"
     /\ UNCHANGED <<accepted, Stored>>
     => [Abstract!Next]_(Abstract!vars)
  /\ Phase = "recording" /\ Phase' = "cut" /\ UNCHANGED <<accepted, Stored>>
     => [Abstract!Next]_(Abstract!vars)
BY DEF Abstract!Init, Abstract!Next, Abstract!vars, Abstract!Accept, Abstract!Store,
       Abstract!Complete, Abstract!Cut, Stored, Phase

\* A step that only adds blocks to the file, or none, maps to Store or to nothing.
LEMMA StoreOrStutter ==
  ASSUME Stored = SubSeq(accepted, 1, StoredLen), Stored' = SubSeq(accepted, 1, StoredLen'),
         accepted \in Seq(Frames), StoredLen \in 0 .. Len(accepted),
         StoredLen' \in StoredLen .. Len(accepted),
         Phase # "complete" \/ StoredLen' = StoredLen, UNCHANGED <<accepted, Phase>>
  PROVE  [Abstract!Next]_(Abstract!vars)
<1>1. CASE StoredLen' = StoredLen
  BY <1>1, AbstractSteps
<1>2. CASE StoredLen' # StoredLen
  <2>1. Len(Stored) = StoredLen
    OBVIOUS
  <2>2. StoredLen' \in Len(Stored) + 1 .. Len(accepted)
    BY <1>2, <2>1
  <2> QED BY <1>2, <2>2, AbstractSteps
<1> QED BY <1>1, <1>2

RefinementInv == TInv /\ FlowInv /\ CleanInv /\ WrittenInv /\ PrefixInv

LEMMA RefinementStep ==
  ASSUME OnErrorPanics, OnFatalPanics, RefinementInv, RefinementInv',
         StoredPrefix, StoredPrefix', [Next]_vars
  PROVE  [Abstract!Next]_(Abstract!vars)
<1> USE DEF chanVars, timeVars, bookVars, fileVars
<1>0. /\ TInv /\ TypeOK /\ FlowInv /\ CleanInv /\ WrittenInv /\ PrefixInv
      /\ TypeOK' /\ FlowInv' /\ PrefixInv'
  BY DEF RefinementInv, TInv
<1>a. /\ clusters \in Seq(Clusters) /\ Len(clusters) \in Nat /\ Len(blocks) \in Nat
      /\ accepted \in Seq(Frames) /\ Len(accepted) \in Nat
      /\ (clusters # <<>> <=> Len(clusters) # 0)
  <2>1. clusters \in Seq(Clusters) /\ blocks \in Seq(Blocks) /\ accepted \in Seq(Frames)
    BY <1>0 DEF TypeOK
  <2> QED BY <2>1
<1>b. clusters' \in Seq(Clusters) /\ Len(clusters') \in Nat
      /\ (clusters' # <<>> <=> Len(clusters') # 0)
  <2>1. clusters' \in Seq(Clusters)
    BY <1>0 DEF TypeOK
  <2> QED BY <2>1
<1>c. /\ Stored = SubSeq(accepted, 1, StoredLen)
      /\ StoredLen \in 0 .. Len(blocks) /\ Len(blocks) \in 0 .. Len(accepted)
      /\ Stored' = SubSeq(accepted', 1, StoredLen')
      /\ StoredLen' \in 0 .. Len(blocks') /\ Len(blocks') \in 0 .. Len(accepted')
  BY DEF StoredPrefix
<1>1. ASSUME NEW f \in Frames, Write(f) PROVE [Abstract!Next]_(Abstract!vars)
  <2>1. UNCHANGED <<clusters, blocks, pc, panicking, outClosed>>
        /\ accepted' = Append(accepted, f) /\ pc # "crashed"
    BY <1>1 DEF Write, Alive
  <2>2. UNCHANGED <<Stored, Phase>>
    BY <2>1 DEF Stored, StoredBlocks, Last, Phase
  <2>3. producer[f.track] = "open" /\ f.track \in Tracks /\ ~closed
    BY <1>0, <1>a, <1>b, <1>1 DEF Write, Frames, CleanInv
  <2>4. Phase # "complete"
    <3> SUFFICES ASSUME outClosed, ~panicking PROVE FALSE
      BY DEF Phase
    <3>1. reported = {} /\ pc \notin {"loop", "drain"}
      BY <1>0, <1>a, <1>b, <2>1 DEF PrefixInv, WrittenInv
    <3> QED BY <1>0, <1>a, <1>b, <2>3, <3>1 DEF CleanInv
  <2> QED BY <2>1, <2>2, <2>4, AbstractSteps
<1>2. ASSUME UNCHANGED <<accepted, clusters, blocks, pc, panicking, outClosed>>
      PROVE  [Abstract!Next]_(Abstract!vars)
  <2>1. UNCHANGED <<accepted, Stored, Phase>>
    BY <1>2 DEF Stored, StoredBlocks, Last, Phase
  <2> QED BY <2>1, AbstractSteps
<1>3. ASSUME NEW t \in Tracks, CloseCall(t) \/ CloseReturn(t)
      PROVE  [Abstract!Next]_(Abstract!vars)
  BY <1>2, <1>3 DEF CloseCall, CloseReturn
<1>4. CASE AllTracksClosed \/ UNCHANGED vars
  BY <1>2, <1>4 DEF AllTracksClosed, vars
<1>5. CASE Receive
  <2>1. PICK f \in Frames :
          ReceiveIntoCluster(f) \/ ReceiveOpensCluster(f) \/ ReceiveFault(f) \/ ReceiveTooOld(f)
    BY <1>5 DEF Receive
  <2>2. Take(f) /\ pc \in {"loop", "drain"} /\ ~outClosed /\ ~panicking
        /\ UNCHANGED <<accepted, outClosed>>
    BY <1>0, <1>a, <1>b, <2>1 DEF ReceiveIntoCluster, ReceiveOpensCluster, ReceiveFault, ReceiveTooOld, Take,
                      WrittenInv, PrefixInv, Receiving
  <2>3. Phase = "recording"
    BY <2>2 DEF Phase
  <2>4. CASE ReceiveIntoCluster(f)
    <3>1. Phase' = Phase
      BY <2>2, <2>4 DEF ReceiveIntoCluster, Phase
    <3>2. /\ Len(clusters) \in 1 .. Len(clusters) /\ Len(clusters') = Len(clusters)
          /\ NewBlock(BlockFor(f, f.ts - tc1, Len(clusters)))
          /\ clusters'[Len(clusters)].pos = clusters[Len(clusters)].pos
          /\ clusters'[Len(clusters)].n = clusters[Len(clusters)].n + 1
      BY <1>0, <1>a, <1>b, <2>4, IntoClusterEffect
    <3>3. /\ Len(blocks') = Len(blocks) + 1 /\ clusters # <<>> /\ clusters' # <<>>
          /\ clusters[Len(clusters)].pos = NoPos /\ clusters[Len(clusters)].n \in Int
      BY <1>0, <1>a, <1>b, <2>2, <3>2 DEF NewBlock, PrefixInv, Receiving
    <3>4. StoredLen' = StoredLen
      <4>1. StoredLen = Len(blocks) - clusters[Len(clusters)].n
        BY <3>3 DEF StoredLen, Last
      <4>2. StoredLen' = Len(blocks') - clusters'[Len(clusters)].n
        BY <3>2, <3>3 DEF StoredLen, Last
      <4> QED BY <1>a, <3>2, <3>3, <4>1, <4>2
    <3> QED BY <1>0, <1>a, <1>b, <1>c, <2>2, <3>1, <3>4, AbstractSteps
  <2>5. CASE ReceiveOpensCluster(f)
    <3>1. Phase' = Phase
      BY <2>2, <2>5 DEF ReceiveOpensCluster, Phase
    <3>2. /\ NewBlock(BlockFor(f, 0, Len(clusters) + 1))
          /\ Len(clusters') = Len(clusters) + 1
          /\ clusters'[Len(clusters) + 1].n = 1
          /\ clusters'[Len(clusters) + 1].pos = NoPos
      BY <1>0, <1>a, <1>b, <2>5, OpensClusterEffect
    <3>3. Len(blocks') = Len(blocks) + 1 /\ clusters' # <<>>
      BY <1>0, <1>a, <1>b, <3>2 DEF NewBlock
    <3>4. StoredLen' = Len(blocks)
      BY <1>0, <1>a, <1>b, <3>2, <3>3 DEF StoredLen, Last
    <3>5. StoredLen' \in StoredLen .. Len(accepted)
      BY <1>0, <1>a, <1>b, <1>c, <3>4
    <3>6. Stored' = SubSeq(accepted, 1, StoredLen') /\ StoredLen \in 0 .. Len(accepted)
      BY <1>0, <1>a, <1>b, <1>c, <2>2
    <3> QED BY <1>0, <1>a, <1>b, <1>c, <2>2, <2>3, <3>1, <3>5, <3>6, StoreOrStutter
  <2>6. CASE ReceiveFault(f) \/ ReceiveTooOld(f)
    <3>1. UNCHANGED <<clusters, blocks>> /\ panicking'
      BY <2>6 DEF ReceiveFault, ReceiveTooOld, AfterReport
    <3>2. Phase' = "cut" /\ Stored' = Stored
      BY <3>1 DEF Phase, Stored, StoredBlocks, Last
    <3> QED BY <2>2, <2>3, <3>2, AbstractSteps
  <2> QED BY <2>1, <2>4, <2>5, <2>6
<1>6. CASE SeeClosed \/ DrainDone
  <2>1. UNCHANGED <<accepted, clusters, blocks, panicking, outClosed>>
        /\ pc # "crashed" /\ pc' # "crashed"
    BY <1>6 DEF SeeClosed, DrainDone
  <2>2. UNCHANGED <<accepted, Stored, Phase>>
    BY <2>1 DEF Stored, StoredBlocks, Last, Phase
  <2> QED BY <2>2, AbstractSteps
<1>7. CASE FlushCluster
  <2>1. UNCHANGED <<accepted, blocks, panicking, outClosed>> /\ clusters' = MarkWritten(clusters)
        /\ pc = "flush" /\ pc' = "finalize" /\ ~outClosed
    BY <1>0, <1>a, <1>b, <1>7 DEF FlushCluster, WrittenInv
  <2>2. Phase' = Phase /\ Phase # "complete"
    BY <2>1 DEF Phase
  <2>3. StoredLen' = Len(blocks)
    <3>1. clusters' = <<>> \/ Last(clusters').pos # NoPos
      <4>1. CASE clusters = <<>>
        BY <2>1, <4>1 DEF MarkWritten
      <4>2. CASE clusters # <<>>
        <5>1. Len(clusters') = Len(clusters) /\ Len(clusters) \in 1 .. Len(clusters)
              /\ clusters'[Len(clusters)].pos = filePos
          BY <1>0, <1>a, <1>b, <2>1, <4>2, MarkWrittenEffect
        <5>2. filePos # NoPos
          BY <1>0 DEF TypeOK
        <5> QED BY <5>1, <5>2 DEF Last
      <4> QED BY <4>1, <4>2
    <3> QED BY <2>1, <3>1 DEF StoredLen
  <2>4. StoredLen' \in StoredLen .. Len(accepted) /\ StoredLen \in 0 .. Len(accepted)
    BY <1>0, <1>a, <1>b, <1>c, <2>3
  <2> QED BY <1>0, <1>a, <1>b, <1>c, <2>1, <2>2, <2>4, StoreOrStutter
<1>8. CASE FlushFault \/ FinalizeFault
  <2>1. UNCHANGED <<accepted, clusters, blocks>> /\ (panicking' \/ pc' = "crashed")
        /\ pc \in {"flush", "finalize"}
    BY <1>8 DEF FlushFault, FinalizeFault
  <2>2. Phase' = "cut" /\ Stored' = Stored /\ ~outClosed
    BY <1>0, <1>a, <1>b, <2>1 DEF Phase, Stored, StoredBlocks, Last, WrittenInv
  <2>3. Phase \in {"recording", "cut"}
    BY <2>1, <2>2 DEF Phase
  <2> QED BY <2>1, <2>2, <2>3, AbstractSteps
<1>9. CASE Finalize
  <2>1. UNCHANGED <<accepted, ch, blocks, panicking>> /\ outClosed' /\ ~outClosed
        /\ pc = "finalize" /\ pc' = "fin1"
        /\ clusters' = (IF clusters = <<>> THEN <<EmptyCluster>> ELSE clusters)
    BY <1>0, <1>a, <1>b, <1>9 DEF Finalize, WrittenInv
  <2>2. Stored' = Stored
    <3>1. CASE clusters = <<>>
      <4>1. EmptyCluster.pos # NoPos
        BY <1>0 DEF EmptyCluster, TypeOK
      <4>2. Last(clusters').pos # NoPos
        BY <2>1, <3>1, <4>1 DEF Last
      <4> QED BY <2>1, <3>1, <4>2 DEF Stored, StoredBlocks
    <3>2. CASE clusters # <<>>
      BY <2>1, <3>2 DEF Stored, StoredBlocks, Last
    <3> QED BY <3>1, <3>2
  <2>3. CASE panicking
    <3>1. UNCHANGED Phase
      BY <2>1, <2>3 DEF Phase
    <3> QED BY <2>1, <2>2, <3>1, AbstractSteps
  <2>4. CASE ~panicking
    <3>1. Phase = "recording" /\ Phase' = "complete"
      BY <2>1, <2>4 DEF Phase
    <3>2. reported = {} /\ faults = 0
      BY <1>0, <1>a, <1>b, <2>1, <2>4 DEF PrefixInv
    <3>3. Len(blocks) = Len(accepted)
      <4>1. ch = <<>> /\ Len(blocks) = Taken
        BY <1>0, <1>a, <1>b, <2>1, <3>2 DEF CleanInv
      <4> QED BY <1>0, <1>a, <1>b, <4>1, TakenType DEF Taken
    <3>4. StoredLen = Len(blocks)
      <4>1. clusters # <<>> => clusters[Len(clusters)].pos # NoPos
        BY <1>0, <1>a, <1>b, <2>1, <3>2 DEF WrittenInv
      <4> QED BY <4>1 DEF StoredLen, Last
    <3>5. Stored = accepted
      BY <1>0, <1>a, <1>b, <1>c, <3>3, <3>4
    <3> QED BY <2>1, <2>2, <3>1, <3>5, AbstractSteps
  <2> QED BY <2>3, <2>4
<1>10. CASE Fin1 \/ Fin2
  <2>1. UNCHANGED <<accepted, clusters, blocks, panicking, outClosed>>
        /\ pc # "crashed" /\ (pc' = "crashed" => panicking)
    BY <1>10 DEF Fin1, Fin2
  <2>2. UNCHANGED <<accepted, Stored, Phase>>
    BY <2>1 DEF Stored, StoredBlocks, Last, Phase
  <2> QED BY <2>2, AbstractSteps
<1> QED BY <1>1, <1>3, <1>4, <1>5, <1>6, <1>7, <1>8, <1>9, <1>10 DEF Next, Writer

\* With handlers that panic the writer implements Recording: the frames reach the
\* file in the order of Write and without a gap, whole clusters at a time; it is
\* complete only with all of them, and then accepts no more.
THEOREM RefinesRecording ==
  ASSUME OnErrorPanics, OnFatalPanics
  PROVE  Spec => ImplementsRecording
<1>1. Init => RefinementInv /\ Abstract!Init
  <2> SUFFICES ASSUME Init PROVE RefinementInv /\ Abstract!Init
    OBVIOUS
  <2>1. CleanInv /\ WrittenInv /\ PrefixInv
    BY DEF Init, CleanInv, WrittenInv, PrefixInv, Receiving, Taken
  <2>2. RefinementInv
    BY <2>1, TypeInit, FlowInit DEF RefinementInv
  <2>3. accepted = <<>> /\ Stored = <<>> /\ Phase = "recording"
    BY DEF Init, Stored, StoredBlocks, Phase
  <2> QED BY <2>2, <2>3, AbstractSteps
<1>2. RefinementInv /\ [Next]_vars => RefinementInv'
  <2> SUFFICES ASSUME RefinementInv, [Next]_vars PROVE RefinementInv'
    OBVIOUS
  <2>1. TInv /\ TypeOK /\ FlowInv /\ CleanInv /\ WrittenInv /\ PrefixInv
    BY DEF RefinementInv, TInv
  <2> QED BY <2>1, TypeStep, FlowStep, CleanStep, WrittenStep, PrefixStep DEF RefinementInv
<1>3. RefinementInv => StoredPrefix
  BY StoredIsPrefix DEF RefinementInv, TInv
<1>4. RefinementInv /\ RefinementInv' /\ StoredPrefix /\ StoredPrefix' /\ [Next]_vars
      => [Abstract!Next]_(Abstract!vars)
  BY RefinementStep
<1> QED BY <1>1, <1>2, <1>3, <1>4, PTL DEF Spec, ImplementsRecording, Abstract!Spec

----------------------------------------------------------------------------
(* The index.  While no write fails the writer's idea of where a cluster   *)
(* goes is where it goes, so a cue made for the first block of a cluster   *)
(* keeps leading there when the cluster is written and others follow.      *)

\* Is the current cluster still to be written?
Unwritten == pc \in {"loop", "drain", "flush"}

IsFirst(b) == \A a \in 1 .. b - 1 : blocks[a].cluster # blocks[b].cluster

CueAt(c, b) ==
  /\ c.pos = Position(blocks[b].cluster) - OffsetSeekHeader
  /\ c.track = blocks[b].track /\ c.block = 1
  /\ c.time = blocks[b].ts % Word
  /\ IsFirst(b)

PlaceInv ==
  /\ tc1 \in Timestamps \cup {NoTs}
  /\ faults = 0 =>
       /\ Receiving => clusterPosition = filePos
       /\ Receiving /\ tc1 # NoTs => cueBlockNumber >= 1
       /\ Unwritten /\ clusters # <<>> => clusters[Len(clusters)].pos = NoPos
       /\ \A b \in 1 .. Len(blocks) : blocks[b].cluster \in 1 .. Len(clusters)

CueLeads(i) == \E b \in 1 .. Len(blocks) : blocks[b].key /\ CueAt(cues[i], b)

Indexed(b) == \E i \in 1 .. Len(cues) : CueAt(cues[i], b)

CueInv ==
  faults = 0 => \A i \in 1 .. Len(cues) : CueLeads(i)

\* The keyframe interval of matroska.go: a key frame of the main track always
\* opens a cluster.
EveryKeyframeOpens == \A x, y \in Timestamps : x - y >= tNextCluster

KeyInv ==
  EveryKeyframeOpens /\ faults = 0 =>
    \A b \in 1 .. Len(blocks) : blocks[b].key /\ blocks[b].track = MainTrack => Indexed(b)

IndexInv == PlaceInv /\ CueInv /\ KeyInv

LEMMA CueAtFinds ==
  ASSUME TypeOK, NEW b \in 1 .. Len(blocks), NEW c
  PROVE  CueAt(c, b) => CueFinds(c, b)
<1> SUFFICES ASSUME CueAt(c, b) PROVE b = FirstBlock(blocks[b].cluster)
  BY DEF CueAt, CueFinds
<1> DEFINE k == blocks[b].cluster
           P(x) == blocks[x].cluster = k /\ \A a \in DOMAIN blocks : a < x => blocks[a].cluster # k
<1>1. DOMAIN blocks = 1 .. Len(blocks) /\ Len(blocks) \in Nat
  BY ClustersType
<1>2. P(b)
  BY <1>1 DEF CueAt, IsFirst
<1>3. \A x \in DOMAIN blocks : P(x) => x = b
  BY <1>1, <1>2
<1>4. FirstBlock(k) = CHOOSE x \in DOMAIN blocks : P(x)
  BY DEF FirstBlock
<1> QED BY <1>1, <1>2, <1>3, <1>4

\* The blocks and the places of their clusters stay: so do the cues that lead there.
LEMMA CuesStay ==
  ASSUME Len(blocks) \in Nat, Len(blocks') \in Nat, Len(blocks') >= Len(blocks),
         Len(cues) \in Nat, Len(cues') \in Nat, Len(cues') >= Len(cues),
         \A b \in 1 .. Len(blocks) : blocks'[b] = blocks[b],
         \A b \in 1 .. Len(blocks) :
           Position(blocks[b].cluster)' = Position(blocks[b].cluster),
         \A i \in 1 .. Len(cues) : cues'[i] = cues[i]
  PROVE  /\ \A i \in 1 .. Len(cues) : CueLeads(i) => CueLeads(i)'
         /\ \A b \in 1 .. Len(blocks) : Indexed(b) => Indexed(b)'
<1>1. ASSUME NEW b \in 1 .. Len(blocks), NEW i \in 1 .. Len(cues), CueAt(cues[i], b)
      PROVE  CueAt(cues[i], b)'
  <2>1. blocks'[b] = blocks[b] /\ cues'[i] = cues[i]
        /\ Position(blocks[b].cluster)' = Position(blocks[b].cluster)
    OBVIOUS
  <2>2. ASSUME NEW a \in 1 .. b - 1 PROVE blocks'[a].cluster # blocks'[b].cluster
    <3>1. a \in 1 .. Len(blocks)
      OBVIOUS
    <3> QED BY <1>1, <2>1, <3>1 DEF CueAt, IsFirst
  <2> QED BY <1>1, <2>1, <2>2 DEF CueAt, IsFirst
<1>2. 1 .. Len(blocks) \subseteq 1 .. Len(blocks') /\ 1 .. Len(cues) \subseteq 1 .. Len(cues')
  OBVIOUS
<1>3. ASSUME NEW i \in 1 .. Len(cues), CueLeads(i) PROVE CueLeads(i)'
  BY <1>1, <1>2, <1>3 DEF CueLeads
<1>4. ASSUME NEW b \in 1 .. Len(blocks), Indexed(b) PROVE Indexed(b)'
  BY <1>1, <1>2, <1>4 DEF Indexed
<1> QED BY <1>3, <1>4

CueFor(f, base, number, position) ==
  [time |-> base % Word, track |-> f.track, pos |-> position - OffsetSeekHeader,
   block |-> number]

\* The cue of a stored block.
LEMMA StoreBlockCue ==
  ASSUME NEW f, NEW cs, NEW base, NEW number, NEW position,
         StoreBlock(f, cs, base, number, position)
  PROVE  /\ cueBlockNumber' = number
         /\ number = 1 /\ f.key => cues' = Append(cues, CueFor(f, base, number, position))
         /\ ~(number = 1 /\ f.key) => cues' = cues
<1>1. cues' = IF number = 1 /\ f.key
              THEN Append(cues, CueFor(f, base, number, position)) ELSE cues
  BY Zenon DEF StoreBlock, CueFor
<1>2. cueBlockNumber' = number
  BY Zenon DEF StoreBlock
<1> QED BY <1>1, <1>2

LEMMA IndexStep == TInv /\ WrittenInv /\ IndexInv /\ [Next]_vars => IndexInv'
<1> SUFFICES ASSUME TInv, WrittenInv, IndexInv, [Next]_vars PROVE IndexInv'
  OBVIOUS
<1> USE DEF chanVars, timeVars, bookVars, fileVars
<1>0. /\ TypeOK /\ faults \in Nat /\ filePos \in Int /\ clusterPosition \in Int
      /\ Len(clusters) \in Nat /\ Len(blocks) \in Nat /\ Len(cues) \in Nat
      /\ (clusters # <<>> <=> Len(clusters) # 0)
  <2>1. TypeOK /\ faults \in Int /\ faults >= 0 /\ filePos \in Int /\ clusterPosition \in Int
        /\ clusters \in Seq(Clusters) /\ blocks \in Seq(Blocks) /\ cues \in Seq(Cues)
    BY DEF TInv, TypeOK, WrittenInv
  <2> QED BY <2>1
<1>a. /\ Len(clusters') \in Nat /\ Len(blocks') \in Nat /\ Len(cues') \in Nat
      /\ (clusters' # <<>> <=> Len(clusters') # 0)
  <2>1. clusters' \in Seq(Clusters) /\ blocks' \in Seq(Blocks) /\ cues' \in Seq(Cues)
    BY TypeStep DEF TInv, TypeOK
  <2> QED BY <2>1
\* A step without a new block or cue that leaves the clusters' places.
<1>b. ASSUME UNCHANGED <<blocks, cues, faults>>,
             faults = 0 => \A b \in 1 .. Len(blocks) :
                             Position(blocks[b].cluster)' = Position(blocks[b].cluster)
      PROVE  CueInv' /\ KeyInv'
  <2> SUFFICES ASSUME faults = 0
               PROVE  /\ \A i \in 1 .. Len(cues) : CueLeads(i)'
                      /\ EveryKeyframeOpens =>
                           \A b \in 1 .. Len(blocks) :
                             blocks[b].key /\ blocks[b].track = MainTrack => Indexed(b)'
    BY <1>b DEF CueInv, KeyInv, EveryKeyframeOpens
  <2>1. /\ \A i \in 1 .. Len(cues) : CueLeads(i) => CueLeads(i)'
        /\ \A b \in 1 .. Len(blocks) : Indexed(b) => Indexed(b)'
    BY <1>0, <1>a, <1>b, CuesStay
  <2> QED BY <2>1 DEF IndexInv, CueInv, KeyInv
<1>1. CASE Receive
  <2>1. PICK f \in Frames :
          ReceiveIntoCluster(f) \/ ReceiveOpensCluster(f) \/ ReceiveFault(f) \/ ReceiveTooOld(f)
    BY <1>1 DEF Receive
  <2>2. Receiving /\ Unwritten /\ Take(f) /\ f.ts \in Timestamps /\ f.ts \in Int
    BY <2>1 DEF ReceiveIntoCluster, ReceiveOpensCluster, ReceiveFault, ReceiveTooOld, Take,
                Receiving, Unwritten, Frames
  <2>3. CASE ReceiveIntoCluster(f)
    <3>1. /\ tc1 \in Int /\ Len(clusters) \in 1 .. Len(clusters)
          /\ NewBlock(BlockFor(f, f.ts - tc1, Len(clusters)))
          /\ Len(clusters') = Len(clusters)
          /\ \A k \in 1 .. Len(clusters) : clusters'[k].pos = clusters[k].pos
      BY <2>3, IntoClusterEffect
    <3>2. /\ UNCHANGED <<pc, tc1, clusterPosition, filePos, faults>>
          /\ cueBlockNumber' = cueBlockNumber + 1
          /\ (cueBlockNumber + 1 # 1 => cues' = cues)
      BY <2>3 DEF ReceiveIntoCluster, StoreBlock
    <3>3. /\ Len(blocks') = Len(blocks) + 1
          /\ \A b \in 1 .. Len(blocks) : blocks'[b] = blocks[b]
          /\ blocks'[Len(blocks) + 1].cluster = Len(clusters)
          /\ blocks'[Len(blocks) + 1].track = f.track /\ blocks'[Len(blocks) + 1].key = f.key
      BY <3>1 DEF NewBlock, BlockFor
    <3>4. ASSUME faults = 0
          PROVE  /\ cueBlockNumber >= 1 /\ cueBlockNumber \in Int /\ clusterPosition = filePos
                 /\ clusters[Len(clusters)].pos = NoPos
                 /\ \A b \in 1 .. Len(blocks) : blocks[b].cluster \in 1 .. Len(clusters)
      BY <1>0, <2>2, <3>1, <3>4 DEF IndexInv, PlaceInv, TypeOK
    <3>5. PlaceInv'
      <4>1. tc1' \in Timestamps \cup {NoTs}
        BY <3>2 DEF IndexInv, PlaceInv
      <4>2. ASSUME faults = 0
            PROVE  /\ clusterPosition' = filePos' /\ cueBlockNumber' >= 1
                   /\ clusters'[Len(clusters')].pos = NoPos
                   /\ \A b \in 1 .. Len(blocks') : blocks'[b].cluster \in 1 .. Len(clusters')
        <5>1. clusterPosition' = filePos' /\ cueBlockNumber' >= 1
          BY <3>2, <3>4, <4>2
        <5>2. clusters'[Len(clusters')].pos = NoPos
          BY <3>1, <3>4, <4>2
        <5>3. ASSUME NEW b \in 1 .. Len(blocks') PROVE blocks'[b].cluster \in 1 .. Len(clusters')
          <6>1. b \in 1 .. Len(blocks) \/ b = Len(blocks) + 1
            BY <1>0, <3>3
          <6> QED BY <3>1, <3>3, <3>4, <4>2, <6>1
        <5> QED BY <5>1, <5>2, <5>3
      <4> QED BY <3>2, <4>1, <4>2 DEF PlaceInv
    <3>6. ASSUME faults = 0
          PROVE  /\ cues' = cues
                 /\ \A i \in 1 .. Len(cues) : CueLeads(i) => CueLeads(i)'
                 /\ \A b \in 1 .. Len(blocks) : Indexed(b) => Indexed(b)'
      <4>1. cues' = cues
        BY <3>2, <3>4, <3>6
      <4>2. ASSUME NEW b \in 1 .. Len(blocks)
            PROVE  Position(blocks[b].cluster)' = Position(blocks[b].cluster)
        BY <3>1, <3>2, <3>3, <3>4, <3>6 DEF Position
      <4> QED BY <1>0, <1>a, <3>3, <4>1, <4>2, CuesStay
    <3>7. CueInv'
      BY <3>2, <3>6 DEF IndexInv, CueInv
    <3>8. ASSUME EveryKeyframeOpens, f.key, f.track = MainTrack PROVE FALSE
      <4>1. tc1 \in Timestamps
        BY <3>1 DEF IndexInv, PlaceInv
      <4>2. f.ts - tc1 >= tNextCluster
        BY <2>2, <3>8, <4>1 DEF EveryKeyframeOpens
      <4> QED BY <2>3, <3>8, <4>2 DEF ReceiveIntoCluster, NeedsCluster
    <3>9. KeyInv'
      <4> SUFFICES ASSUME EveryKeyframeOpens, faults = 0, NEW b \in 1 .. Len(blocks'),
                          blocks'[b].key, blocks'[b].track = MainTrack
                   PROVE  Indexed(b)'
        BY <3>2 DEF KeyInv, EveryKeyframeOpens
      <4>1. b # Len(blocks) + 1
        BY <3>3, <3>8
      <4>2. b \in 1 .. Len(blocks) /\ blocks'[b] = blocks[b]
        BY <1>0, <3>3, <4>1
      <4> QED BY <3>6, <4>2 DEF IndexInv, KeyInv
    <3> QED BY <3>5, <3>7, <3>9 DEF IndexInv
  <2>4. CASE ReceiveOpensCluster(f)
    <3> DEFINE size == LastSize(clusters)
               new == Len(blocks) + 1
               cue == CueFor(f, f.ts, 1, clusterPosition + size)
    <3>0. size \in Int
      BY <1>0, MarkWrittenTypes
    <3>1. /\ NewBlock(BlockFor(f, 0, Len(clusters) + 1))
          /\ Len(clusters') = Len(clusters) + 1
          /\ \A k \in 1 .. Len(clusters) :
               clusters'[k].pos = IF k = Len(clusters) THEN filePos ELSE clusters[k].pos
          /\ clusters'[Len(clusters) + 1].pos = NoPos
      BY <2>4, OpensClusterEffect
    <3>2. /\ UNCHANGED <<pc, faults>> /\ tc1' = f.ts
          /\ filePos' = filePos + size /\ clusterPosition' = clusterPosition + size
          /\ cueBlockNumber' = 1
          /\ (f.key => cues' = Append(cues, cue)) /\ (~f.key => cues' = cues)
      <4>1. PICK cs : StoreBlock(f, cs, f.ts, 1, clusterPosition + size)
        BY <2>4 DEF ReceiveOpensCluster
      <4>2. /\ UNCHANGED <<pc, faults>> /\ tc1' = f.ts
            /\ filePos' = filePos + size /\ clusterPosition' = clusterPosition + size
        BY <2>4 DEF ReceiveOpensCluster
      <4>3. cueBlockNumber' = 1
            /\ (f.key => cues' = Append(cues, cue)) /\ (~f.key => cues' = cues)
        BY <4>1, StoreBlockCue
      <4> QED BY <4>2, <4>3
    <3>3. /\ Len(blocks') = new
          /\ \A b \in 1 .. Len(blocks) : blocks'[b] = blocks[b]
          /\ blocks'[new].cluster = Len(clusters) + 1 /\ blocks'[new].ts = f.ts
          /\ blocks'[new].track = f.track /\ blocks'[new].key = f.key
      BY <3>1 DEF NewBlock, BlockFor
    <3>c. /\ cue.time = f.ts % Word /\ cue.track = f.track /\ cue.block = 1
          /\ cue.pos = (clusterPosition + size) - OffsetSeekHeader
      BY DEF CueFor
    <3> HIDE DEF cue, size
    <3>4. ASSUME faults = 0
          PROVE  /\ clusterPosition = filePos
                 /\ clusters # <<>> => clusters[Len(clusters)].pos = NoPos
                 /\ \A b \in 1 .. Len(blocks) : blocks[b].cluster \in 1 .. Len(clusters)
      BY <2>2, <3>4 DEF IndexInv, PlaceInv
    <3>5. PlaceInv'
      <4>1. ASSUME faults = 0
            PROVE  /\ clusterPosition' = filePos' /\ cueBlockNumber' >= 1
                   /\ clusters'[Len(clusters')].pos = NoPos
                   /\ \A b \in 1 .. Len(blocks') : blocks'[b].cluster \in 1 .. Len(clusters')
        <5>1. clusterPosition' = filePos' /\ cueBlockNumber' >= 1
          BY <3>2, <3>4, <4>1
        <5>2. clusters'[Len(clusters')].pos = NoPos
          BY <3>1
        <5>3. ASSUME NEW b \in 1 .. Len(blocks') PROVE blocks'[b].cluster \in 1 .. Len(clusters')
          <6>1. CASE b \in 1 .. Len(blocks)
            <7>1. blocks'[b] = blocks[b] /\ blocks[b].cluster \in 1 .. Len(clusters)
              BY <3>3, <3>4, <4>1, <6>1
            <7> QED BY <1>0, <3>1, <7>1
          <6>2. CASE b = Len(blocks) + 1
            BY <1>0, <3>1, <3>3, <6>2
          <6> QED BY <1>0, <3>3, <6>1, <6>2
        <5> QED BY <5>1, <5>2, <5>3
      <4> QED BY <2>2, <3>2, <4>1 DEF PlaceInv
    <3>6. /\ Len(cues') >= Len(cues) /\ \A i \in 1 .. Len(cues) : cues'[i] = cues[i]
          /\ (f.key => Len(cues') = Len(cues) + 1 /\ cues'[Len(cues) + 1] = cue)
          /\ (~f.key => cues' = cues)
      <4>1. cues \in Seq(Cues)
        BY <1>0 DEF TypeOK
      <4>2. CASE f.key
        BY <3>2, <4>1, <4>2
      <4>3. CASE ~f.key
        BY <1>0, <3>2, <4>3
      <4> QED BY <4>2, <4>3
    <3>7. ASSUME faults = 0
          PROVE  /\ \A i \in 1 .. Len(cues) : CueLeads(i) => CueLeads(i)'
                 /\ \A b \in 1 .. Len(blocks) : Indexed(b) => Indexed(b)'
      <4>1. ASSUME NEW b \in 1 .. Len(blocks)
            PROVE  Position(blocks[b].cluster)' = Position(blocks[b].cluster)
        <5> DEFINE k == blocks[b].cluster
        <5>1. k \in 1 .. Len(clusters) /\ blocks'[b].cluster = k
          BY <3>3, <3>4, <3>7
        <5>2. CASE k = Len(clusters)
          <6>1. clusters[k].pos = NoPos /\ clusters'[k].pos = filePos /\ filePos # NoPos
            BY <1>0, <3>1, <3>4, <3>7, <5>1, <5>2
          <6> QED BY <5>1, <6>1 DEF Position
        <5>3. CASE k # Len(clusters)
          <6>1. clusters[k].pos # NoPos
            BY <1>0, <3>7, <5>1, <5>3 DEF WrittenInv
          <6>2. clusters'[k].pos = clusters[k].pos
            BY <3>1, <5>1, <5>3
          <6> QED BY <5>1, <6>1, <6>2 DEF Position
        <5> QED BY <5>2, <5>3
      <4> QED BY <1>0, <1>a, <3>3, <3>6, <4>1, CuesStay
    <3>8. ASSUME faults = 0, f.key, NEW b, b = new, NEW i, i = Len(cues) + 1
          PROVE  CueAt(cues[i], b)'
      <4>1. cues'[i] = cue
        BY <3>6, <3>8
      <4>2. blocks'[b].cluster = Len(clusters) + 1 /\ blocks'[b].ts = f.ts
            /\ blocks'[b].track = f.track
        BY <3>3, <3>8
      <4>3. Position(blocks[b].cluster)' = filePos'
        BY <3>1, <4>2 DEF Position
      <4>4. cue.pos = filePos' - OffsetSeekHeader
        <5>1. clusterPosition + size = filePos'
          BY <3>2, <3>4, <3>8
        <5> QED BY <3>c, <5>1
      <4>5. \A a \in 1 .. Len(blocks) : blocks'[a].cluster # Len(clusters) + 1
        <5> TAKE a \in 1 .. Len(blocks)
        <5>1. blocks'[a] = blocks[a] /\ blocks[a].cluster \in 1 .. Len(clusters)
          BY <3>3, <3>4, <3>8
        <5> QED BY <1>0, <5>1
      <4>6. \A a \in 1 .. b - 1 : blocks'[a].cluster # blocks'[b].cluster
        BY <1>0, <3>8, <4>2, <4>5
      <4> QED BY <3>c, <4>1, <4>2, <4>3, <4>4, <4>6 DEF CueAt, IsFirst
    <3>9. CueInv'
      <4> SUFFICES ASSUME faults = 0, NEW i \in 1 .. Len(cues') PROVE CueLeads(i)'
        BY <3>2 DEF CueInv
      <4>1. CASE i \in 1 .. Len(cues)
        BY <3>7, <4>1 DEF IndexInv, CueInv
      <4>2. CASE i \notin 1 .. Len(cues)
        <5>1. f.key /\ i = Len(cues) + 1
          BY <1>0, <3>6, <4>2
        <5>a. new \in 1 .. Len(blocks') /\ blocks'[new].key
          BY <1>0, <3>3, <5>1
        <5>2. PICK b \in 1 .. Len(blocks') : b = new /\ blocks'[b].key
          BY <5>a
        <5>3. CueAt(cues[i], b)'
          BY <3>8, <5>1, <5>2
        <5> QED BY <5>2, <5>3 DEF CueLeads
      <4> QED BY <4>1, <4>2
    <3>10. KeyInv'
      <4> SUFFICES ASSUME EveryKeyframeOpens, faults = 0, NEW b \in 1 .. Len(blocks'),
                          blocks'[b].key, blocks'[b].track = MainTrack
                   PROVE  Indexed(b)'
        BY <3>2 DEF KeyInv, EveryKeyframeOpens
      <4>1. CASE b \in 1 .. Len(blocks)
        BY <3>3, <3>7, <4>1 DEF IndexInv, KeyInv
      <4>2. CASE b \notin 1 .. Len(blocks)
        <5>1. b = new
          BY <1>0, <3>3, <4>2
        <5>2. f.key /\ Len(cues) + 1 \in 1 .. Len(cues')
          BY <1>0, <3>3, <3>6, <5>1
        <5> QED BY <3>8, <5>1, <5>2 DEF Indexed
      <4> QED BY <4>1, <4>2
    <3> QED BY <3>5, <3>9, <3>10 DEF IndexInv
  <2>5. CASE ReceiveFault(f)
    <3>1. faults' = faults + 1 /\ tc1' = f.ts
      BY <2>5 DEF ReceiveFault, IoFault
    <3>2. faults' # 0
      BY <1>0, <3>1
    <3> QED BY <2>2, <3>1, <3>2 DEF IndexInv, PlaceInv, CueInv, KeyInv
  <2>6. CASE ReceiveTooOld(f)
    <3>1. /\ UNCHANGED <<tc1, cueBlockNumber, clusterPosition, clusters, blocks, cues, filePos,
                         faults>>
          /\ pc' \in {pc, "flush"}
      BY <2>6 DEF ReceiveTooOld, AfterReport
    <3>2. PlaceInv'
      BY <2>2, <3>1 DEF IndexInv, PlaceInv, Receiving, Unwritten
    <3>3. CueInv' /\ KeyInv'
      BY <1>b, <3>1 DEF Position
    <3> QED BY <3>2, <3>3 DEF IndexInv
  <2> QED BY <2>1, <2>3, <2>4, <2>5, <2>6
<1>2. CASE FlushCluster
  <2>1. /\ UNCHANGED <<tc1, blocks, cues, faults>> /\ clusters' = MarkWritten(clusters)
        /\ pc = "flush" /\ pc' = "finalize"
    BY <1>2 DEF FlushCluster
  <2>2. Len(clusters') = Len(clusters)
        /\ \A k \in 1 .. Len(clusters) :
             clusters'[k].pos = IF k = Len(clusters) THEN filePos ELSE clusters[k].pos
    BY <1>0, <2>1, MarkWrittenEffect
  <2>3. PlaceInv'
    BY <2>1, <2>2 DEF IndexInv, PlaceInv, Receiving, Unwritten
  <2>4. ASSUME faults = 0, NEW b \in 1 .. Len(blocks)
        PROVE  Position(blocks[b].cluster)' = Position(blocks[b].cluster)
    <3> DEFINE k == blocks[b].cluster
    <3>1. k \in 1 .. Len(clusters) /\ blocks'[b].cluster = k
      BY <2>1, <2>4 DEF IndexInv, PlaceInv
    <3>2. CASE k = Len(clusters)
      <4>1. clusters[k].pos = NoPos /\ clusters'[k].pos = filePos /\ filePos # NoPos
        BY <1>0, <2>1, <2>2, <2>4, <3>1, <3>2 DEF IndexInv, PlaceInv, Unwritten
      <4> QED BY <3>1, <4>1 DEF Position
    <3>3. CASE k # Len(clusters)
      <4>1. clusters[k].pos # NoPos
        BY <1>0, <2>4, <3>1, <3>3 DEF WrittenInv
      <4>2. clusters'[k].pos = clusters[k].pos
        BY <2>2, <3>1, <3>3
      <4> QED BY <3>1, <4>1, <4>2 DEF Position
    <3> QED BY <3>2, <3>3
  <2>5. CueInv' /\ KeyInv'
    BY <1>b, <2>1, <2>4
  <2> QED BY <2>3, <2>5 DEF IndexInv
<1>3. CASE Finalize
  <2>1. /\ UNCHANGED <<tc1, blocks, cues, faults>> /\ pc = "finalize" /\ pc' = "fin1"
        /\ clusters # <<>> => clusters' = clusters
    BY <1>3 DEF Finalize
  <2>2. ASSUME faults = 0, clusters = <<>> PROVE Len(blocks) = 0
    <3>1. Len(blocks) # 0 => 1 \in 1 .. Len(blocks)
      BY <1>0
    <3>2. \A b \in 1 .. Len(blocks) : blocks[b].cluster \in 1 .. 0
      BY <1>0, <2>2 DEF IndexInv, PlaceInv
    <3> QED BY <3>1, <3>2
  <2>3. PlaceInv'
    BY <2>1, <2>2 DEF IndexInv, PlaceInv, Receiving, Unwritten
  <2>4. ASSUME faults = 0, NEW b \in 1 .. Len(blocks)
        PROVE  Position(blocks[b].cluster)' = Position(blocks[b].cluster)
    <3> DEFINE k == blocks[b].cluster
    <3>1. k \in 1 .. Len(clusters) /\ clusters # <<>>
      BY <1>0, <2>2, <2>4 DEF IndexInv, PlaceInv
    <3>2. clusters[k].pos # NoPos
      BY <2>1, <2>4, <3>1 DEF WrittenInv
    <3> QED BY <2>1, <3>1, <3>2 DEF Position
  <2>5. CueInv' /\ KeyInv'
    BY <1>b, <2>1, <2>4
  <2> QED BY <2>3, <2>5 DEF IndexInv
<1>4. CASE ~Receive /\ ~FlushCluster /\ ~Finalize
  <2>1. UNCHANGED <<tc1, clusters, blocks, cues>> /\ (Receiving' => Receiving)
    BY <1>4, QuietSteps
  <2>2. CASE faults' = faults + 1
    <3>1. faults' # 0
      BY <1>0, <2>2
    <3> QED BY <2>1, <3>1 DEF IndexInv, PlaceInv, CueInv, KeyInv
  <2>3. CASE /\ UNCHANGED <<faults, filePos, clusterPosition, cueBlockNumber>>
             /\ pc' \in {"loop", "drain", "flush"} <=> pc \in {"loop", "drain", "flush"}
    <3>1. PlaceInv'
      BY <2>1, <2>3 DEF IndexInv, PlaceInv, Unwritten
    <3>2. CueInv' /\ KeyInv'
      BY <1>b, <2>1, <2>3 DEF Position
    <3> QED BY <3>1, <3>2 DEF IndexInv
  <2> QED BY <1>4, <2>2, <2>3, QuietSteps
<1> QED BY <1>1, <1>2, <1>3, <1>4

\* As long as no write fails each cue leads to a key frame, the first block of its
\* cluster, whatever the number of tracks and the cluster the frame opens.
THEOREM CuesLead == Spec => []CuesLeadToKeyframes
<1>1. Init => WrittenInv /\ IndexInv
  BY DEF Init, WrittenInv, IndexInv, PlaceInv, CueInv, KeyInv, Receiving
<1>2. TInv /\ IndexInv => CuesLeadToKeyframes
  <2> SUFFICES ASSUME TInv, IndexInv, faults = 0, NEW i \in DOMAIN cues
               PROVE  \E b \in DOMAIN blocks : blocks[b].key /\ CueFinds(cues[i], b)
    BY DEF CuesLeadToKeyframes
  <2>1. TypeOK /\ DOMAIN blocks = 1 .. Len(blocks) /\ i \in 1 .. Len(cues)
    BY DEF TInv, TypeOK
  <2>2. PICK b \in 1 .. Len(blocks) : blocks[b].key /\ CueAt(cues[i], b)
    BY <2>1 DEF IndexInv, CueInv, CueLeads
  <2> QED BY <2>1, <2>2, CueAtFinds
<1>3. TypeOK /\ TInv /\ WrittenInv /\ [Next]_vars => WrittenInv'
  BY WrittenStep
<1> QED BY <1>1, <1>2, <1>3, TypeCorrect, TypeInit, TypeStep, IndexStep, PTL DEF Spec

\* With the keyframe interval of matroska.go every key frame of the main track is
\* also in the index.
THEOREM IndexIsExact ==
  ASSUME EveryKeyframeOpens
  PROVE  Spec => []CuesFindKeyframes
<1>1. Init => WrittenInv /\ IndexInv
  BY DEF Init, WrittenInv, IndexInv, PlaceInv, CueInv, KeyInv, Receiving
<1>2. TInv /\ IndexInv => EveryKeyframeHasCue
  <2> SUFFICES ASSUME TInv, IndexInv, faults = 0, NEW b \in DOMAIN blocks,
                      blocks[b].key, blocks[b].track = MainTrack
               PROVE  \E i \in DOMAIN cues : CueFinds(cues[i], b)
    BY DEF EveryKeyframeHasCue
  <2>1. TypeOK /\ DOMAIN cues = 1 .. Len(cues) /\ b \in 1 .. Len(blocks)
    BY DEF TInv, TypeOK
  <2>2. PICK i \in 1 .. Len(cues) : CueAt(cues[i], b)
    BY <2>1 DEF IndexInv, KeyInv, Indexed
  <2> QED BY <2>1, <2>2, CueAtFinds
<1>3. TypeOK /\ TInv /\ WrittenInv /\ [Next]_vars => WrittenInv'
  BY WrittenStep
<1>4. CuesLeadToKeyframes /\ EveryKeyframeHasCue => CuesFindKeyframes
  BY DEF CuesFindKeyframes
<1> QED BY <1>1, <1>2, <1>3, <1>4, CuesLead, TypeCorrect, TypeInit, TypeStep, IndexStep, PTL
    DEF Spec
==============================================================================
