---------------------------- MODULE BlockSorter ----------------------------
(***************************************************************************)
(* The block interceptor of muxer/ebml/mkvcore/interceptor.go: one reader  *)
(* goroutine per track hands frames to Intercept over an unbuffered        *)
(* channel; Intercept buffers them per track and writes the oldest while   *)
(* every track has one, or the backlog exceeds one of two limits.  Under   *)
(* BlockSorterDropOutdated a frame older than the last one written is      *)
(* dropped.  When all readers have ended the buffers are emptied.          *)
(***************************************************************************)
EXTENDS Integers, Sequences, FiniteSets

CONSTANTS
  NTracks,            \* len(r)
  Timestamps,         \* the timestamps of frames
  MaxDelayedPackets,  \* options.maxDelayedPackets, 0 for none
  MaxTimescaleDelay,  \* options.maxTimescaleDelay, 0 for none
  DropOutdated,       \* is the rule BlockSorterDropOutdated
  MaxFrames           \* bound: frames read in a behaviour

Tracks == 1 .. NTracks

\* NewMultiTrackBlockSorter wants one of the limits.  Timestamps are not
\* negative: the watermark tDone starts at 0.
ASSUME BlockSorterAssumption ==
  /\ NTracks \in Nat \ {0} /\ Timestamps \subseteq Nat
  /\ MaxDelayedPackets \in Nat /\ MaxTimescaleDelay \in Nat
  /\ MaxDelayedPackets # 0 \/ MaxTimescaleDelay # 0
  /\ DropOutdated \in BOOLEAN /\ MaxFrames \in Nat

VARIABLES
  hand,     \* per track, the frame its reader offers on ch: <<>> or <<f>>
  ended,    \* the tracks whose reader has returned
  buf,      \* the frame buffers
  tDone,
  pc,       \* Intercept: select, flush, flushAll, done
  out,      \* the frames written
  read,     \* history: the frames read, in order; a frame's id is its place
  dropped,  \* history: the ids of the frames dropped
  forced    \* history: was a frame written because of a limit

vars == <<hand, ended, buf, tDone, pc, out, read, dropped, forced>>

Frames == [id : Nat, track : Tracks, ts : Timestamps]

Init ==
  /\ hand = [t \in Tracks |-> <<>>] /\ ended = {} /\ buf = [t \in Tracks |-> <<>>]
  /\ tDone = 0 /\ pc = "select" /\ out = <<>>
  /\ read = <<>> /\ dropped = {} /\ forced = FALSE

----------------------------------------------------------------------------
(* The readers.  A track's frames come sorted by timestamp, as             *)
(* NewSimpleBlockWriter asks.                                              *)

Read(t, ts) ==
  /\ t \notin ended /\ hand[t] = <<>> /\ Len(read) < MaxFrames
  /\ \A i \in DOMAIN read : read[i].track = t => read[i].ts <= ts
  /\ LET f == [id |-> Len(read) + 1, track |-> t, ts |-> ts]
     IN  hand' = [hand EXCEPT ![t] = <<f>>] /\ read' = Append(read, f)
  /\ UNCHANGED <<ended, buf, tDone, pc, out, dropped, forced>>

\* Read fails: the reader is done.
End(t) ==
  /\ t \notin ended /\ hand[t] = <<>>
  /\ ended' = ended \cup {t}
  /\ UNCHANGED <<hand, buf, tDone, pc, out, read, dropped, forced>>

----------------------------------------------------------------------------
(* Intercept                                                               *)

\* Mutant: frames are taken whatever was written.
OutdatedNever(f) == FALSE

Outdated(f) == DropOutdated /\ f.ts < tDone

Receive(t) ==
  /\ pc = "select" /\ hand[t] # <<>>
  /\ hand' = [hand EXCEPT ![t] = <<>>]
  /\ LET f == hand[t][1]
     IN  IF Outdated(f)
         THEN dropped' = dropped \cup {f.id} /\ UNCHANGED <<buf, pc>>
         ELSE buf' = [buf EXCEPT ![t] = Append(@, f)] /\ pc' = "flush" /\ UNCHANGED dropped
  /\ UNCHANGED <<ended, tDone, out, read, forced>>

SeeClosed ==
  /\ pc = "select" /\ ended = Tracks
  /\ pc' = "flushAll"
  /\ UNCHANGED <<hand, ended, buf, tDone, out, read, dropped, forced>>

Filled == {t \in Tracks : buf[t] # <<>>}
HeadTs(t) == buf[t][1].ts
TailTs(t) == buf[t][Len(buf[t])].ts

\* The first track, by index, with the oldest head.
IsOldest(t) ==
  t \in Filled /\ \A u \in Filled : HeadTs(t) < HeadTs(u) \/ (HeadTs(t) = HeadTs(u) /\ t <= u)

\* The difference is taken when a track's tail is the newest so far, against the
\* oldest head so far: the tracks behind it in the array do not count.
DeltaExceeds(limit) ==
  \E t \in Filled :
    /\ \A u \in Filled : u < t => TailTs(u) < TailTs(t)
    /\ \E u \in Filled : u <= t /\ TailTs(t) - HeadTs(u) > limit

BacklogExceeded ==
  \/ MaxDelayedPackets # 0 /\ \E t \in Filled : Len(buf[t]) > MaxDelayedPackets
  \/ MaxTimescaleDelay # 0 /\ DeltaExceeds(MaxTimescaleDelay)

\* Mutant: one frame is enough.
EnoughTracksOne == Filled # {}

EnoughTracks == IF pc = "flushAll" THEN Filled # {} ELSE Filled = Tracks

WriteOldest ==
  /\ pc \in {"flush", "flushAll"} /\ (EnoughTracks \/ BacklogExceeded)
  /\ \E t \in Tracks :
       /\ IsOldest(t)
       /\ out' = Append(out, buf[t][1])
       /\ tDone' = HeadTs(t)
       /\ buf' = [buf EXCEPT ![t] = Tail(@)]
  /\ forced' = (forced \/ ~EnoughTracks)
  /\ UNCHANGED <<hand, ended, pc, read, dropped>>

\* Mutant: the loop goes on after the last flush.
FlushDoneGoesOn ==
  /\ pc \in {"flush", "flushAll"} /\ ~EnoughTracks /\ ~BacklogExceeded
  /\ pc' = "select"
  /\ UNCHANGED <<hand, ended, buf, tDone, out, read, dropped, forced>>

FlushDone ==
  /\ pc \in {"flush", "flushAll"} /\ ~EnoughTracks /\ ~BacklogExceeded
  /\ pc' = IF pc = "flush" THEN "select" ELSE "done"
  /\ UNCHANGED <<hand, ended, buf, tDone, out, read, dropped, forced>>

Intercept == (\E t \in Tracks : Receive(t)) \/ SeeClosed \/ WriteOldest \/ FlushDone

Next ==
  \/ \E t \in Tracks : End(t) \/ \E ts \in Timestamps : Read(t, ts)
  \/ Intercept

Spec == Init /\ [][Next]_vars

\* Intercept's goroutine runs; whether readers get frames or end is up to the
\* callers.
FairSpec == Spec /\ WF_vars(Intercept)

----------------------------------------------------------------------------
(* Properties *)

\* Types; a reader offers one frame at most.
TypeOK ==
  /\ hand \in [Tracks -> Seq(Frames)] /\ \A t \in Tracks : Len(hand[t]) <= 1
  /\ ended \subseteq Tracks /\ buf \in [Tracks -> Seq(Frames)]
  /\ tDone \in Nat /\ pc \in {"select", "flush", "flushAll", "done"}
  /\ out \in Seq(Frames) /\ read \in Seq(Frames)
  /\ dropped \subseteq Nat /\ forced \in BOOLEAN

\* "sorts blocks on multiple tracks by timestamp": with the rule that drops
\* outdated frames, what is written is sorted.
OutputIsSorted ==
  DropOutdated => \A i, j \in DOMAIN out : i < j => out[i].ts <= out[j].ts

FramesAreInOnePlace ==
  \A i \in DOMAIN read :
    LET t == read[i].track
        inHand == {"hand"} \X {k \in DOMAIN hand[t] : hand[t][k] = read[i]}
        inBuf  == {"buf"} \X {k \in DOMAIN buf[t] : buf[t][k] = read[i]}
        inOut  == {"out"} \X {k \in DOMAIN out : out[k] = read[i]}
        gone   == {"dropped"} \X (dropped \cap {i})
    IN  Cardinality(inHand \cup inBuf \cup inOut \cup gone) = 1

\* Every frame read is with its reader, in its track's buffer, written or
\* dropped, and in one of them only; and one is dropped only after a frame of
\* another track was written early, because of a limit: while all tracks keep up
\* nothing is dropped.
EveryFrameIsSomewhere == FramesAreInOnePlace /\ (dropped # {} => forced)

\* When the readers have ended Intercept returns, with empty buffers.
InterceptReturns == ended = Tracks ~> pc = "done" /\ Filled = {}

============================================================================
